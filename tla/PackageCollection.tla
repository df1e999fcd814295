------------------------- MODULE PackageCollection --------------------------
(***************************************************************************)
(* From a built tree to packages: the inventory of the collected files and  *)
(* the replacement of one, the sink of the artifacts, and the publication   *)
(* of the bundle.                                                           *)
(***************************************************************************)
EXTENDS Parts, Integers, Sequences, FiniteSets, TLC

CONSTANTS
    CollectionMaxOps, CollectionMaxOutside, CollectionMaxFaults,
    MaxCollectedOps, MaxCollectedOutside, MaxCollectedFaults,
    Touch,               \* the paths others may touch
    MaxAttempts, MaxBundleOutside, MaxBundleFaults, CollectionMaxKills,
    Slots, MaxSinkOutside, MaxSinkFaults

VARIABLES
    name,        \* name -> inode in the parent directory
    node,        \* inode -> data, change counter and links
    parent,      \* [at: is the directory at its witnessed path, ver: its change counter]
    collection_disk,  \* what the directory and the file hold on disk
    witness,     \* phase, entry (snapshot), hash, parent's counter, counted bytes
    collection_ops, changes, collection_faults,
    collection_shown,  \* did the names hold what is reported at a moment since the last synchronization
    root,        \* [at: is the root at its path, ver]
    collection_tree,  \* path -> inode, kind, content and change counter
    first,       \* the paths of the first snapshot
    before,      \* the tree when the operation began
    staged,      \* [at: is the emitted root at its path, names, files: name -> [data, ver]]
    reference,   \* the expected manifest [data, ver], or None
    bundle,      \* bundle -> [names, files: name -> [data, ver, sealed, synced], mode, epoch]
    output,      \* [at, temp, final]: the bundles under the two names
    attempts, collection_kills,
    touched,     \* the bundles another process changed
    dir,         \* directory -> name -> inode; the root and the private directory
    stage,       \* the directory under the name of the private directory: 0, 1 or 9
    slot,        \* slot -> [made, activated, witness, digest, published, cleaned]
    sink,        \* [step, i, active, scratch, removed, clean, tries, outcome]
    sealedAs  \* slot -> the content it was sealed with

CollectionVars == <<subject, name, node, parent, collection_disk, witness, op, collection_ops, changes, collection_faults, collection_shown, root, collection_tree, first,
                    before, staged, reference, bundle, output, attempts, collection_kills, touched, dir, stage, slot, sink,
                    sealedAs>>

-----------------------------------------------------------------------------
(***************************************************************************)
(* mason replaces one regular file of a package tree by another: the new    *)
(* content is staged in an unnamed file, linked under a private name,       *)
(* exchanged with the target, verified, and the original is unlinked.  The  *)
(* inventory ("witness") of the tree must follow: it is committed with the  *)
(* replacement, restored with a proven rollback, and poisoned when neither  *)
(* can be shown.  Others may touch the directory at any moment, and any     *)
(* call may fail (a deadline that passes is such a failure).                *)
(*                                                                         *)
(* Inode 0 is none, 1 the first original, 2 and 3 the replacements of the   *)
(* first and the second operation, 9 another's.                             *)
(***************************************************************************)

Inodes == 1..(CollectionMaxOps[subject] + 1) \cup {9}
CollectionNames == {"target", "stage", "extra"}

World == <<name, node, parent, collection_disk>>

-----------------------------------------------------------------------------
(* Snapshots, lineages and contents. *)
FileSnapshot(i) == <<i, node[i].ver, node[i].links>>
Content(n) == "v" \o ToString(n)
SizeOf(data) == IF data = Content(0) THEN 1 ELSE 2
Original == op.original
Staged == op.staged
CollectionIdle == [step |-> "idle", read |-> 1, original |-> 0, staged |-> 0, linked |-> <<>>, retired |-> <<>>, parent |-> 0, outcome |-> "none"]
CollectionTo(step) == [op EXCEPT !.step = step, !.read = 1]

(* The steps after which a failure is rolled back in the same way. *)
RollbackOf(step) ==
    CASE step = "begin" -> "refuse"
      [] step \in {"stage", "original", "link"} -> "private"
      [] step \in {"linked", "again", "exchange"} -> "linked_stage"
      [] step \in {"verify", "sync", "reverify", "retire", "unlink"} -> "exchange_back"
      [] OTHER -> "poison"
CollectionFail == CollectionTo(RollbackOf(op.step))
CollectionMayFail == collection_faults < CollectionMaxFaults[subject] /\ collection_faults' = collection_faults + 1
CollectionNoFault == UNCHANGED collection_faults
Look == UNCHANGED <<World, witness, collection_ops, changes>>

(***************************************************************************)
(* What one read finds.  A read compares the change time before and after   *)
(* it (require_named_regular, hash_open_regular, require_exact_membership), *)
(* so it is one moment; between two reads anything may happen.              *)
(***************************************************************************)
\* Nothing but the witnessed child and, if given, the private name.
require_membership(temporary) ==
    /\ name["target"] # 0 /\ name["extra"] = 0
    /\ (name["stage"] # 0) = temporary
require_anchored_parent == parent.at
require_named_regular(which, lineage) == name[which] = lineage /\ node[lineage].links = 1
require_exact_snapshot(i, expected) == FileSnapshot(i) = expected
hash_open_regular(i, expected, hash) == require_exact_snapshot(i, expected) /\ node[i].data = hash
Holds(read) ==
    CASE read = "alone"         -> require_membership(FALSE)
      [] read = "both"          -> require_membership(TRUE)
      [] read = "anchored"      -> require_anchored_parent
      [] read = "same parent"   -> require_anchored_parent /\ parent.ver = op.parent
      [] read = "witnessed"     -> parent.ver = witness.parent
      [] read = "new at target" -> require_named_regular("target", Staged)
      [] read = "new unchanged" -> name["target"] = Staged /\ require_exact_snapshot(Staged, op.linked)
      [] read = "new hash"      -> hash_open_regular(Staged, op.linked, Content(collection_ops))
      [] read = "new at stage"  -> require_named_regular("stage", Staged)
      [] read = "new owned"     -> name["stage"] = Staged
      [] read = "old at target" -> require_named_regular("target", Original)
      [] read = "old unchanged" -> name["target"] = Original /\ require_exact_snapshot(Original, op.retired)
      [] read = "old hash"      -> hash_open_regular(Original, op.retired, witness.hash)
      [] read = "old at stage"  -> require_named_regular("stage", Original)
      [] read = "old retired"   -> name["stage"] = Original /\ require_exact_snapshot(Original, op.retired)
      [] read = "old owned"     -> name["stage"] = Original
      [] read = "old open"      -> require_exact_snapshot(Original, op.retired)
      [] read = "old linked"    -> node[Original].links = 1
      [] read = "old unlinked"  -> node[Original].links = 0
\* The snapshots a read hands to the later ones.
Taken(read) ==
    [op EXCEPT !.linked = IF read = "new at target" THEN FileSnapshot(Staged) ELSE @,
               !.retired = IF read \in {"old at target", "old at stage"} THEN FileSnapshot(Original) ELSE @,
               !.parent = IF read = "alone" THEN parent.ver ELSE @]

(* The reads of each check, in their order. *)
require_original(members) == <<members, "old open", "old unchanged">>
check_linked == <<"new at stage", "both">>
check_again == require_original("both") \o <<"new at stage", "both">>
check_exchanged == <<"new at target", "old at stage", "old linked", "both", "new hash">>
check_before_retirement == <<"new at target", "new hash", "old at stage", "old open", "both">>
check_retirement == <<"anchored", "new unchanged", "new hash", "old retired", "old open", "both", "old owned">>
check_finalized == <<"old unlinked", "new at target", "new hash">>
check_before_commit == <<"new unchanged", "new hash", "old unlinked", "alone", "same parent">>
rollback_exchange == <<"new at target", "old at stage", "both">>
check_exchanged_back == <<"old at target", "old open", "new at stage", "new owned">>
rollback_linked_stage == <<"new at stage", "new owned">>
rollback_private_parent == <<"old at target", "old open", "old hash">>
finish_proven_rollback == <<"alone", "same parent">>
Checks ==
    [begin          |-> [reads |-> <<"witnessed">>, next |-> "stage"],
     original       |-> [reads |-> require_original("alone"), next |-> "link"],
     linked         |-> [reads |-> check_linked, next |-> "again"],
     again          |-> [reads |-> check_again, next |-> "exchange"],
     verify         |-> [reads |-> check_exchanged, next |-> "sync"],
     reverify       |-> [reads |-> check_before_retirement, next |-> "retire"],
     retire         |-> [reads |-> check_retirement, next |-> "unlink"],
     commit         |-> [reads |-> check_finalized \o check_before_commit, next |-> "commit_now"],
     exchange_back  |-> [reads |-> rollback_exchange, next |-> "exchange_now"],
     exchanged_back |-> [reads |-> check_exchanged_back, next |-> "unlink_back"],
     linked_stage   |-> [reads |-> rollback_linked_stage, next |-> "unlink_stage"],
     restored       |-> [reads |-> rollback_private_parent \o finish_proven_rollback, next |-> "restore_now"],
     restored_back  |-> [reads |-> <<"old hash">> \o finish_proven_rollback, next |-> "restore_now"]]
check ==
    /\ op.step \in DOMAIN Checks
    /\ LET program == Checks[op.step]
           read == program.reads[op.read]
       IN  \/ /\ op' = IF ~Holds(read) THEN CollectionFail
                       ELSE IF op.read < Len(program.reads) THEN [Taken(read) EXCEPT !.read = @ + 1]
                       ELSE [Taken(read) EXCEPT !.step = program.next, !.read = 1]
              /\ CollectionNoFault
           \/ CollectionMayFail /\ op' = CollectionFail
    /\ Look

-----------------------------------------------------------------------------
(* The replacement. *)
open_original ==
    /\ op.step = "idle" /\ collection_ops < CollectionMaxOps[subject] /\ collection_ops' = collection_ops + 1
    /\ LET i == name["target"] IN
       op' = IF witness.phase = "AdmissionsOpen" /\ parent.at /\ i # 0 /\ FileSnapshot(i) = witness.entry /\ node[i].links = 1
             THEN [CollectionIdle EXCEPT !.step = "begin", !.original = i, !.retired = FileSnapshot(i), !.staged = collection_ops + 2]
             ELSE [CollectionIdle EXCEPT !.outcome = "refused"]
    /\ CollectionNoFault /\ UNCHANGED <<World, witness, changes>>
refuse == op.step = "refuse" /\ op' = [CollectionIdle EXCEPT !.outcome = "refused"] /\ CollectionNoFault /\ Look
\* The unnamed file is written and synchronized; it has no name yet.
write_private_stage ==
    /\ op.step = "stage"
    /\ \/ node' = [node EXCEPT ![Staged] = [data |-> Content(collection_ops), ver |-> 0, links |-> 0]] /\ op' = CollectionTo("original") /\ CollectionNoFault
       \/ CollectionMayFail /\ op' = CollectionFail /\ UNCHANGED node
    /\ UNCHANGED <<name, parent, collection_disk, witness, collection_ops, changes>>
\* A taken name stands for all the names that are tried.
link_private_stage ==
    /\ op.step = "link"
    /\ \/ /\ name["stage"] = 0
          /\ name' = [name EXCEPT !["stage"] = Staged] /\ node' = [node EXCEPT ![Staged].links = 1, ![Staged].ver = @ + 1]
          /\ parent' = [parent EXCEPT !.ver = @ + 1] /\ op' = CollectionTo("linked") /\ CollectionNoFault
       \/ name["stage"] # 0 /\ op' = CollectionFail /\ CollectionNoFault /\ UNCHANGED <<name, node, parent>>
       \/ CollectionMayFail /\ op' = CollectionFail /\ UNCHANGED <<name, node, parent>>
    /\ UNCHANGED <<collection_disk, witness, collection_ops, changes>>
Exchanged == [name EXCEPT !["target"] = name["stage"], !["stage"] = name["target"]]
Renamed(n, i, j) == [k \in Inodes |-> IF k \in {i, j} THEN [n[k] EXCEPT !.ver = @ + 1] ELSE n[k]]
rename_exchange(next) ==
    \/ /\ name["target"] # 0 /\ name["stage"] # 0
       /\ name' = Exchanged /\ node' = Renamed(node, name["target"], name["stage"])
       /\ parent' = [parent EXCEPT !.ver = @ + 1] /\ op' = CollectionTo(next) /\ CollectionNoFault
    \/ (name["target"] = 0 \/ name["stage"] = 0) /\ op' = CollectionFail /\ CollectionNoFault /\ UNCHANGED <<name, node, parent>>
    \/ CollectionMayFail /\ op' = CollectionFail /\ UNCHANGED <<name, node, parent>>
exchange == op.step = "exchange" /\ rename_exchange("verify") /\ UNCHANGED <<collection_disk, witness, collection_ops, changes>>
exchange_back == op.step = "exchange_now" /\ rename_exchange("exchanged_back") /\ UNCHANGED <<collection_disk, witness, collection_ops, changes>>
OnDisk == [name |-> name, data |-> [i \in Inodes |-> node[i].data]]
\* The synchronizations: of the exchange, of the retirement, and of a rollback.
SyncThen == [sync |-> "reverify", finalize |-> "commit", private |-> "restored", private_back |-> "restored_back"]
sync_parent ==
    /\ op.step \in DOMAIN SyncThen
    /\ \/ collection_disk' = OnDisk /\ op' = CollectionTo(SyncThen[op.step]) /\ CollectionNoFault
       \/ CollectionMayFail /\ op' = CollectionFail /\ UNCHANGED collection_disk
    /\ UNCHANGED <<name, node, parent, witness, collection_ops, changes>>
\* The name was looked at before: the call removes what the name holds now.
UnlinkThen == [unlink |-> "finalize", unlink_stage |-> "private", unlink_back |-> "private_back"]
unlink_owned ==
    /\ op.step \in DOMAIN UnlinkThen
    /\ \/ /\ name["stage"] # 0 /\ name' = [name EXCEPT !["stage"] = 0]
          /\ node' = [node EXCEPT ![name["stage"]].links = @ - 1, ![name["stage"]].ver = @ + 1]
          /\ parent' = [parent EXCEPT !.ver = @ + 1] /\ op' = CollectionTo(UnlinkThen[op.step]) /\ CollectionNoFault
       \/ name["stage"] = 0 /\ op' = CollectionFail /\ CollectionNoFault /\ UNCHANGED <<name, node, parent>>
       \/ CollectionMayFail /\ op' = CollectionFail /\ UNCHANGED <<name, node, parent>>
    /\ UNCHANGED <<collection_disk, witness, collection_ops, changes>>
commit_replacement ==
    /\ op.step = "commit_now" /\ op' = [CollectionIdle EXCEPT !.outcome = "replaced"]
    /\ witness' = [witness EXCEPT !.entry = op.linked, !.hash = Content(collection_ops), !.parent = op.parent, !.bytes = SizeOf(Content(collection_ops))]
    /\ CollectionNoFault /\ UNCHANGED <<World, collection_ops, changes>>

-----------------------------------------------------------------------------
commit_rollback ==
    /\ op.step = "restore_now" /\ op' = [CollectionIdle EXCEPT !.outcome = "restored"]
    /\ witness' = [witness EXCEPT !.entry = op.retired, !.parent = op.parent]
    /\ CollectionNoFault /\ UNCHANGED <<World, collection_ops, changes>>
poison ==
    /\ op.step = "poison"
    /\ witness' = [witness EXCEPT !.phase = "Poisoned"] /\ op' = [CollectionIdle EXCEPT !.outcome = "failed"]
    /\ CollectionNoFault /\ UNCHANGED <<World, collection_ops, changes>>

-----------------------------------------------------------------------------
(* Others. *)
CollectionOutside ==
    /\ changes < CollectionMaxOutside[subject] /\ changes' = changes + 1
    /\ \/ \E i \in {name["target"], name["stage"]} \ {0} : node' = [node EXCEPT ![i].data = "edited", ![i].ver = @ + 1] /\ UNCHANGED <<name, parent>>
       \/ /\ \E w \in CollectionNames : /\ name' = [name EXCEPT ![w] = IF w = "extra" THEN 9 - @ ELSE 9]
                                        /\ node' = [i \in Inodes |-> IF i # 9 /\ i = name[w] THEN [node[i] EXCEPT !.links = @ - 1, !.ver = @ + 1] ELSE node[i]]
          /\ parent' = [parent EXCEPT !.ver = @ + 1]
       \/ parent' = [parent EXCEPT !.at = ~@] /\ UNCHANGED <<name, node>>
    /\ UNCHANGED <<collection_disk, witness, op, collection_ops, collection_faults>>

ReplacementInit ==
    /\ name = [target |-> 1, stage |-> 0, extra |-> 0]
    /\ node = [i \in Inodes |-> [data |-> IF i = 1 THEN Content(0) ELSE "none", ver |-> 0, links |-> IF i \in {1, 9} THEN 1 ELSE 0]]
    /\ parent = [at |-> TRUE, ver |-> 0]
    /\ collection_disk = OnDisk
    /\ witness = [phase |-> "AdmissionsOpen", entry |-> <<1, 0, 1>>, hash |-> Content(0), parent |-> 0, bytes |-> SizeOf(Content(0))]
    /\ op = CollectionIdle /\ collection_ops = 0 /\ changes = 0 /\ collection_faults = 0
replace_regular_from ==
    open_original \/ refuse \/ write_private_stage \/ link_private_stage \/ exchange \/ commit_replacement
ReplacementNext ==
    \/ replace_regular_from \/ check \/ sync_parent \/ unlink_owned
    \/ exchange_back \/ commit_rollback \/ poison
    \/ CollectionOutside

-----------------------------------------------------------------------------
(* The state has its types, and a link count is the number of names. *)
ReplacementTypeOK ==
    /\ witness.phase \in {"AdmissionsOpen", "Poisoned"} /\ op.outcome \in {"none", "refused", "replaced", "restored", "failed"}
    /\ \A i \in Inodes \ {9} : node[i].links = Cardinality({w \in CollectionNames : name[w] = i})

(* Between two operations an inventory that is not poisoned is exactly the tree,   *)
(* as long as nobody else touched it: whatever call failed, the entry's snapshot,  *)
(* its hash, the parent's snapshot and the counted bytes are those of the          *)
(* directory, and no private name is left.                                         *)
InventoryFollowsTree == subject = "replacement" =>
    ((op.step = "idle" /\ witness.phase = "AdmissionsOpen" /\ changes = 0) =>
        LET i == name["target"] IN
        /\ name["stage"] = 0 /\ witness.entry = FileSnapshot(i) /\ witness.hash = node[i].data /\ witness.parent = parent.ver
        /\ witness.bytes = SizeOf(node[i].data))

(* The reads of a proof are apart and others act between them, so a committed or   *)
(* restored inventory may already be wrong; but it is never wrong unnoticed.  A     *)
(* directory and a file that have the snapshots of the inventory, which is what     *)
(* every later use compares, hold exactly what it says: the witnessed content under *)
(* the target and no other name.                                                    *)
MatchingIsWitnessed == subject = "replacementmoves" =>
    ((/\ witness.phase = "AdmissionsOpen" /\ name["target"] # 0
      /\ FileSnapshot(name["target"]) = witness.entry /\ parent.ver = witness.parent) =>
        /\ node[name["target"]].data = witness.hash /\ witness.bytes = SizeOf(witness.hash)
        /\ name["stage"] = 0 /\ name["extra"] = 0)

(* The original loses its last name only when the exchange is on disk, and a       *)
(* replacement is reported only when the names on disk are the final ones: a crash *)
(* finds the old content or the new one.                                           *)
RetiredIsDurable == subject = "replacement" =>
    (changes = 0 =>
        /\ op.original # 0 /\ op.step # "begin" /\ name["target"] = Staged /\ name["stage"] # Original =>
              collection_disk.name["target"] = Staged /\ collection_disk.data[Staged] = Content(collection_ops)
        /\ op.outcome = "replaced" => collection_disk.name = name)

-----------------------------------------------------------------------------
(***************************************************************************)
(* The collector of mason keeps an inventory of a package tree: a first     *)
(* snapshot, generated paths that are published and admitted, the seal and  *)
(* its later verifications, and the verified emission of a file.  A scan    *)
(* reads one directory or one entry at a time while others may edit, remove *)
(* or create entries; any call may fail.  An inventory that may not be true *)
(* any more is poisoned.                                                    *)
(*                                                                         *)
(* The tree: the root holds the file f, the directory d with the file g,    *)
(* and room for z (nobody declares it), for the generated d/x and for the   *)
(* generated n/y whose directory must be made.  An absent path has inode 0; *)
(* a change counter stands for the change time.                             *)
(***************************************************************************)
\* witness: [phase, at: path -> entry, root: counter, usage]

Children == [r |-> <<"d", "f", "n">>, d |-> <<"g", "x", "z">>, n |-> <<"y">>]
Paths == {"d", "f", "n", "g", "x", "z", "y"}
Dirs == {"r", "d", "n"}
ParentOf == [d |-> "r", f |-> "r", n |-> "r", g |-> "d", x |-> "d", z |-> "d", y |-> "n"]
OwnInode == [d |-> 8, x |-> 5, n |-> 6, y |-> 7]
Declared == <<"x", "y">>

Absent == [ino |-> 0, kind |-> "none", data |-> "none", ver |-> 0]
CollectionPresent(t) == {p \in Paths : t[p].ino # 0}
NamesOf(t, d) == SelectSeq(Children[d], LAMBDA p : t[p].ino # 0)
VerOf(r, t, d) == IF d = "r" THEN r.ver ELSE t[d].ver
InoOf(t, d) == IF d = "r" THEN 1 ELSE t[d].ino
Snapshot(r, t, d) == <<InoOf(t, d), VerOf(r, t, d)>>
Below(d) == {p \in Paths : ParentOf[p] = d \/ (ParentOf[p] # "r" /\ ParentOf[ParentOf[p]] = d)}
\* Putting an entry at a path (or taking it away) changes its directory.
Placed(t, p, e) ==
    [q \in Paths |-> IF q = p THEN e
                     ELSE IF q = ParentOf[p] THEN [t[q] EXCEPT !.ver = @ + 1]
                     ELSE IF p \in Dirs /\ q \in Below(p) THEN Absent ELSE t[q]]
Place(p, e) == collection_tree' = Placed(collection_tree, p, e) /\ root' = IF ParentOf[p] = "r" THEN [root EXCEPT !.ver = @ + 1] ELSE root

-----------------------------------------------------------------------------
(* Operations. *)
CollectedIdle == [kind |-> "idle", todo |-> <<>>, draft |-> [p \in Paths |-> Absent], held |-> [d \in Dirs |-> <<>>], names |-> [d \in Dirs |-> <<>>],
         made |-> <<>>, published |-> <<>>, transitioned |-> FALSE, path |-> "none", data |-> "none", outcome |-> "none"]
Begin(kind, todo) == [CollectedIdle EXCEPT !.kind = kind, !.todo = todo, !.held["r"] = <<1, root.ver>>]
Running == op.todo # <<>>
Now == op.todo[1]
AtTask(name1) == Running /\ Now[1] = name1
CollectionEnded(outcome) == [CollectedIdle EXCEPT !.outcome = outcome, !.kind = op.kind, !.path = op.path, !.data = op.data]
CollectionDone(o) == [o EXCEPT !.todo = Tail(@)]
Poison(w) == [w EXCEPT !.phase = "Poisoned"]
CollectedMayFail == collection_faults < MaxCollectedFaults[subject] /\ collection_faults' = collection_faults + 1
Still == UNCHANGED <<root, collection_tree>>
Others == UNCHANGED <<collection_ops, changes, first, before>>
MayBegin == ~Running /\ collection_ops < MaxCollectedOps[subject] /\ collection_ops' = collection_ops + 1 /\ before' = [tree |-> collection_tree, root |-> root] /\ CollectionNoFault /\ Still /\ UNCHANGED <<changes, first>>

\* A failed scan poisons; a failed publication is rolled back first.
ScanFailed ==
    IF op.kind = "publish" THEN op' = [op EXCEPT !.todo = << <<"rollback">> >>] /\ witness' = Poison(witness)
    ELSE op' = CollectionEnded("failed") /\ witness' = Poison(witness)
Scanned(condition, o) == IF condition THEN op' = o /\ UNCHANGED witness ELSE ScanFailed

-----------------------------------------------------------------------------
(* The scan: directories, entries, and each directory once more. *)
verify_directory_collection(d) == root.at /\ Snapshot(root, collection_tree, d) = op.held[d]
read_directory_names(d) == NamesOf(collection_tree, d)
Scan(d) ==
    /\ AtTask("scan") /\ Now[2] = d
    /\ LET names == read_directory_names(d)
           visits == [i \in 1..Len(names) |-> << IF op.kind = "publish" THEN "admit" ELSE "visit", names[i] >>]
       IN  Scanned(verify_directory_collection(d), [op EXCEPT !.todo = visits \o << << IF op.kind = "publish" THEN "admitted" ELSE "finalize", d >> >> \o Tail(@), !.names[d] = names])
    /\ CollectionNoFault /\ Still /\ Others
ScanFails == (AtTask("scan") \/ AtTask("visit") \/ AtTask("admit")) /\ CollectedMayFail /\ ScanFailed /\ Still /\ Others
Visit(p) ==
    /\ AtTask("visit") /\ Now[2] = p
    /\ LET e == collection_tree[p] IN
       Scanned(e.ino # 0 /\ verify_directory_collection(ParentOf[p]),
               [op EXCEPT !.draft[p] = e,
                          !.todo = (IF e.kind = "dir" THEN << <<"scan", p>> >> ELSE <<>>) \o Tail(@),
                          !.held = IF e.kind = "dir" THEN [@ EXCEPT ![p] = <<e.ino, e.ver>>] ELSE @])
    /\ CollectionNoFault /\ Still /\ Others
Finalize(d) ==
    /\ AtTask("finalize") /\ Now[2] = d
    /\ Scanned(verify_directory_collection(d) /\ read_directory_names(d) = op.names[d], CollectionDone(op))
    /\ CollectionNoFault /\ Still /\ Others

ensure_initial_snapshot ==
    /\ MayBegin /\ witness.phase = "Fresh"
    /\ op' = Begin("snapshot", << <<"scan", "r">>, <<"keep">> >>) /\ witness' = [witness EXCEPT !.phase = "InitialSnapshot"]
keep_snapshot ==
    /\ AtTask("keep")
    /\ IF root.at
       THEN /\ witness' = [phase |-> "AdmissionsOpen", at |-> op.draft, root |-> op.held["r"][2], usage |-> Cardinality(CollectionPresent(op.draft))]
            /\ op' = CollectionEnded("ok") /\ first' = CollectionPresent(op.draft)
       ELSE ScanFailed /\ UNCHANGED first
    /\ CollectionNoFault /\ Still /\ UNCHANGED <<collection_ops, changes, before>>
seal ==
    /\ MayBegin /\ witness.phase = "AdmissionsOpen"
    /\ op' = Begin("seal", << <<"scan", "r">>, <<"compare">> >>) /\ UNCHANGED witness
verify_sealed ==
    /\ MayBegin /\ witness.phase = "Sealed"
    /\ op' = Begin("verify", << <<"scan", "r">>, <<"compare">> >>) /\ UNCHANGED witness
compare_complete_draft ==
    /\ AtTask("compare")
    /\ IF root.at /\ op.draft = witness.at /\ op.held["r"][2] = witness.root /\ witness.usage = Cardinality(CollectionPresent(op.draft))
       THEN op' = CollectionEnded("ok") /\ witness' = [witness EXCEPT !.phase = "Sealed"]
       ELSE ScanFailed
    /\ CollectionNoFault /\ Still /\ Others

-----------------------------------------------------------------------------
(* The publication of the declared paths, one after the other. *)
publish_generated ==
    /\ MayBegin /\ witness.phase = "AdmissionsOpen"
    /\ op' = Begin("publish", << <<"parent", "x">>, <<"link", "x">>, <<"linked", "x">>, <<"parent", "y">>, <<"link", "y">>, <<"linked", "y">>, <<"admission">>, <<"infos">> >>)
    /\ UNCHANGED witness
PublishFailed == op' = [op EXCEPT !.todo = << <<"rollback">> >>] /\ UNCHANGED witness
Own(p, kind) == [ino |-> OwnInode[p], kind |-> kind, data |-> "made", ver |-> 0]
\* An ancestor that is witnessed must be the witnessed one; another is made, under a free name only.
ensure_parent(p) ==
    /\ AtTask("parent") /\ Now[2] = p
    /\ LET d == ParentOf[p] IN
       \/ /\ witness.at[d].ino # 0
          /\ IF root.at /\ collection_tree[d].kind = "dir" /\ collection_tree[d].ino = witness.at[d].ino THEN op' = CollectionDone(op) /\ UNCHANGED witness ELSE PublishFailed
          /\ CollectionNoFault /\ Still
       \/ /\ witness.at[d].ino = 0
          /\ \/ collection_tree[d].ino = 0 /\ root.at /\ Place(d, Own(d, "dir")) /\ CollectionNoFault
                /\ op' = [op EXCEPT !.todo = << <<"made", p>> >> \o Tail(@), !.transitioned = TRUE] /\ UNCHANGED witness
             \/ (collection_tree[d].ino # 0 \/ ~root.at) /\ PublishFailed /\ CollectionNoFault /\ Still
             \/ CollectedMayFail /\ PublishFailed /\ Still
    /\ Others
\* The directory is opened again by name and recorded as what was opened; a failure before that leaves it
\* unrecorded, a later one (its mode, the synchronizations) finds it recorded.
record_parent(p) ==
    /\ AtTask("made") /\ Now[2] = p
    /\ LET d == ParentOf[p]
           recorded == [op EXCEPT !.made = << <<d, collection_tree[d].ino>> >> \o @]
       IN  \/ collection_tree[d].kind = "dir" /\ CollectionNoFault /\ op' = CollectionDone(recorded) /\ UNCHANGED witness
           \/ collection_tree[d].kind # "dir" /\ CollectionNoFault /\ PublishFailed
           \/ CollectedMayFail /\ (PublishFailed \/ (collection_tree[d].kind = "dir" /\ op' = [recorded EXCEPT !.todo = << <<"rollback">> >>] /\ UNCHANGED witness))
    /\ Still /\ Others
Reachable(p) == collection_tree[ParentOf[p]].kind = "dir"
publish_regular(p) ==
    /\ AtTask("link") /\ Now[2] = p
    /\ \/ collection_tree[p].ino = 0 /\ Reachable(p) /\ Place(p, Own(p, "file")) /\ CollectionNoFault
          /\ op' = [CollectionDone(op) EXCEPT !.published = << <<p, OwnInode[p]>> >> \o @, !.transitioned = TRUE] /\ UNCHANGED witness
       \/ (collection_tree[p].ino # 0 \/ ~Reachable(p)) /\ PublishFailed /\ CollectionNoFault /\ Still
       \/ CollectedMayFail /\ PublishFailed /\ Still
    /\ Others
check_published(p) ==
    /\ AtTask("linked") /\ Now[2] = p
    /\ \/ (IF collection_tree[p].ino = OwnInode[p] THEN op' = CollectionDone(op) /\ UNCHANGED witness ELSE PublishFailed) /\ CollectionNoFault
       \/ CollectedMayFail /\ PublishFailed
    /\ Still /\ Others
admit_paths ==
    /\ AtTask("admission")
    /\ op' = [op EXCEPT !.todo = << <<"scan", "r">>, <<"commit">> >> \o Tail(@), !.held["r"] = <<1, root.ver>>]
    /\ UNCHANGED witness /\ CollectionNoFault /\ Still /\ Others

-----------------------------------------------------------------------------
(* The admission looks at every entry of the declared paths' directories. *)
Terminal(p) == p \in {"x", "y"}
HasDeclared(p) == p \in {"d", "n"}
Descend(p, e) == [op EXCEPT !.draft[p] = e, !.todo = << <<"scan", p>> >> \o Tail(@), !.held[p] = <<e.ino, e.ver>>]
Noted(p, e) == [CollectionDone(op) EXCEPT !.draft[p] = e]
build_admission(p) ==
    /\ AtTask("admit") /\ Now[2] = p
    /\ LET e == collection_tree[p] w == witness.at[p] IN
       IF e.ino = 0 \/ (Terminal(p) /\ w.ino # 0) THEN ScanFailed
       ELSE IF w.ino # 0 /\ w.kind = "dir"
            THEN IF HasDeclared(p) THEN Scanned(e.kind = "dir" /\ e.ino = w.ino, Descend(p, e))
                 ELSE Scanned(e = w, Noted(p, e))
       ELSE IF w.ino # 0 THEN Scanned(e = w /\ verify_directory_collection(ParentOf[p]), Noted(p, e))
       ELSE IF ~(Terminal(p) \/ HasDeclared(p)) THEN ScanFailed
       ELSE IF e.kind = "dir" THEN Scanned(TRUE, Descend(p, e))
       ELSE Scanned(Terminal(p) /\ verify_directory_collection(ParentOf[p]), Noted(p, e))
    /\ CollectionNoFault /\ Still /\ Others
ChildSet(d) == {p \in Paths : ParentOf[p] = d}
finish_directory(d) ==
    /\ AtTask("admitted") /\ Now[2] = d
    /\ LET seen == {p \in ChildSet(d) : op.draft[p].ino # 0}
           expected == {p \in ChildSet(d) : witness.at[p].ino # 0}
           known == d = "r" \/ witness.at[d].ino # 0
           expectedSnapshot == IF d = "r" THEN <<1, witness.root>> ELSE <<witness.at[d].ino, witness.at[d].ver>>
       IN  Scanned(/\ expected \subseteq seen /\ {p \in ChildSet(d) : Terminal(p) \/ HasDeclared(p)} \subseteq seen
                   /\ verify_directory_collection(d) /\ read_directory_names(d) = op.names[d]
                   /\ (known /\ seen = expected) => op.held[d] = expectedSnapshot,
                   CollectionDone(op))
    /\ CollectionNoFault /\ Still /\ Others
commit_admission ==
    /\ AtTask("commit")
    /\ witness' = [witness EXCEPT !.at = op.draft, !.root = op.held["r"][2], !.usage = @ + Cardinality(CollectionPresent(op.draft) \ CollectionPresent(witness.at))]
    /\ op' = CollectionDone(op) /\ CollectionNoFault /\ Still /\ Others
\* Every admitted path is opened again and must be the published inode, unchanged and with the declared content.
check_infos ==
    /\ AtTask("infos")
    /\ IF root.at /\ \A i \in 1..Len(Declared) :
              LET p == Declared[i] IN
              /\ Snapshot(root, collection_tree, ParentOf[p]) = <<witness.at[ParentOf[p]].ino, witness.at[ParentOf[p]].ver>>
              /\ collection_tree[p] = Own(p, "file") /\ witness.at[p].ino = OwnInode[p]
       THEN op' = CollectionEnded("ok") /\ UNCHANGED witness
       ELSE op' = CollectionEnded("failed") /\ witness' = Poison(witness)
    /\ CollectionNoFault /\ Still /\ Others
\* unlink_owned for every published node, then for every made directory; each failure is remembered and the rest goes on.
collected_unlink_owned ==
    /\ AtTask("rollback") /\ op.published \o op.made # <<>>
    /\ LET todo == op.published \o op.made
           p == todo[1][1]
           rest == IF op.published # <<>> THEN [op EXCEPT !.published = Tail(@)] ELSE [op EXCEPT !.made = Tail(@)]
           empty == p \in Dirs => NamesOf(collection_tree, p) = <<>>
       IN  \/ collection_tree[p].ino = todo[1][2] /\ empty /\ Place(p, Absent) /\ op' = rest /\ CollectionNoFault
           \/ (collection_tree[p].ino # todo[1][2] \/ ~empty) /\ op' = [rest EXCEPT !.data = "left"] /\ CollectionNoFault /\ Still
           \/ CollectedMayFail /\ op' = [rest EXCEPT !.data = "left"] /\ Still
    /\ UNCHANGED witness /\ Others
rollback_publication ==
    /\ AtTask("rollback") /\ op.published \o op.made = <<>>
    /\ op' = CollectionEnded("failed") /\ witness' = IF op.transitioned THEN Poison(witness) ELSE witness
    /\ CollectionNoFault /\ Still /\ Others

-----------------------------------------------------------------------------
(* The verified emission of one witnessed file. *)
open_verified(p) ==
    /\ MayBegin /\ witness.phase \in {"AdmissionsOpen", "Sealed"} /\ witness.at[p].ino # 0 /\ witness.at[p].kind = "file"
    /\ op' = [Begin("emit", << <<"open">>, <<"read">>, <<"finish">> >>) EXCEPT !.path = p]
    /\ UNCHANGED witness
EmitStep(condition, o) == op' = (IF condition THEN o ELSE CollectionEnded("failed")) /\ UNCHANGED witness /\ Still /\ Others
CollectionInPlace(p) == root.at /\ InoOf(collection_tree, ParentOf[p]) = (IF ParentOf[p] = "r" THEN 1 ELSE witness.at[ParentOf[p]].ino) /\ collection_tree[p].ino = witness.at[p].ino /\ collection_tree[p].ver = witness.at[p].ver
open_regular == AtTask("open") /\ EmitStep(CollectionInPlace(op.path), CollectionDone(op)) /\ CollectionNoFault
\* The open file is read; when the name was given to another, the open one is still the old content.
read_verified ==
    /\ AtTask("read")
    /\ \/ EmitStep(TRUE, [CollectionDone(op) EXCEPT !.data = IF collection_tree[op.path].ino = witness.at[op.path].ino THEN collection_tree[op.path].data ELSE witness.at[op.path].data]) /\ CollectionNoFault
       \/ CollectedMayFail /\ EmitStep(FALSE, op)
finish_verified == AtTask("finish") /\ EmitStep(op.data = witness.at[op.path].data /\ CollectionInPlace(op.path), CollectionEnded("ok")) /\ CollectionNoFault

-----------------------------------------------------------------------------
(* Others edit, remove or create entries, or move the root. *)
CollectedOutside ==
    /\ changes < MaxCollectedOutside[subject] /\ changes' = changes + 1
    /\ \/ \E p \in Touch[subject] : /\ collection_tree[p].kind = "file"
                                    /\ collection_tree' = [collection_tree EXCEPT ![p].data = "edited", ![p].ver = @ + 1] /\ UNCHANGED root
       \/ \E p \in Touch[subject] : collection_tree[p].ino # 0 /\ Place(p, Absent)
       \/ \E p \in Touch[subject] : /\ (IF ParentOf[p] = "r" THEN TRUE ELSE collection_tree[ParentOf[p]].kind = "dir") /\ collection_tree[p].ino # 9
                                    /\ \E k \in {"file", "dir"} : Place(p, [ino |-> 9, kind |-> k, data |-> "other", ver |-> 0]) /\ (k = "dir" => p \in Dirs)
       \/ root' = [root EXCEPT !.at = ~@] /\ UNCHANGED collection_tree
    /\ UNCHANGED <<witness, op, collection_ops, collection_faults, first, before>>

File(i) == [ino |-> i, kind |-> "file", data |-> "old", ver |-> 0]
CollectedInit ==
    /\ root = [at |-> TRUE, ver |-> 0]
    /\ collection_tree = [p \in Paths |-> CASE p = "f" -> File(2) [] p = "g" -> File(3) [] p = "d" -> [ino |-> 4, kind |-> "dir", data |-> "none", ver |-> 0] [] OTHER -> Absent]
    /\ witness = [phase |-> "Fresh", at |-> [p \in Paths |-> Absent], root |-> 0, usage |-> 0]
    /\ op = CollectedIdle /\ collection_ops = 0 /\ changes = 0 /\ collection_faults = 0 /\ first = {} /\ before = [tree |-> collection_tree, root |-> root]
Scanning == ScanFails \/ (\E d \in Dirs : Scan(d) \/ Finalize(d) \/ finish_directory(d)) \/ (\E p \in Paths : Visit(p) \/ build_admission(p))
Sealing == ensure_initial_snapshot \/ keep_snapshot \/ seal \/ verify_sealed \/ compare_complete_draft
Publishing ==
    \/ publish_generated \/ admit_paths \/ commit_admission \/ check_infos \/ collected_unlink_owned \/ rollback_publication
    \/ \E p \in {"x", "y"} : ensure_parent(p) \/ record_parent(p) \/ publish_regular(p) \/ check_published(p)
Emitting == (\E p \in {"f", "x"} : open_verified(p)) \/ open_regular \/ read_verified \/ finish_verified
CollectedNext == Scanning \/ Sealing \/ Publishing \/ Emitting \/ CollectedOutside

-----------------------------------------------------------------------------
(* The inventory, the operation and the tree have their types. *)
CollectedTypeOK ==
    /\ witness.phase \in {"Fresh", "InitialSnapshot", "AdmissionsOpen", "Sealed", "Poisoned"}
    /\ op.kind \in {"idle", "snapshot", "publish", "seal", "verify", "emit"} /\ op.outcome \in {"none", "ok", "failed"}
    /\ \A p \in Paths : collection_tree[p].ino # 0 /\ ParentOf[p] # "r" => collection_tree[ParentOf[p]].kind = "dir"
    /\ witness.phase = "InitialSnapshot" => Running

(* A usable inventory holds the paths of the first snapshot and the declared ones, *)
(* and no other: an entry that appears next to them is never admitted.             *)
AdmittedIsDeclared == subject = "collectedmoves" =>
    (witness.phase \in {"AdmissionsOpen", "Sealed"} => CollectionPresent(witness.at) \subseteq first \cup {"d", "x", "n", "y"})

(* A publication that succeeded admitted its own files with the declared content,  *)
(* not what others put at their names meanwhile.                                   *)
PublishedIsOwn == subject = "collectedmoves" =>
    ((op.kind = "publish" /\ op.outcome = "ok") => \A p \in {"x", "y"} : witness.at[p].ino = OwnInode[p] /\ witness.at[p].data = "made")

(* When the tree is sealed or verified with success, it was the witnessed tree when *)
(* that operation began: every change made before, even one undone since, is seen.  *)
SealedWasTree == subject = "collectedmoves" =>
    ((op.kind \in {"seal", "verify"} /\ op.outcome = "ok") => before.tree = witness.at /\ before.root.ver = witness.root)

(* Without a change by others and without a failing call the inventory is never    *)
(* poisoned and every operation succeeds, but for a second publication of the same  *)
(* paths: what the collector changes itself is accounted for.                       *)
OwnChangesAreAdmitted == subject = "collected" => ((changes = 0 /\ collection_faults = 0) => witness.phase # "Poisoned" /\ (op.outcome = "failed" => op.kind = "publish" /\ before.tree["x"].ino # 0))

(* After a failed publication the inventory is usable only if the tree is still the *)
(* witnessed one.  When every removal succeeded no generated file is left; a         *)
(* directory that was made and could not be opened again may stay, but then it is    *)
(* empty and the inventory is poisoned.                                              *)
FailedPublicationIsSafe == subject = "collected" =>
    ((op.kind = "publish" /\ op.outcome = "failed" /\ changes = 0) =>
        /\ witness.phase # "Poisoned" => collection_tree = witness.at /\ root.ver = witness.root
        /\ op.data # "left" => /\ \A p \in {"x", "y"} : collection_tree[p].ino = before.tree[p].ino
                               /\ \/ collection_tree["n"].ino = before.tree["n"].ino
                                  \/ witness.phase = "Poisoned" /\ NamesOf(collection_tree, "n") = <<>>)

(* A file that was emitted with success has the witnessed content.                  *)
EmittedIsWitnessed == subject = "collected" => ((op.kind = "emit" /\ op.outcome = "ok") => op.data = witness.at[op.path].data)

-----------------------------------------------------------------------------
(***************************************************************************)
(* mason publishes the artefacts of a build as one read-only bundle under   *)
(* the derivation's name: every file is copied into a private sibling       *)
(* directory, synchronized and hashed again, the directory is sealed and    *)
(* renamed without replacement, and the output directory is synchronized.   *)
(* A bundle that is already there is reused when it is byte for byte the    *)
(* staged one, and is made durable before it is reported.  With an expected *)
(* manifest, the manifest must be that file all the way.                    *)
(*                                                                         *)
(* One publisher runs at a time (the execution lock).  A process that does  *)
(* not hold the lock may still change files and names; any call may fail (a *)
(* deadline that passes is such a failure); the publisher may be killed and *)
(* the machine may lose power.  Bundle 0 is none, 1, 2, ... the bundle each *)
(* attempt creates, 9 another's.  The change counter of a file stands for   *)
(* its size and times; one check of a bundle is one step, because the       *)
(* counters are compared with those taken when the bundle was opened.       *)
(***************************************************************************)
\* disk: [final, bundle]: what the directories hold on disk
\* shown: since the last synchronization: was the final name the durable, exact bundle

BundleNames == {"manifest", "stone"}
Bundles == 1..MaxAttempts[subject] \cup {9}
Data == {"a", "b"}

BundleWorld == <<staged, reference, bundle, output, collection_disk>>

-----------------------------------------------------------------------------
BundleAbsent == [data |-> "none", ver |-> 0, sealed |-> FALSE, synced |-> FALSE]
Fresh == [names |-> {}, files |-> [n \in BundleNames |-> BundleAbsent], mode |-> 448, epoch |-> FALSE]
BundleIdle == [todo |-> <<>>, own |-> 0, at |-> "none", want |-> None, owned |-> None, made |-> {}, pub |-> 0, pubwant |-> None, ref |-> None, clean |-> TRUE, outcome |-> "none"]
PUBLISHED_BUNDLE_MODE == 365
BundleMayFail == collection_faults < MaxBundleFaults[subject] /\ collection_faults' = collection_faults + 1
Stage(s) == op.todo # <<>> /\ op.todo[1] = s
CollectionAdvance(o) == [o EXCEPT !.todo = Tail(@)]
Then(o, program) == [o EXCEPT !.todo = program]
Where == IF op.at = "Published" THEN "final" ELSE "temp"

(* The programs; the manifest steps run only with an expected manifest. *)
IfReference(program) == IF reference = None THEN <<>> ELSE program
Opening == <<"open_staged">> \o IfReference(<<"compare_manifest">>) \o <<"open_output", "look_final">>
verify_reuse_program == <<"first_round", "second_round", "sync_reused", "durable_round", "reuse_names">>
ReuseProgram == IfReference(<<"manifest_published">>) \o verify_reuse_program \o IfReference(<<"manifest_reused">>) \o <<"reused">>
Creation == <<"create", "copy_manifest", "copy_stone", "seal", "round_staged">> \o IfReference(<<"manifest_both">>) \o <<"install">>
AfterInstall ==
    <<"verify_final">> \o IfReference(<<"manifest_own">>) \o <<"round_staged", "sync_output", "verify_final">> \o IfReference(<<"manifest_both">>) \o <<"roots">>
AfterExists == <<"round_staged", "verify_entries">> \o IfReference(<<"manifest_both">>) \o <<"open_winner">>
Aborting == <<"abort_mode", "abort_manifest", "abort_stone", "abort_sync", "abort_name", "abort_output">>

\* The failure of a step: what this attempt made is removed, when it made something.
BundleFail(o) == IF o.at = "none" THEN [BundleIdle EXCEPT !.own = o.own, !.outcome = "failed"] ELSE Then([o EXCEPT !.outcome = "failing"], Aborting)

-----------------------------------------------------------------------------
(* Verifications. *)
require_path_identity_collection(root1) == root1.at
require_inventory(names) == names = BundleNames
FileWitness(f) == [data |-> f.data, ver |-> f.ver]
Witnesses(files) == [n \in BundleNames |-> FileWitness(files[n])]
require_named(names, files, want, n) == n \in names /\ files[n].ver = want[n].ver
digest_round(names, files, want) == require_inventory(names) /\ \A n \in BundleNames : require_named(names, files, want, n)
require_regular(f) == f.sealed
require_named_directory(name1, b, mode) == output[name1] = b /\ bundle[b].mode = mode /\ (mode = PUBLISHED_BUNDLE_MODE => bundle[b].epoch)
\* A bundle that is opened for reuse: its directory, its names, its files.
open_child_directory(b) == bundle[b].mode = PUBLISHED_BUNDLE_MODE /\ bundle[b].epoch
VerifiedBundle(b) == require_inventory(bundle[b].names) /\ \A n \in BundleNames : require_regular(bundle[b].files[n])
compare_digests(left, right) == \A n \in BundleNames : left[n].data = right[n].data
StagedRound == digest_round(staged.names, staged.files, op.want) /\ require_path_identity_collection(staged)
PublishedRound == digest_round(bundle[op.pub].names, bundle[op.pub].files, op.pubwant) /\ output.at /\ output.final = op.pub
verify_entries == digest_round(bundle[op.own].names, bundle[op.own].files, op.owned) /\ require_named_directory(Where, op.own, PUBLISHED_BUNDLE_MODE)

(* The expected manifest. *)
require_digest == op.ref # None /\ reference.ver = op.ref.ver
ManifestOf(names, files, want) == require_named(names, files, want, "manifest") /\ files["manifest"].data = op.ref.data
verify_own_manifest == ManifestOf(bundle[op.own].names, bundle[op.own].files, op.owned) /\ require_named_directory(Where, op.own, PUBLISHED_BUNDLE_MODE)
verify_staged_manifest == ManifestOf(staged.names, staged.files, op.want)
verify_staged_manifest_as(r) == staged.files["manifest"].ver = op.want["manifest"].ver /\ staged.files["manifest"].data = r.data
verify_published_manifest == ManifestOf(bundle[op.pub].names, bundle[op.pub].files, op.pubwant)

-----------------------------------------------------------------------------
(* The exact bundle under the final name. *)
CollectionExact(b, bs, out, o) ==
    /\ b # 0 /\ out.final = b /\ out.at /\ bs[b].names = BundleNames
    /\ \A n \in BundleNames : bs[b].files[n].data = o.want[n].data /\ bs[b].files[n].synced
    /\ o.ref # None => bs[b].files["manifest"].data = o.ref.data
Chosen(o) == IF o.pub # 0 THEN o.pub ELSE o.own
Shown(bs, out, o) == o.want # None /\ CollectionExact(Chosen(o), bs, out, o)

CollectionWatch == collection_shown' = (collection_shown \/ Shown(bundle', output', op))
Rest == UNCHANGED <<attempts, changes, collection_kills, touched>>
LookAt(stage1, condition, next) ==
    /\ Stage(stage1) /\ UNCHANGED BundleWorld /\ Rest /\ CollectionWatch
    /\ \/ op' = (IF condition THEN next ELSE BundleFail(op)) /\ CollectionNoFault
       \/ BundleMayFail /\ op' = BundleFail(op)
Looks(stage1, condition) == LookAt(stage1, condition, CollectionAdvance(op))

-----------------------------------------------------------------------------
(* Opening: the build has just emitted its artefacts. *)
publish_artefacts ==
    /\ op.todo = <<>> /\ attempts < MaxAttempts[subject] /\ attempts' = attempts + 1
    /\ \E data \in [BundleNames -> Data] : staged' = [at |-> TRUE, names |-> BundleNames, files |-> [n \in BundleNames |-> [data |-> data[n], ver |-> 0]]]
    /\ op' = [BundleIdle EXCEPT !.todo = Opening, !.own = attempts + 1] /\ collection_shown' = FALSE
    /\ CollectionNoFault /\ UNCHANGED <<reference, bundle, output, collection_disk, changes, collection_kills, touched>>
open_staged == LookAt("open_staged", require_inventory(staged.names) /\ require_path_identity_collection(staged), [CollectionAdvance(op) EXCEPT !.want = Witnesses(staged.files)])
compare_manifest ==
    LookAt("compare_manifest", verify_staged_manifest_as(reference), [CollectionAdvance(op) EXCEPT !.ref = reference])
open_output == Looks("open_output", require_path_identity_collection(staged) /\ output.at)
look_final ==
    \/ output.final = 0 /\ LookAt("look_final", TRUE, Then(op, Creation))
    \/ output.final # 0 /\ LookAt("look_final", open_child_directory(output.final) /\ VerifiedBundle(output.final),
                                  [Then(op, ReuseProgram) EXCEPT !.pub = output.final, !.pubwant = Witnesses(bundle[output.final].files)])

-----------------------------------------------------------------------------
(* Reuse. *)
manifest_published == Looks("manifest_published", require_digest /\ verify_published_manifest)
first_round == Looks("first_round", StagedRound /\ PublishedRound /\ compare_digests(op.want, op.pubwant))
second_round == Looks("second_round", StagedRound /\ PublishedRound /\ compare_digests(op.want, op.pubwant))
AllSynced(b) == [b EXCEPT !.files = [n \in BundleNames |-> [b.files[n] EXCEPT !.synced = TRUE]]]
sync_reused ==
    /\ Stage("sync_reused") /\ Rest /\ collection_shown' = FALSE
    /\ \/ /\ bundle' = [bundle EXCEPT ![op.pub] = AllSynced(@)]
          /\ collection_disk' = [final |-> output.final, bundle |-> [collection_disk.bundle EXCEPT ![op.pub] = AllSynced(bundle[op.pub])]]
          /\ op' = CollectionAdvance(op) /\ CollectionNoFault
       \/ BundleMayFail /\ op' = BundleFail(op) /\ UNCHANGED <<bundle, collection_disk>>
    /\ UNCHANGED <<staged, reference, output>>
durable_round == Looks("durable_round", StagedRound /\ PublishedRound /\ compare_digests(op.want, op.pubwant))
reuse_names ==
    Looks("reuse_names", /\ require_named_directory("final", op.pub, PUBLISHED_BUNDLE_MODE)
                         /\ require_path_identity_collection(staged) /\ require_path_identity_collection(output))
manifest_reused == Looks("manifest_reused", require_digest /\ verify_published_manifest /\ verify_staged_manifest)
\* The loser of a race removes its own copy before it reports the winner's bundle.
reused == LookAt("reused", TRUE, IF op.at = "none" THEN [op EXCEPT !.todo = <<>>, !.outcome = "Reused"] ELSE Then([op EXCEPT !.outcome = "reusing"], Aborting))

-----------------------------------------------------------------------------
(* Creation. *)
create ==
    /\ Stage("create") /\ Rest
    /\ \/ /\ require_path_identity_collection(output)
          /\ bundle' = [bundle EXCEPT ![op.own] = Fresh] /\ output' = [output EXCEPT !.temp = op.own]
          /\ op' = [CollectionAdvance(op) EXCEPT !.at = "Temporary", !.owned = [n \in BundleNames |-> None]] /\ CollectionNoFault
       \/ ~require_path_identity_collection(output) /\ op' = BundleFail(op) /\ CollectionNoFault /\ UNCHANGED <<bundle, output>>
       \/ BundleMayFail /\ op' = BundleFail(op) /\ UNCHANGED <<bundle, output>>
    /\ UNCHANGED <<staged, reference, collection_disk>> /\ CollectionWatch
Put(n, f) == bundle' = [bundle EXCEPT ![op.own].names = @ \cup {n}, ![op.own].files[n] = f, ![op.own].epoch = FALSE]
Copied(n, synced) == [data |-> staged.files[n].data, ver |-> 1, sealed |-> TRUE, synced |-> synced]
Copy(n, synced) ==
    /\ Rest /\ n \notin bundle[op.own].names
    /\ \/ IF require_named({n}, staged.files, op.want, n)
          THEN Put(n, Copied(n, synced)) /\ op' = [CollectionAdvance(op) EXCEPT !.made = @ \cup {n}, !.owned[n] = FileWitness(Copied(n, synced))] /\ CollectionNoFault
          ELSE Put(n, BundleAbsent) /\ op' = BundleFail([op EXCEPT !.made = @ \cup {n}]) /\ CollectionNoFault
       \/ BundleMayFail /\ Put(n, BundleAbsent) /\ op' = BundleFail([op EXCEPT !.made = @ \cup {n}])
       \/ BundleMayFail /\ op' = BundleFail(op) /\ UNCHANGED bundle
    /\ UNCHANGED <<staged, reference, output, collection_disk>> /\ CollectionWatch
copy_from == \E n \in BundleNames : Stage("copy_" \o n) /\ Copy(n, TRUE)
bundle_seal ==
    /\ Stage("seal") /\ Rest
    /\ \/ /\ require_inventory(bundle[op.own].names) /\ output.temp = op.own
          /\ digest_round(bundle[op.own].names, bundle[op.own].files, op.owned)
          /\ LET sealed == [bundle[op.own] EXCEPT !.mode = PUBLISHED_BUNDLE_MODE, !.epoch = TRUE]
             IN  bundle' = [bundle EXCEPT ![op.own] = sealed] /\ collection_disk' = [collection_disk EXCEPT !.bundle[op.own] = sealed]
          /\ op' = CollectionAdvance(op) /\ CollectionNoFault
       \/ /\ ~digest_round(bundle[op.own].names, bundle[op.own].files, op.owned) \/ output.temp # op.own
          /\ op' = BundleFail(op) /\ CollectionNoFault /\ UNCHANGED <<bundle, collection_disk>>
       \/ /\ BundleMayFail /\ op' = BundleFail(op)
          /\ \E m \in {bundle[op.own].mode, PUBLISHED_BUNDLE_MODE} : bundle' = [bundle EXCEPT ![op.own].mode = m]
          /\ UNCHANGED collection_disk
    /\ UNCHANGED <<staged, reference, output>> /\ CollectionWatch
round_staged == Looks("round_staged", StagedRound)
manifest_both == Looks("manifest_both", require_digest /\ verify_own_manifest /\ verify_staged_manifest)
manifest_own == Looks("manifest_own", require_digest /\ verify_own_manifest)
BundleRenamed == [output EXCEPT !.temp = 0, !.final = op.own]
install ==
    /\ Stage("install") /\ Rest
    /\ LET ok == output.at /\ require_named_directory("temp", op.own, PUBLISHED_BUNDLE_MODE) IN
       \/ ok /\ output.final = 0 /\ output' = BundleRenamed /\ op' = [Then(op, AfterInstall) EXCEPT !.at = "Published"] /\ CollectionNoFault
       \/ ok /\ output.final # 0 /\ op' = Then(op, AfterExists) /\ CollectionNoFault /\ UNCHANGED output
       \/ ~ok /\ op' = BundleFail(op) /\ CollectionNoFault /\ UNCHANGED output
       \/ BundleMayFail /\ op' = BundleFail(op) /\ UNCHANGED output
    /\ UNCHANGED <<staged, reference, bundle, collection_disk>> /\ CollectionWatch
verify_final == Looks("verify_final", verify_entries /\ require_path_identity_collection(output))
sync_output ==
    /\ Stage("sync_output") /\ Rest /\ collection_shown' = FALSE
    /\ \/ collection_disk' = [collection_disk EXCEPT !.final = output.final] /\ op' = CollectionAdvance(op) /\ CollectionNoFault
       \/ BundleMayFail /\ op' = BundleFail(op) /\ UNCHANGED collection_disk
    /\ UNCHANGED <<staged, reference, bundle, output>>
roots == LookAt("roots", require_path_identity_collection(staged) /\ require_path_identity_collection(output), [op EXCEPT !.todo = <<>>, !.outcome = "Published"])
verify_own_entries == Looks("verify_entries", verify_entries)
open_winner ==
    \/ /\ output.final # 0
       /\ LookAt("open_winner", open_child_directory(output.final) /\ VerifiedBundle(output.final),
                 [Then(op, ReuseProgram) EXCEPT !.pub = output.final, !.pubwant = Witnesses(bundle[output.final].files)])
    \/ output.final = 0 /\ LookAt("open_winner", FALSE, op)

-----------------------------------------------------------------------------
(* The abort: every removal is tried, and the failures are collected. *)
Try(stage1, condition) ==
    /\ Stage(stage1) /\ Rest /\ CollectionWatch /\ UNCHANGED <<staged, reference>>
    /\ op' = [CollectionAdvance(op) EXCEPT !.clean = @ /\ condition]
Fails(stage1) == BundleMayFail /\ UNCHANGED <<bundle, output, collection_disk>> /\ Try(stage1, FALSE)
abort_mode ==
    /\ Stage("abort_mode")
    /\ \/ bundle' = [bundle EXCEPT ![op.own].mode = 448] /\ UNCHANGED <<output, collection_disk>> /\ Try("abort_mode", TRUE) /\ CollectionNoFault
       \/ Fails("abort_mode")
remove_owned_file(n) ==
    \/ /\ n \in op.made \cap bundle[op.own].names
       /\ bundle' = [bundle EXCEPT ![op.own].names = @ \ {n}, ![op.own].epoch = FALSE]
       /\ UNCHANGED <<output, collection_disk>> /\ Try("abort_" \o n, TRUE) /\ CollectionNoFault
    \/ n \notin op.made \cap bundle[op.own].names /\ UNCHANGED <<bundle, output, collection_disk>> /\ Try("abort_" \o n, n \notin op.made) /\ CollectionNoFault
    \/ Fails("abort_" \o n)
abort_entries == \E n \in BundleNames : Stage("abort_" \o n) /\ remove_owned_file(n)
abort_sync ==
    /\ Stage("abort_sync")
    /\ \/ collection_disk' = [collection_disk EXCEPT !.bundle[op.own] = bundle[op.own]] /\ UNCHANGED <<bundle, output>> /\ Try("abort_sync", TRUE) /\ CollectionNoFault
       \/ Fails("abort_sync")
remove_owned_entry ==
    /\ Stage("abort_name")
    /\ LET owned == output[Where] = op.own /\ bundle[op.own].names = {} IN
       \/ /\ output' = (IF owned THEN [output EXCEPT ![Where] = 0] ELSE output)
          /\ UNCHANGED <<bundle, collection_disk>> /\ Try("abort_name", owned) /\ CollectionNoFault
       \/ Fails("abort_name")
rollback_error(o) ==
    [BundleIdle EXCEPT !.own = o.own, !.want = o.want, !.ref = o.ref, !.pub = o.pub,
                 !.outcome = CASE o.clean /\ o.outcome = "reusing" -> "Reused"
                               [] o.clean -> "failed"
                               [] o.at = "Published" -> "PublishedDurabilityUnknown"
                               [] OTHER -> "Rollback"]
abort_output ==
    /\ Stage("abort_output") /\ Rest /\ UNCHANGED <<staged, reference, bundle, output>>
    /\ \/ collection_disk' = [collection_disk EXCEPT !.final = output.final] /\ op' = rollback_error(op) /\ CollectionNoFault
       \/ BundleMayFail /\ op' = rollback_error([op EXCEPT !.clean = FALSE]) /\ UNCHANGED collection_disk
    /\ CollectionWatch
-----------------------------------------------------------------------------
(* Kills and power losses: a private directory that is left has a name of its own. *)
Die == collection_kills < CollectionMaxKills[subject] /\ collection_kills' = collection_kills + 1 /\ op' = BundleIdle /\ collection_shown' = FALSE /\ UNCHANGED <<staged, reference, attempts, changes, collection_faults, touched>>
CollectionKill == Die /\ op.todo # <<>> /\ output' = [output EXCEPT !.temp = 0] /\ UNCHANGED <<bundle, collection_disk>>
Survives(f) == IF f.synced THEN f ELSE [f EXCEPT !.data = "junk", !.synced = TRUE]
CollectionPowerLoss ==
    /\ Die
    /\ \E final \in {output.final, collection_disk.final}, written \in BOOLEAN :
         /\ output' = [output EXCEPT !.temp = 0, !.final = final]
         /\ bundle' = [b \in Bundles |-> [(IF written THEN bundle[b] ELSE collection_disk.bundle[b]) EXCEPT !.files = [n \in BundleNames |-> Survives(bundle[b].files[n])]]]
         /\ collection_disk' = [final |-> final, bundle |-> bundle']

(* Processes without the lock. *)
CollectionEdited(f) == [f EXCEPT !.data = IF @ = "a" THEN "b" ELSE "a", !.ver = @ + 1]
OutsideBundle ==
    \E b \in {output.temp, output.final} \ {0}, n \in BundleNames :
        /\ n \in bundle[b].names
        /\ \/ bundle' = [bundle EXCEPT ![b].files[n] = [CollectionEdited(@) EXCEPT !.synced = FALSE]]
           \/ bundle' = [bundle EXCEPT ![b].names = @ \ {n}, ![b].epoch = FALSE]
        /\ touched' = touched \cup {b} /\ UNCHANGED <<staged, reference, output>>
\* Another publisher's bundle appears, or the final name goes away.
Complete(data) == [names |-> BundleNames, files |-> [n \in BundleNames |-> [data |-> data, ver |-> 1, sealed |-> TRUE, synced |-> FALSE]], mode |-> PUBLISHED_BUNDLE_MODE, epoch |-> TRUE]
OutsideName ==
    \/ /\ output.final # 9 /\ output' = [output EXCEPT !.final = 9]
       /\ \/ bundle[9].names = {} /\ \E data \in Data : bundle' = [bundle EXCEPT ![9] = Complete(data)]
          \/ bundle[9].names # {} /\ UNCHANGED bundle
       /\ UNCHANGED <<staged, reference, touched>>
    \/ output.final # 0 /\ output' = [output EXCEPT !.final = 0] /\ UNCHANGED <<staged, reference, bundle, touched>>
    \/ output' = [output EXCEPT !.at = ~@] /\ UNCHANGED <<staged, reference, bundle, touched>>
OutsideSource ==
    \/ \E n \in BundleNames : staged' = [staged EXCEPT !.files[n] = CollectionEdited(@)] /\ UNCHANGED <<reference, bundle, output, touched>>
    \/ staged' = [staged EXCEPT !.at = ~@] /\ UNCHANGED <<reference, bundle, output, touched>>
    \/ reference # None /\ reference' = CollectionEdited(reference) /\ UNCHANGED <<staged, bundle, output, touched>>
BundleOutside ==
    /\ changes < MaxBundleOutside[subject] /\ changes' = changes + 1 /\ op.todo # <<>>
    /\ OutsideBundle \/ OutsideName \/ OutsideSource
    /\ UNCHANGED <<collection_disk, op, attempts, collection_faults, collection_kills>> /\ CollectionWatch

BundleInit ==
    /\ staged = [at |-> TRUE, names |-> {}, files |-> [n \in BundleNames |-> [data |-> "a", ver |-> 0]]]
    /\ reference \in {None, [data |-> "a", ver |-> 0]}
    /\ bundle = [b \in Bundles |-> Fresh] /\ output = [at |-> TRUE, temp |-> 0, final |-> 0]
    /\ collection_disk = [final |-> 0, bundle |-> bundle]
    /\ op = BundleIdle /\ attempts = 0 /\ changes = 0 /\ collection_faults = 0 /\ collection_kills = 0 /\ collection_shown = FALSE /\ touched = {}
Reuse == manifest_published \/ first_round \/ second_round \/ sync_reused \/ durable_round \/ reuse_names \/ manifest_reused \/ reused
Publish ==
    \/ create \/ copy_from \/ bundle_seal \/ round_staged \/ manifest_both \/ manifest_own \/ install
    \/ verify_final \/ sync_output \/ roots \/ verify_own_entries \/ open_winner
Abort == abort_mode \/ abort_entries \/ abort_sync \/ remove_owned_entry \/ abort_output
BundleNext ==
    \/ publish_artefacts \/ open_staged \/ compare_manifest \/ open_output \/ look_final
    \/ Reuse \/ Publish \/ Abort \/ CollectionKill \/ CollectionPowerLoss \/ BundleOutside

-----------------------------------------------------------------------------
(* The state has its types, and a private directory that is being filled is never  *)
(* under the final name.                                                           *)
BundleTypeOK ==
    /\ op.outcome \in {"none", "failing", "reusing", "Published", "Reused", "failed", "Rollback", "PublishedDurabilityUnknown"}
    /\ output.temp \in Bundles \cup {0} /\ output.final \in Bundles \cup {0}
    /\ op.at = "Temporary" => output.final # op.own

(* Published or Reused is reported only when, at a moment after the last           *)
(* synchronization, the derivation's name held exactly the staged files, each of   *)
(* them synchronized, with the expected manifest when one was given.               *)
PublishedWasExact == subject = "bundlemoves" => (op.outcome \in {"Published", "Reused"} => collection_shown)

(* A bundle that is reported is on disk under its name with all its files, when    *)
(* nobody moves the name meanwhile: a power loss right after the report keeps it.  *)
ReportedIsDurable == subject = "bundle" =>
    (op.outcome \in {"Published", "Reused"} => /\ collection_disk.final = Chosen(op) /\ collection_disk.bundle[Chosen(op)].names = BundleNames
                                               /\ \A n \in BundleNames : collection_disk.bundle[Chosen(op)].files[n].synced)

(* Whatever is killed, lost or aborted, a bundle under the final name that a later *)
(* publication would open (its mode and its time are those of a bundle) has all    *)
(* its files with the content of some build.                                       *)
FinalIsWhole == subject = "bundle" =>
    (LET b == output.final IN
    (b # 0 /\ b \notin touched /\ open_child_directory(b)) => bundle[b].names = BundleNames /\ \A n \in BundleNames : bundle[b].files[n].sealed /\ bundle[b].files[n].data \in Data)

(* A publication that reports its own error without a cleanup error leaves none of *)
(* its directories under either name, and none on disk.                            *)
FailureLeavesNothing == subject = "bundle" => (op.outcome = "failed" => op.own \notin {output.temp, output.final, collection_disk.final})

(* No step of the publisher removes or replaces a bundle it did not create.        *)
CollectionOthersKept ==
    [][subject = "bundlemoves" =>
       (changes' = changes /\ collection_kills' = collection_kills /\ output.final \notin {0, op.own} => output'.final = output.final)]_CollectionVars

-----------------------------------------------------------------------------
(***************************************************************************)
(* Where mason's emission writes its artefacts: a private directory beneath *)
(* the (empty) artefact root holds one file per artefact and one scratch    *)
(* file.  The files are written, sealed read-only, synchronized and hashed; *)
(* then each is renamed into the root without replacement, and the drained  *)
(* directory is removed.  A failure removes what the sink created; if the   *)
(* removal fails it is tried once more when the sink is dropped.            *)
(*                                                                         *)
(* Inode 0 is none, 1..Slots are the artefacts', 8 is the scratch file, 9   *)
(* is another's; directory 1 is the sink's.  A file has a time that an      *)
(* editor can restore (mt) and a counter that every change advances (ct),   *)
(* the rename included.  Any call may fail; another process may edit, remove*)
(* or replace what it finds.                                                *)
(***************************************************************************)
\* node: inode -> [data, mt, ct, mode, synced]
\* disk: [root, stage]: what the root holds on disk
\* shown: since the root was synchronized: was it exactly the artefacts, on disk

Indices == 1..Slots
Scratch == 8
Other == 9
Files == Indices \cup {Scratch, Other}
StageNames == Indices \cup {Scratch}

SinkWorld == <<dir, stage, node, collection_disk>>

NoWitness == [mt |-> 0, ct |-> 0]
EmptySlot == [made |-> FALSE, activated |-> FALSE, witness |-> NoWitness, sealed |-> FALSE, digest |-> "none", published |-> FALSE, cleaned |-> FALSE]
Emitted == "artefact"
SinkMayFail == collection_faults < MaxSinkFaults[subject] /\ collection_faults' = collection_faults + 1
SinkTo(step) == [sink EXCEPT !.step = step]
CollectionAt(step) == sink.step = step
\* The sink that does not exist yet has nothing to abort.
SinkFail == IF sink.active THEN [sink EXCEPT !.step = "abort", !.i = Slots, !.clean = TRUE] ELSE [sink EXCEPT !.step = "done", !.outcome = "failed"]
\* One pass over the slots, then the next step.
Loop(next) == IF sink.i < Slots THEN [sink EXCEPT !.i = @ + 1] ELSE [sink EXCEPT !.step = next, !.i = 1]
SinkExact(d, s, n, k) ==
    /\ s = 0 /\ k.stage # 1
    /\ \A i \in Indices : d.root[i] = i /\ k.root[i] = i /\ n[i].data = sealedAs[i] /\ n[i].synced
SinkWatch == collection_shown' = (collection_shown \/ (CollectionAt("confirm") /\ SinkExact(dir', stage', node', collection_disk')))
SinkCheck(condition, next) ==
    /\ \/ sink' = (IF condition THEN next ELSE SinkFail) /\ CollectionNoFault
       \/ SinkMayFail /\ sink' = SinkFail
    /\ UNCHANGED <<SinkWorld, slot, changes, sealedAs>> /\ SinkWatch
SinkLook(step, condition, next) == CollectionAt(step) /\ SinkCheck(condition, next)

-----------------------------------------------------------------------------
(* Checks. *)
SinkFileWitness(f) == [mt |-> f.mt, ct |-> f.ct]
unchanged_by_rename_from(witness1, previous) == witness1.mt = previous.mt
sink_require_inventory(d, expected) == {n \in DOMAIN d : d[n] # 0} = expected
require_stage_identity == stage = 1
require_stage_inventory(scratch) == sink_require_inventory(dir.stage, Indices \cup (IF scratch THEN {Scratch} ELSE {}))
require_scratch_identity == dir.stage[Scratch] = Scratch
Holder(i, published) == IF published THEN dir.root[i] ELSE dir.stage[i]
require_slot_identity(i, published) ==
    /\ Holder(i, published) = i
    /\ IF slot[i].sealed THEN SinkFileWitness(node[i]) = slot[i].witness /\ node[i].mode = 292 ELSE node[i].mode = 384
digest_descriptor(i) == node[i].data
require_slot_integrity(i, published) == require_slot_identity(i, published) /\ digest_descriptor(i) = slot[i].digest

-----------------------------------------------------------------------------
(* The private directory and its files. *)
new ==
    /\ CollectionAt("new")
    /\ \/ /\ sink_require_inventory(dir.root, {}) /\ stage = 0 /\ stage' = 1 /\ CollectionNoFault
          /\ sink' = [SinkTo("populate") EXCEPT !.active = TRUE]
       \/ (~sink_require_inventory(dir.root, {}) \/ stage # 0) /\ sink' = SinkFail /\ CollectionNoFault /\ UNCHANGED stage
       \/ SinkMayFail /\ sink' = SinkFail /\ UNCHANGED stage
       \* Made, but not opened: removed at once, or reported as left behind.
       \/ SinkMayFail /\ stage = 0 /\ stage' = 1 /\ sink' = [sink EXCEPT !.step = "done", !.outcome = "Rollback"]
    /\ UNCHANGED <<dir, node, collection_disk, slot, changes, sealedAs>> /\ SinkWatch
Created(i) == [dir EXCEPT !.stage[i] = i]
create_owned_file(i, made, next) ==
    /\ \/ /\ dir.stage[i] = 0 /\ dir' = Created(i) /\ slot' = made /\ sink' = next /\ CollectionNoFault
          /\ node' = [node EXCEPT ![i] = [data |-> "empty", mt |-> 0, ct |-> 0, mode |-> 384, synced |-> FALSE]]
       \/ dir.stage[i] # 0 /\ sink' = SinkFail /\ CollectionNoFault /\ UNCHANGED <<dir, slot, node>>
       \/ SinkMayFail /\ sink' = SinkFail /\ UNCHANGED <<dir, slot, node>>
       \* Made, and neither accepted nor removed.
       \/ SinkMayFail /\ dir.stage[i] = 0 /\ dir' = Created(i) /\ sink' = SinkFail /\ UNCHANGED <<slot, node>>
    /\ UNCHANGED <<stage, collection_disk, changes, sealedAs>> /\ SinkWatch
populate == CollectionAt("populate") /\ create_owned_file(sink.i, [slot EXCEPT ![sink.i].made = TRUE], Loop("scratch"))
populate_scratch == CollectionAt("scratch") /\ create_owned_file(Scratch, slot, [SinkTo("inventory") EXCEPT !.scratch = TRUE])
populate_inventory == SinkLook("inventory", sink_require_inventory(dir.root, {}) /\ require_stage_inventory(TRUE) /\ require_stage_identity, SinkTo("write"))

(* The emission: the writers are handed out in some order, each once. *)
Written(i) == [node EXCEPT ![i].data = Emitted, ![i].mt = @ + 1, ![i].ct = @ + 1]
package_writers(i) ==
    /\ CollectionAt("write") /\ ~slot[i].activated
    /\ slot' = [slot EXCEPT ![i].activated = TRUE]
    /\ \/ require_slot_identity(i, FALSE) /\ require_scratch_identity /\ node' = Written(i) /\ UNCHANGED sink /\ CollectionNoFault
       \/ ~(require_slot_identity(i, FALSE) /\ require_scratch_identity) /\ sink' = SinkFail /\ CollectionNoFault /\ UNCHANGED node
       \/ SinkMayFail /\ sink' = SinkFail /\ UNCHANGED node
    /\ UNCHANGED <<dir, stage, collection_disk, changes, sealedAs>> /\ SinkWatch
\* The emission ends: the inputs are verified once more, and the sink commits.
emission_ends == CollectionAt("write") /\ (\A i \in Indices : slot[i].activated) /\ SinkCheck(TRUE, SinkTo("commit"))

-----------------------------------------------------------------------------
(* The commit. *)
commit_collection == SinkLook("commit", require_stage_identity /\ sink_require_inventory(dir.root, {}) /\ require_stage_inventory(TRUE), SinkTo("seal"))
Sealed(i) == [node EXCEPT ![i].mode = 292, ![i].synced = TRUE, ![i].ct = @ + 1]
seal_slot ==
    /\ CollectionAt("seal")
    /\ LET i == sink.i IN
       \/ /\ slot[i].activated /\ require_slot_identity(i, FALSE)
          /\ node' = Sealed(i) /\ sink' = Loop("remove_scratch") /\ CollectionNoFault
          /\ slot' = [slot EXCEPT ![i].witness = [mt |-> node[i].mt, ct |-> node[i].ct + 1], ![i].digest = node[i].data, ![i].sealed = TRUE]
          /\ sealedAs' = [sealedAs EXCEPT ![i] = node[i].data]
       \/ ~require_slot_identity(i, FALSE) /\ sink' = SinkFail /\ CollectionNoFault /\ UNCHANGED <<node, slot, sealedAs>>
       \/ SinkMayFail /\ sink' = SinkFail /\ UNCHANGED <<node, slot, sealedAs>>
    /\ UNCHANGED <<dir, stage, collection_disk, changes>> /\ SinkWatch
remove_scratch ==
    /\ CollectionAt("remove_scratch")
    /\ \/ require_scratch_identity /\ dir' = [dir EXCEPT !.stage[Scratch] = 0] /\ sink' = [SinkTo("staged") EXCEPT !.scratch = FALSE] /\ CollectionNoFault
       \/ ~require_scratch_identity /\ sink' = SinkFail /\ CollectionNoFault /\ UNCHANGED dir
       \/ SinkMayFail /\ sink' = SinkFail /\ UNCHANGED dir
    /\ UNCHANGED <<stage, node, collection_disk, slot, changes, sealedAs>> /\ SinkWatch
sync_stage == SinkLook("staged", require_stage_inventory(FALSE) /\ require_stage_identity, SinkTo("publish"))
check_before_rename == SinkLook("publish", require_slot_integrity(sink.i, FALSE), SinkTo("rename"))
\* A rename moves whatever file holds the name.
Moved(i) == [dir EXCEPT !.root[i] = dir.stage[i], !.stage[i] = 0]
CollectionTouched(i) == [node EXCEPT ![dir.stage[i]].ct = @ + 1]
rename_noreplace_at ==
    /\ CollectionAt("rename")
    /\ LET i == sink.i IN
       \/ /\ dir.stage[i] # 0 /\ dir.root[i] = 0 /\ dir' = Moved(i) /\ node' = CollectionTouched(i)
          /\ slot' = [slot EXCEPT ![i].published = TRUE] /\ sink' = SinkTo("refresh") /\ CollectionNoFault
       \/ (dir.stage[i] = 0 \/ dir.root[i] # 0) /\ sink' = SinkFail /\ CollectionNoFault /\ UNCHANGED <<dir, node, slot>>
       \/ SinkMayFail /\ sink' = SinkFail /\ UNCHANGED <<dir, node, slot>>
    /\ UNCHANGED <<stage, collection_disk, changes, sealedAs>> /\ SinkWatch
refresh_published_witness ==
    /\ CollectionAt("refresh")
    /\ LET i == sink.i
           same == /\ dir.root[i] = i /\ node[i].mode = 292 /\ unchanged_by_rename_from(SinkFileWitness(node[i]), slot[i].witness)
                   /\ digest_descriptor(i) = slot[i].digest
       IN  \/ same /\ slot' = [slot EXCEPT ![i].witness = SinkFileWitness(node[i])] /\ sink' = SinkTo("published") /\ CollectionNoFault
           \/ ~same /\ sink' = SinkFail /\ CollectionNoFault /\ UNCHANGED slot
           \/ SinkMayFail /\ sink' = SinkFail /\ UNCHANGED slot
    /\ UNCHANGED <<SinkWorld, changes, sealedAs>> /\ SinkWatch
check_after_rename ==
    /\ CollectionAt("published")
    /\ SinkCheck(require_slot_integrity(sink.i, TRUE), IF sink.i < Slots THEN [sink EXCEPT !.step = "publish", !.i = @ + 1] ELSE [sink EXCEPT !.step = "drained", !.i = 1])
check_drained == SinkLook("drained", sink_require_inventory(dir.stage, {}), SinkTo("remove_stage"))
RemoveStage(next) ==
    \/ stage = 1 /\ sink_require_inventory(dir.stage, {}) /\ stage' = 0 /\ sink' = next /\ CollectionNoFault
    \/ ~(stage = 1 /\ sink_require_inventory(dir.stage, {})) /\ sink' = SinkFail /\ CollectionNoFault /\ UNCHANGED stage
    \/ SinkMayFail /\ sink' = SinkFail /\ UNCHANGED stage
remove_stage ==
    /\ CollectionAt("remove_stage") /\ RemoveStage([SinkTo("final") EXCEPT !.removed = TRUE])
    /\ UNCHANGED <<dir, node, collection_disk, slot, changes, sealedAs>> /\ SinkWatch
check_final == SinkLook("final", sink_require_inventory(dir.root, Indices) /\ stage = 0 /\ \A i \in Indices : require_slot_identity(i, TRUE), SinkTo("sync_root"))
sync_root ==
    /\ CollectionAt("sync_root")
    /\ \/ collection_disk' = [root |-> dir.root, stage |-> stage] /\ sink' = SinkTo("confirm") /\ CollectionNoFault
       \/ SinkMayFail /\ sink' = SinkFail /\ UNCHANGED collection_disk
    /\ UNCHANGED <<dir, stage, node, slot, changes, sealedAs>> /\ collection_shown' = SinkExact(dir, stage, node, collection_disk')
confirm ==
    SinkLook("confirm", sink_require_inventory(dir.root, Indices) /\ stage = 0 /\ \A i \in Indices : require_slot_integrity(i, TRUE),
         [SinkTo("done") EXCEPT !.active = FALSE, !.outcome = "committed"])

-----------------------------------------------------------------------------
(* The abort; every removal is tried, and what is removed is not tried again. *)
Note(ok, next) == sink' = [next EXCEPT !.clean = @ /\ ok]
Down(next) == IF sink.i > 1 THEN [sink EXCEPT !.i = @ - 1] ELSE [sink EXCEPT !.step = next, !.i = 1]
Removed(i) == IF slot[i].published THEN [dir EXCEPT !.root[i] = 0] ELSE [dir EXCEPT !.stage[i] = 0]
abort_slot ==
    /\ CollectionAt("abort")
    /\ LET i == sink.i IN
       \/ (~slot[i].made \/ slot[i].cleaned) /\ Note(TRUE, Down("abort_scratch")) /\ CollectionNoFault /\ UNCHANGED <<dir, slot>>
       \/ /\ slot[i].made /\ ~slot[i].cleaned /\ CollectionNoFault
          /\ IF Holder(i, slot[i].published) = i
             THEN dir' = Removed(i) /\ slot' = [slot EXCEPT ![i].cleaned = TRUE] /\ Note(TRUE, Down("abort_scratch"))
             ELSE Note(FALSE, Down("abort_scratch")) /\ UNCHANGED <<dir, slot>>
       \/ slot[i].made /\ ~slot[i].cleaned /\ SinkMayFail /\ Note(FALSE, Down("abort_scratch")) /\ UNCHANGED <<dir, slot>>
    /\ UNCHANGED <<stage, node, collection_disk, changes, sealedAs>> /\ SinkWatch
abort_scratch ==
    /\ CollectionAt("abort_scratch")
    /\ \/ ~sink.scratch /\ Note(TRUE, SinkTo("abort_stage")) /\ CollectionNoFault /\ UNCHANGED dir
       \/ sink.scratch /\ require_scratch_identity /\ dir' = [dir EXCEPT !.stage[Scratch] = 0] /\ Note(TRUE, [SinkTo("abort_stage") EXCEPT !.scratch = FALSE]) /\ CollectionNoFault
       \/ sink.scratch /\ ~require_scratch_identity /\ Note(FALSE, SinkTo("abort_stage")) /\ CollectionNoFault /\ UNCHANGED dir
       \/ sink.scratch /\ SinkMayFail /\ Note(FALSE, SinkTo("abort_stage")) /\ UNCHANGED dir
    /\ UNCHANGED <<stage, node, collection_disk, slot, changes, sealedAs>> /\ SinkWatch
abort_stage ==
    /\ CollectionAt("abort_stage")
    /\ \/ sink.removed /\ Note(TRUE, SinkTo("abort_sync")) /\ CollectionNoFault /\ UNCHANGED stage
       \/ /\ ~sink.removed /\ stage = 1 /\ sink_require_inventory(dir.stage, {}) /\ stage' = 0
          /\ Note(TRUE, [SinkTo("abort_sync") EXCEPT !.removed = TRUE]) /\ CollectionNoFault
       \/ ~sink.removed /\ ~(stage = 1 /\ sink_require_inventory(dir.stage, {})) /\ Note(FALSE, SinkTo("abort_sync")) /\ CollectionNoFault /\ UNCHANGED stage
       \/ ~sink.removed /\ SinkMayFail /\ Note(FALSE, SinkTo("abort_sync")) /\ UNCHANGED stage
    /\ UNCHANGED <<dir, node, collection_disk, slot, changes, sealedAs>> /\ SinkWatch
\* The abort that reported failures is run again by the drop; its result is not reported.
AbortEnds(ok) ==
    IF ok THEN [sink EXCEPT !.step = "done", !.active = FALSE, !.outcome = IF sink.tries = 0 THEN "failed" ELSE "Rollback"]
          ELSE IF sink.tries = 0 THEN [sink EXCEPT !.step = "abort", !.i = Slots, !.clean = TRUE, !.tries = 1]
                                 ELSE [sink EXCEPT !.step = "done", !.outcome = "Rollback"]
sink_abort_sync ==
    /\ CollectionAt("abort_sync")
    /\ \/ collection_disk' = [root |-> dir.root, stage |-> stage] /\ sink' = AbortEnds(sink.clean) /\ CollectionNoFault
       \/ SinkMayFail /\ sink' = AbortEnds(FALSE) /\ UNCHANGED collection_disk
    /\ UNCHANGED <<dir, stage, node, slot, changes, sealedAs>> /\ SinkWatch

-----------------------------------------------------------------------------
(* Others. *)
OutsideFile ==
    \/ \E i \in Files \ {Other}, restored \in BOOLEAN :
          /\ (\E n \in Indices : dir.root[n] = i) \/ (\E n \in StageNames : dir.stage[n] = i)
          /\ node' = [node EXCEPT ![i].data = "edited", ![i].mt = IF restored THEN @ ELSE @ + 1, ![i].ct = @ + 1]
          /\ UNCHANGED <<dir, stage>>
    \/ \E n \in Indices, to \in {0, Other} : dir.root[n] # to /\ dir' = [dir EXCEPT !.root[n] = to] /\ UNCHANGED <<node, stage>>
    \/ \E n \in StageNames, to \in {0, Other} : stage = 1 /\ dir.stage[n] # to /\ dir' = [dir EXCEPT !.stage[n] = to] /\ UNCHANGED <<node, stage>>
    \/ \E to \in {0, Other} : stage # to /\ stage' = to /\ UNCHANGED <<dir, node>>
SinkOutside ==
    /\ changes < MaxSinkOutside[subject] /\ changes' = changes + 1 /\ ~CollectionAt("done") /\ OutsideFile
    /\ UNCHANGED <<collection_disk, slot, sink, collection_faults, sealedAs>> /\ SinkWatch

SinkInit ==
    /\ dir = [root |-> [i \in Indices |-> 0], stage |-> [n \in StageNames |-> 0]] /\ stage = 0
    /\ node = [i \in Files |-> [data |-> "none", mt |-> 0, ct |-> 0, mode |-> 384, synced |-> FALSE]]
    /\ collection_disk = [root |-> dir.root, stage |-> 0]
    /\ slot = [i \in Indices |-> EmptySlot]
    /\ sink = [step |-> "new", i |-> 1, active |-> FALSE, scratch |-> FALSE, removed |-> FALSE, clean |-> TRUE, tries |-> 0, outcome |-> "none"]
    /\ changes = 0 /\ collection_faults = 0 /\ sealedAs = [i \in Indices |-> "none"] /\ collection_shown = FALSE
emit_frozen == new \/ populate \/ populate_scratch \/ populate_inventory \/ (\E i \in Indices : package_writers(i)) \/ emission_ends
commit_inner ==
    \/ commit_collection \/ seal_slot \/ remove_scratch \/ sync_stage \/ check_before_rename \/ rename_noreplace_at \/ refresh_published_witness
    \/ check_after_rename \/ check_drained \/ remove_stage \/ check_final \/ sync_root \/ confirm
abort == abort_slot \/ abort_scratch \/ abort_stage \/ sink_abort_sync
SinkNext == emit_frozen \/ commit_inner \/ abort \/ SinkOutside

-----------------------------------------------------------------------------
(* The state has its types; a slot is published only when it is sealed, and cleaned *)
(* only when it was made.                                                           *)
SinkTypeOK ==
    /\ stage \in {0, 1, Other} /\ sink.outcome \in {"none", "committed", "failed", "Rollback"}
    /\ \A i \in Indices : dir.root[i] \in Files \cup {0} /\ (slot[i].published => slot[i].sealed) /\ (slot[i].cleaned => slot[i].made)

(* A commit that succeeds left, at a moment after the root was synchronized, a root *)
(* that is exactly the artefacts as they were sealed, on disk, with no private      *)
(* directory.                                                                       *)
CommittedWasExact == subject = "sinkmoves" => (sink.outcome = "committed" => collection_shown)

(* A failure reported without a cleanup error leaves nothing the sink made: no      *)
(* artefact and no private directory, in the root or on disk.                       *)
SinkFailureLeavesNothing == subject = "sink" =>
    ((sink.outcome = "failed" /\ changes = 0) => stage = 0 /\ collection_disk.stage = 0 /\ \A i \in Indices : dir.root[i] = 0 /\ collection_disk.root[i] = 0)

(* No step of the sink, its second abort included, takes away or replaces what      *)
(* another process put under a name.                                                *)
SinkOthersKept ==
    [][subject = "sink" =>
       (changes' = changes =>
         /\ \A i \in Indices : dir.root[i] = Other => dir'.root[i] = Other
         /\ stage = Other => stage' = Other)]_CollectionVars

-----------------------------------------------------------------------------
(* A behaviour exercises one part, chosen at the start; the variables of the
   other parts are not in use. *)
CollectionInit ==
    /\ subject \in Subjects
    /\ \/ subject \in {"replacement", "replacementmoves"} /\ ReplacementInit /\ collection_shown = None
          /\ root = None /\ collection_tree = None /\ first = None /\ before = None /\ staged = None /\ reference = None /\ bundle = None /\ output = None
          /\ attempts = None /\ collection_kills = None /\ touched = None /\ dir = None /\ stage = None /\ slot = None /\ sink = None /\ sealedAs = None
       \/ subject \in {"collected", "collectedmoves"} /\ CollectedInit
          /\ name = None /\ node = None /\ parent = None /\ collection_disk = None /\ collection_shown = None /\ staged = None /\ reference = None /\ bundle = None
          /\ output = None /\ attempts = None /\ collection_kills = None /\ touched = None /\ dir = None /\ stage = None /\ slot = None /\ sink = None
          /\ sealedAs = None
       \/ subject \in {"bundle", "bundlemoves"} /\ BundleInit
          /\ name = None /\ node = None /\ parent = None /\ witness = None /\ collection_ops = None /\ root = None /\ collection_tree = None /\ first = None
          /\ before = None /\ dir = None /\ stage = None /\ slot = None /\ sink = None /\ sealedAs = None
       \/ subject \in {"sink", "sinkmoves"} /\ SinkInit
          /\ name = None /\ parent = None /\ witness = None /\ op = None /\ collection_ops = None /\ root = None /\ collection_tree = None /\ first = None
          /\ before = None /\ staged = None /\ reference = None /\ bundle = None /\ output = None /\ attempts = None /\ collection_kills = None /\ touched = None

ReplacementOnly == subject \in {"replacement", "replacementmoves"} /\ UNCHANGED <<subject, collection_shown, root, collection_tree, first,
                                                                                  before, staged, reference,
                                                                                  bundle, output, attempts, collection_kills,
                                                                                  touched, dir, stage, slot, sink,
                                                                                  sealedAs>>
CollectedOnly == subject \in {"collected", "collectedmoves"} /\ UNCHANGED <<subject, name, node, parent, collection_disk,
                                                                            collection_shown, staged, reference, bundle,
                                                                            output, attempts, collection_kills, touched, dir,
                                                                            stage, slot, sink, sealedAs>>
BundleOnly == subject \in {"bundle", "bundlemoves"} /\ UNCHANGED <<subject, name, node, parent, witness, collection_ops, root,
                                                                   collection_tree, first, before, dir, stage, slot, sink,
                                                                   sealedAs>>
SinkOnly == subject \in {"sink", "sinkmoves"} /\ UNCHANGED <<subject, name, parent, witness, op, collection_ops, root, collection_tree,
                                                             first, before, staged, reference, bundle, output,
                                                             attempts, collection_kills, touched>>
CollectionNext ==
    \/ ReplacementOnly /\ ReplacementNext
    \/ CollectedOnly /\ CollectedNext
    \/ BundleOnly /\ BundleNext
    \/ SinkOnly /\ SinkNext

CollectionTypeOK ==
    /\ subject \in {"replacement", "replacementmoves"} => ReplacementTypeOK
    /\ subject \in {"collected", "collectedmoves"} => CollectedTypeOK
    /\ subject \in {"bundle", "bundlemoves"} => BundleTypeOK
    /\ subject \in {"sink", "sinkmoves"} => SinkTypeOK

-----------------------------------------------------------------------------
(* The instance that TLC checks. *)
ReplacementMaxOps == [replacement |-> 2, replacementmoves |-> 1]
ReplacementMaxOutside == [replacement |-> 1, replacementmoves |-> 4]
ReplacementMaxFaults == [replacement |-> 2, replacementmoves |-> 1]

CollectedMaxOps == [collected |-> 4, collectedmoves |-> 3]
CollectedMaxOutside == [collected |-> 1, collectedmoves |-> 2]
CollectedMaxFaults == [collected |-> 1, collectedmoves |-> 0]
CollectedTouch == [collected |-> {"f", "d", "x", "z", "n", "g"}, collectedmoves |-> {"f", "d", "x", "z"}]

BundleMaxAttempts == [bundle |-> 2, bundlemoves |-> 1]
BundleMaxOutside == [bundle |-> 0, bundlemoves |-> 3]
BundleMaxKills == [bundle |-> 1, bundlemoves |-> 0]
BundleMaxFaults == [bundle |-> 1, bundlemoves |-> 0]

SinkMaxOutside == [sink |-> 1, sinkmoves |-> 2]
SinkMaxFaults == [sink |-> 2, sinkmoves |-> 0]
=============================================================================
