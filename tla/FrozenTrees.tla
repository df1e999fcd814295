---------------------------- MODULE FrozenTrees -----------------------------
(***************************************************************************)
(* Frozen trees for builds: the plan of a tree from the layouts of its      *)
(* packages, the tree built from it, the root published from a tree, and    *)
(* the target a plan is filled into.                                        *)
(***************************************************************************)
EXTENDS Parts, Integers, FiniteSets, Sequences, TLC

CONSTANTS
    Procs,
    MaxRoots,            \* bounds the roots made
    FrozenMaxFaults,     \* bounds the calls that fail and the deadlines that expire
    FrozenMaxOutside,    \* bounds the changes by others
    MaxCrashes,          \* bounds kills and power failures
    Closed,              \* the entries whose declared mode does not let the owner read
    MaxTreeOutside,      \* bounds the changes by others
    FrozenRebindable,    \* the names others may bind to another inode
    Mutable,             \* the inodes others may write to or chmod
    FrozenFiles,         \* the files of the tree
    MaxTargetOutside,
    Executions,          \* "Parallel", "Sequential"
    Touch,               \* what others may change
    Rows,                \* the rows a package may have
    MaxRows,             \* bounds the number of rows
    Modes,               \* "frozen", "stateful"
    MaxInodes  \* the inode limit of the declaration

VARIABLES
    lock,        \* the process that holds the lock on the parent, or None
    dest,        \* the root at the destination name
    destDisk,
    parent,      \* FALSE once the parent's own path names another directory
    made,        \* root -> by whom
    tree,        \* root -> what it holds
    frozen_synced,  \* the roots whose contents are on disk
    widened,     \* the roots whose mode was widened for a rename
    gone,        \* the roots something was deleted from
    p,           \* process -> its operation
    frozen_spent,
    inode,       \* inode -> what it is
    frozen_changes,  \* changes by others
    exact,       \* path -> was it as declared at the last listing of its directory
    parentAt,    \* what the parent's path names: 1 is the retained one
    name,        \* the directory named as the target in the parent
    dir,         \* directory -> mode, usr, other content
    pool,        \* what the pool's path names: 1 is the retained one
    asset,       \* file -> inode, content and change counter of its asset
    frozen_file, \* file -> inode, content and mode in the tree's usr
    worker,      \* file -> step and the asset's witness
    frozen_faults,
    named,       \* was the target at its name at some moment of the final proof
    rows,        \* the rows, in the order the database returns them
    nodes,       \* the arena: path, row and parent of every node, 0 when detached
    map  \* path -> node

FrozenVars == <<subject, lock, dest, destDisk, parent, made, tree, frozen_synced, widened, gone, p, frozen_spent, inode, op,
                frozen_changes, exact, parentAt, name, dir, pool, asset, frozen_file, worker, frozen_faults, named, rows, nodes, map>>

-----------------------------------------------------------------------------
(***************************************************************************)
(* A frozen root is a read-only tree built in a private sibling directory   *)
(* and published at one destination name, and discarded by moving it into   *)
(* another private directory before it is deleted.  Several processes work  *)
(* on one destination; an advisory lock on the parent serializes them, but  *)
(* not the others, who may put something at the name or take it away        *)
(* between any two steps.                                                  *)
(*                                                                         *)
(* A root is a number, 0 is an absent name.  destDisk holds the values the  *)
(* destination may have after a power failure: all it had since its parent  *)
(* was last synced.  A rename is one step on disk.                          *)
(***************************************************************************)

Roots == 1..MaxRoots
FrozenSteps == {"idle", "lock", "plan", "pin", "mkdir", "private", "unmkdir", "build", "blit", "check", "sync", "recheck", "rename",
                "reconcile", "settle", "confirm", "publish_end", "returned", "widen", "restore", "delete", "rmdir", "discard_stage", "unmake",
                "cleanup_quarantine"}
FrozenOutcomes == {"none", "ok", "error", "replaced", "restore_failed", "cleanup_failed", "quarantined"}
FrozenIdle == [op |-> "none", step |-> "idle", id |-> 0, was |-> FALSE, dir |-> "none", inside |-> 0, retained |-> FALSE,
               outcome |-> "none", then |-> "none"]

RootTypeOK ==
    /\ lock \in Procs \union {None}
    /\ dest \in 0..MaxRoots /\ destDisk \subseteq 0..MaxRoots /\ dest \in destDisk
    /\ parent \in BOOLEAN
    /\ made \in [Roots -> {"none", "forge", "self", "other"}]
    /\ tree \in [Roots -> {"none", "partial", "sealed"}]
    /\ frozen_synced \subseteq Roots /\ widened \subseteq Roots /\ gone \subseteq Roots
    /\ p \in [Procs -> [op: {"none", "materialize", "discard"}, step: FrozenSteps, id: 0..MaxRoots, was: BOOLEAN, dir: {"none", "named", "moved"},
                        inside: 0..MaxRoots, retained: BOOLEAN, outcome: FrozenOutcomes, then: FrozenOutcomes]]
    /\ \A q \in Procs : p[q].step \in {"idle", "lock", "returned"} \/ lock = q
    /\ frozen_spent \in [faults: 0..FrozenMaxFaults, outside: 0..FrozenMaxOutside, crashes: 0..MaxCrashes]

RootInit ==
    /\ lock = None /\ dest = 0 /\ destDisk = {0} /\ parent = TRUE
    /\ made = [r \in Roots |-> "none"] /\ tree = [r \in Roots |-> "none"]
    /\ frozen_synced = {} /\ widened = {} /\ gone = {}
    /\ p = [q \in Procs |-> FrozenIdle]
    /\ frozen_spent = [faults |-> 0, outside |-> 0, crashes |-> 0]

Fresh == {r \in Roots : made[r] = "none"}
FrozenFault == frozen_spent.faults < FrozenMaxFaults /\ frozen_spent' = [frozen_spent EXCEPT !.faults = @ + 1]
FrozenNoFault == UNCHANGED frozen_spent
FrozenAt(q, step) == p[q].step = step
FrozenGoto(q, step) == p' = [p EXCEPT ![q].step = step]
Volume == <<dest, destDisk, parent>>
Trees == <<made, tree, frozen_synced, widened, gone>>
(* Dropping the lock is part of returning. *)
FrozenReturn(q, outcome, dir1) ==
    /\ p' = [p EXCEPT ![q] = [FrozenIdle EXCEPT !.step = "returned", !.outcome = outcome, !.dir = dir1]]
    /\ lock' = IF lock = q THEN None ELSE lock

-----------------------------------------------------------------------------
Begin(q, op1) ==
    /\ FrozenAt(q, "idle") \/ FrozenAt(q, "returned")
    /\ \/ /\ op1 = "discard"
          /\ p' = [p EXCEPT ![q] = [FrozenIdle EXCEPT !.op = op1, !.step = "lock"]]
          /\ UNCHANGED made
       \/ \E r \in Fresh :   \* the root it will make
            /\ op1 = "materialize"
            /\ p' = [p EXCEPT ![q] = [FrozenIdle EXCEPT !.op = op1, !.step = "lock", !.id = r]]
            /\ made' = [made EXCEPT ![r] = "forge"]
    /\ UNCHANGED <<lock, Volume, tree, frozen_synced, widened, gone, frozen_spent>>

lock_frozen_destination_until(q) ==
    /\ FrozenAt(q, "lock")
    /\ UNCHANGED <<Volume, Trees>>
    /\ \/ (FrozenFault \/ (~parent /\ FrozenNoFault)) /\ FrozenReturn(q, "error", "none")
       \/ /\ lock = None /\ parent
          /\ lock' = q
          /\ FrozenGoto(q, IF p[q].op = "materialize" THEN "plan" ELSE "pin")
          /\ FrozenNoFault
(* The lock is polled until the deadline. *)
Timeout(q) ==
    /\ FrozenAt(q, "lock") /\ lock # None
    /\ FrozenReturn(q, "error", p[q].dir)
    /\ UNCHANGED <<Volume, Trees, frozen_spent>>

(* The closure, its layouts, its collisions and its copies are settled before anything is made. *)
blit_frozen_root(q) ==
    /\ FrozenAt(q, "plan")
    /\ UNCHANGED <<Volume, Trees>>
    /\ \/ (FrozenFault \/ (dest # 0 /\ FrozenNoFault)) /\ FrozenReturn(q, "error", p[q].dir)
       \/ dest = 0 /\ FrozenNoFault /\ FrozenGoto(q, "mkdir") /\ UNCHANGED lock

discard_frozen_root_destination_with(q) ==
    /\ FrozenAt(q, "pin")
    /\ UNCHANGED <<Volume, Trees>>
    /\ \/ FrozenFault /\ FrozenReturn(q, "error", p[q].dir)
       \/ FrozenNoFault /\ dest = 0 /\ FrozenReturn(q, "ok", p[q].dir)
       \/ FrozenNoFault /\ dest # 0 /\ made[dest] = "other" /\ FrozenReturn(q, "error", p[q].dir)
       \/ /\ FrozenNoFault /\ dest # 0 /\ made[dest] # "other"
          /\ p' = [p EXCEPT ![q] = [@ EXCEPT !.step = "mkdir", !.id = dest, !.was = dest \in widened]]
          /\ UNCHANGED lock

(* The private directory has a random name and mode 0700; one that cannot be
   finished is removed again. *)
create_frozen_private_directory_with(q) ==
    /\ FrozenAt(q, "mkdir")
    /\ UNCHANGED <<Volume, Trees>>
    /\ \/ FrozenFault /\ FrozenReturn(q, "error", p[q].dir)
       \/ FrozenNoFault /\ p' = [p EXCEPT ![q] = [@ EXCEPT !.step = "private", !.dir = "named"]] /\ UNCHANGED lock

finish_frozen_private_directory(q) ==
    /\ FrozenAt(q, "private")
    /\ UNCHANGED <<lock, Volume, Trees>>
    /\ \/ FrozenFault /\ FrozenGoto(q, "unmkdir")
       \/ FrozenNoFault /\ p[q].dir = "moved" /\ FrozenGoto(q, "unmkdir")
       \/ FrozenNoFault /\ p[q].dir = "named" /\ FrozenGoto(q, IF p[q].op = "materialize" THEN "build" ELSE "check")

cleanup_provisional_frozen_private_directory(q) ==
    /\ FrozenAt(q, "unmkdir")
    /\ UNCHANGED <<Volume, Trees>>
    /\ \/ FrozenFault /\ FrozenReturn(q, "cleanup_failed", p[q].dir)
       \/ FrozenNoFault /\ FrozenReturn(q, "error", IF p[q].dir = "named" THEN "none" ELSE "moved")

-----------------------------------------------------------------------------
(* What the retained descriptors say of the names. *)
require_frozen_destination_parent == parent
require_frozen_private_directory_named(q) == p[q].dir = "named"
require_frozen_private_directory_entries(q, root) == (p[q].inside # 0) = (root # 0)
\* Mutant: the identity leaves out the inode.
FrozenRootIdentity_any_inode(found, q) == made[found] # "other"
FrozenRootIdentity(found, q) == found = p[q].id
frozen_publication_name_state(found, q) ==
    CASE found = 0 -> "Absent" [] found # 0 /\ FrozenRootIdentity(found, q) -> "Expected" [] OTHER -> "Foreign"
(* A mode that others read as part of the identity. *)
Identity(q) == (p[q].id \in widened) = p[q].was

(* An empty root inside the stage, retained by a descriptor. *)
Build(q) ==
    /\ FrozenAt(q, "build")
    /\ UNCHANGED <<lock, Volume, made, frozen_synced, widened, gone>>
    /\ \/ FrozenFault /\ FrozenGoto(q, "discard_stage") /\ UNCHANGED tree
       \/ \E kept \in BOOLEAN :
            /\ tree' = [tree EXCEPT ![p[q].id] = "partial"]
            /\ p' = [p EXCEPT ![q] = [@ EXCEPT !.step = IF kept THEN "blit" ELSE "discard_stage", !.inside = p[q].id, !.retained = kept]]
            /\ IF kept THEN FrozenNoFault ELSE FrozenFault

(* The tree is copied, linked, normalized and sealed, as one step (the subject "tree" takes it apart). *)
normalize_frozen_tree(q) ==
    /\ FrozenAt(q, "blit")
    /\ UNCHANGED <<lock, Volume, made, frozen_synced, widened, gone>>
    /\ \/ FrozenFault /\ FrozenGoto(q, "discard_stage") /\ UNCHANGED tree
       \/ FrozenNoFault /\ FrozenGoto(q, "check") /\ tree' = [tree EXCEPT ![p[q].id] = "sealed"]

(* Every name, before and after what is written is synced. *)
Source(q) == IF p[q].op = "materialize" THEN p[q].inside ELSE dest
Target(q) == IF p[q].op = "materialize" THEN dest ELSE p[q].inside
NamesAreExact(q) ==
    /\ require_frozen_destination_parent /\ require_frozen_private_directory_named(q)
    /\ require_frozen_private_directory_entries(q, IF p[q].op = "materialize" THEN p[q].id ELSE 0)
    /\ frozen_publication_name_state(Source(q), q) = "Expected" /\ Identity(q)
    /\ frozen_publication_name_state(Target(q), q) = "Absent"
AfterFailure(q) == IF p[q].op = "materialize" THEN "discard_stage" ELSE "cleanup_quarantine"

Check(q, step, next) ==
    /\ FrozenAt(q, step)
    /\ UNCHANGED <<lock, Volume, Trees>>
    /\ \/ FrozenFault /\ FrozenGoto(q, AfterFailure(q))
       \/ FrozenNoFault /\ FrozenGoto(q, IF NamesAreExact(q) THEN next ELSE AfterFailure(q))

sync_frozen_publication_file(q) ==
    /\ FrozenAt(q, "sync")
    /\ \/ FrozenFault /\ FrozenGoto(q, AfterFailure(q)) /\ UNCHANGED <<destDisk, frozen_synced>>
       \/ FrozenNoFault /\ FrozenGoto(q, "recheck") /\ destDisk' = {dest} /\ frozen_synced' = frozen_synced \union {p[q].id}
    /\ UNCHANGED <<lock, dest, parent, made, tree, widened, gone>>

(* Owner access for the rename, through the descriptor: what it reads
   afterwards decides, not what the call said. *)
prepare_frozen_discard_root_mode(q) ==
    /\ FrozenAt(q, "widen")
    /\ UNCHANGED <<lock, Volume, made, tree, frozen_synced, gone>>
    /\ \/ FrozenFault /\ FrozenGoto(q, "restore") /\ widened' \in {widened, widened \union {p[q].id}}
       \/ /\ FrozenNoFault /\ widened' = widened \union {p[q].id}
          /\ FrozenGoto(q, IF frozen_publication_name_state(dest, q) = "Expected" THEN "rename" ELSE "restore")

(* renameat2 with RENAME_NOREPLACE: it may report an error it did not have. *)
Move(q) ==
    IF p[q].op = "materialize"
    THEN dest' = p[q].inside /\ destDisk' = destDisk \union {p[q].inside} /\ p' = [p EXCEPT ![q] = [@ EXCEPT !.step = "reconcile", !.inside = 0]]
    ELSE dest' = 0 /\ destDisk' = destDisk \union {0} /\ p' = [p EXCEPT ![q] = [@ EXCEPT !.step = "reconcile", !.inside = dest]]
renameat2_noreplace_until(q) ==
    /\ FrozenAt(q, "rename")
    /\ UNCHANGED <<lock, parent, Trees>>
    /\ \/ FrozenFault /\ Target(q) = 0 /\ Source(q) # 0 /\ Move(q)
       \/ FrozenNoFault /\ Target(q) = 0 /\ Source(q) # 0 /\ Move(q)
       \/ /\ FrozenFault \/ ((Target(q) # 0 \/ Source(q) = 0) /\ FrozenNoFault)
          /\ FrozenGoto(q, "reconcile") /\ UNCHANGED <<dest, destDisk>>

(* Both names, whatever the call said. *)
Reconcile(q) ==
    /\ FrozenAt(q, "reconcile")
    /\ UNCHANGED <<lock, Volume, Trees>>
    /\ \/ FrozenFault /\ FrozenGoto(q, IF p[q].op = "materialize" THEN "discard_stage" ELSE "restore")
       \/ /\ FrozenNoFault
          /\ FrozenGoto(q, IF frozen_publication_name_state(Source(q), q) = "Absent" /\ frozen_publication_name_state(Target(q), q) = "Expected"
                           THEN "settle" ELSE IF p[q].op = "materialize" THEN "discard_stage" ELSE "restore")

Settle(q) ==
    /\ FrozenAt(q, "settle")
    /\ UNCHANGED <<lock, dest, parent, Trees>>
    /\ \/ FrozenFault /\ FrozenGoto(q, IF p[q].op = "materialize" THEN "discard_stage" ELSE "restore") /\ UNCHANGED destDisk
       \/ FrozenNoFault /\ FrozenGoto(q, "confirm") /\ destDisk' = {dest}

Confirm(q) ==
    /\ FrozenAt(q, "confirm")
    /\ UNCHANGED <<lock, Volume, Trees>>
    /\ \/ FrozenFault /\ FrozenGoto(q, IF p[q].op = "materialize" THEN "discard_stage" ELSE "restore")
       \/ /\ FrozenNoFault
          /\ LET exact1 == /\ require_frozen_destination_parent /\ require_frozen_private_directory_named(q)
                          /\ require_frozen_private_directory_entries(q, IF p[q].op = "materialize" THEN 0 ELSE p[q].id)
                          /\ frozen_publication_name_state(Source(q), q) = "Absent"
                          /\ frozen_publication_name_state(Target(q), q) = "Expected"
             IN FrozenGoto(q, CASE exact1 /\ p[q].op = "materialize" -> "publish_end"
                                [] exact1 /\ p[q].op = "discard" -> "delete"
                                [] ~exact1 /\ p[q].op = "materialize" -> "discard_stage"
                                [] OTHER -> "restore")

(* The empty wrapper goes, or stays without a word; the root must still be named. *)
PublishEnd(q) ==
    /\ FrozenAt(q, "publish_end")
    /\ UNCHANGED <<Volume, Trees>>
    /\ LET outcome == IF parent /\ dest = p[q].id THEN "ok" ELSE "replaced"
       IN \/ FrozenNoFault /\ parent /\ p[q].dir = "named" /\ FrozenReturn(q, outcome, "none")
          \/ (FrozenFault \/ (~(parent /\ p[q].dir = "named") /\ FrozenNoFault)) /\ FrozenReturn(q, outcome, p[q].dir)

-----------------------------------------------------------------------------
(* A failed stage is deleted through its descriptor, if it is still there. *)
discard_retained_frozen_stage(q) ==
    /\ FrozenAt(q, "discard_stage")
    /\ UNCHANGED <<Volume, made, frozen_synced, widened>>
    /\ LET exact1 == /\ require_frozen_destination_parent /\ require_frozen_private_directory_named(q)
                    /\ IF p[q].retained THEN require_frozen_private_directory_entries(q, p[q].id) /\ FrozenRootIdentity(p[q].inside, q)
                                        ELSE require_frozen_private_directory_entries(q, 0)
       IN \/ /\ FrozenFault \/ (~exact1 /\ FrozenNoFault)
             /\ \/ UNCHANGED <<tree, gone>>
                \/ /\ exact1 /\ p[q].retained
                   /\ tree' = [tree EXCEPT ![p[q].id] = "partial"] /\ gone' = gone \union {p[q].id}
             /\ FrozenReturn(q, "cleanup_failed", p[q].dir)
          \/ /\ exact1 /\ FrozenNoFault
             /\ IF p[q].retained
                THEN tree' = [tree EXCEPT ![p[q].id] = "none"] /\ gone' = gone \union {p[q].id}
                ELSE UNCHANGED <<tree, gone>>
             /\ p' = [p EXCEPT ![q] = [@ EXCEPT !.step = "unmake", !.inside = 0, !.then = "error"]]
             /\ UNCHANGED lock

(* A name that is absent after the call is success, whatever the call said. *)
remove_empty_frozen_private_directory(q) ==
    /\ FrozenAt(q, "unmake")
    /\ UNCHANGED <<Volume, Trees>>
    /\ LET exact1 == require_frozen_destination_parent /\ require_frozen_private_directory_named(q) /\ require_frozen_private_directory_entries(q, 0)
       IN \/ (FrozenFault \/ (~exact1 /\ FrozenNoFault)) /\ FrozenReturn(q, IF p[q].then = "ok" THEN "quarantined" ELSE "cleanup_failed", p[q].dir)
          \/ exact1 /\ FrozenNoFault /\ FrozenReturn(q, p[q].then, "none")

(* Every failed detach restores the mode the root had, wherever the root is. *)
restore_frozen_discard_root_mode(q) ==
    /\ FrozenAt(q, "restore")
    /\ UNCHANGED <<lock, Volume, made, tree, frozen_synced, gone>>
    /\ \/ /\ FrozenFault /\ widened' \in {widened, widened \ {p[q].id}}
          /\ p' = [p EXCEPT ![q] = [@ EXCEPT !.step = "cleanup_quarantine", !.then = "restore_failed"]]
       \/ /\ FrozenNoFault /\ widened' = IF p[q].was THEN widened ELSE widened \ {p[q].id}
          /\ p' = [p EXCEPT ![q] = [@ EXCEPT !.step = "cleanup_quarantine", !.then = "error"]]

CleanupQuarantine(q) ==
    /\ FrozenAt(q, "cleanup_quarantine")
    /\ UNCHANGED <<Volume, Trees>>
    /\ \/ (FrozenFault \/ (p[q].inside # 0 /\ FrozenNoFault)) /\ FrozenReturn(q, "cleanup_failed", p[q].dir)
       \/ /\ p[q].inside = 0 /\ FrozenNoFault
          /\ p' = [p EXCEPT ![q] = [@ EXCEPT !.step = "unmake", !.then = IF @ = "none" THEN "error" ELSE @]]
          /\ UNCHANGED lock

(* The detached root is walked and deleted; a failure keeps the quarantine. *)
discard_frozen_directory(q) ==
    /\ FrozenAt(q, "delete")
    /\ UNCHANGED <<Volume, made, frozen_synced, widened>>
    /\ \/ /\ FrozenFault \/ (~FrozenRootIdentity(p[q].inside, q) /\ FrozenNoFault)
          /\ FrozenReturn(q, "quarantined", p[q].dir)
          /\ \/ UNCHANGED <<tree, gone>>
             \/ /\ FrozenRootIdentity(p[q].inside, q)
                /\ tree' = [tree EXCEPT ![p[q].inside] = "partial"] /\ gone' = gone \union {p[q].inside}
       \/ /\ FrozenNoFault /\ FrozenRootIdentity(p[q].inside, q) /\ FrozenGoto(q, "rmdir") /\ UNCHANGED lock
          /\ tree' = [tree EXCEPT ![p[q].inside] = "partial"] /\ gone' = gone \union {p[q].inside}

unlink_frozen_discard_entry_with(q) ==
    /\ FrozenAt(q, "rmdir")
    /\ UNCHANGED <<Volume, made, frozen_synced, widened, gone>>
    /\ \/ FrozenFault /\ FrozenReturn(q, "quarantined", p[q].dir) /\ UNCHANGED tree
       \/ /\ FrozenNoFault /\ UNCHANGED lock
          /\ tree' = [tree EXCEPT ![p[q].inside] = "none"]
          /\ p' = [p EXCEPT ![q] = [@ EXCEPT !.step = "unmake", !.inside = 0, !.then = "ok"]]

-----------------------------------------------------------------------------
(* Others change the destination name, move the parent or a private directory. *)
FrozenOutside ==
    /\ frozen_spent.outside < FrozenMaxOutside
    /\ frozen_spent' = [frozen_spent EXCEPT !.outside = @ + 1]
    /\ UNCHANGED <<lock, frozen_synced, widened, gone>>
    /\ \/ /\ dest # 0
          /\ dest' = 0 /\ destDisk' = destDisk \union {0} /\ UNCHANGED <<parent, made, tree, p>>
       \/ \E r \in Fresh, who \in {"self", "other"} :
            /\ made' = [made EXCEPT ![r] = who] /\ tree' = [tree EXCEPT ![r] = "sealed"]
            /\ dest' = r /\ destDisk' = destDisk \union {r} /\ UNCHANGED <<parent, p>>
       \/ parent /\ parent' = FALSE /\ UNCHANGED <<dest, destDisk, made, tree, p>>
       \/ \E q \in Procs :
            /\ p[q].dir = "named" /\ p[q].step \notin {"idle", "returned"}
            /\ p' = [p EXCEPT ![q].dir = "moved"] /\ UNCHANGED <<dest, destDisk, parent, made, tree>>

FrozenKill(q) ==
    /\ p[q].step \notin {"idle", "returned"}
    /\ frozen_spent.crashes < MaxCrashes /\ frozen_spent' = [frozen_spent EXCEPT !.crashes = @ + 1]
    /\ p' = [p EXCEPT ![q] = FrozenIdle]
    /\ lock' = IF lock = q THEN None ELSE lock
    /\ UNCHANGED <<Volume, Trees>>
FrozenPowerLoss ==
    /\ frozen_spent.crashes < MaxCrashes /\ frozen_spent' = [frozen_spent EXCEPT !.crashes = @ + 1]
    /\ p' = [q \in Procs |-> FrozenIdle] /\ lock' = None
    /\ \E d \in destDisk : dest' = d /\ destDisk' = {d}
    /\ UNCHANGED <<parent, Trees>>

Work(q) ==
    \/ lock_frozen_destination_until(q) \/ blit_frozen_root(q) \/ discard_frozen_root_destination_with(q)
    \/ create_frozen_private_directory_with(q) \/ finish_frozen_private_directory(q) \/ cleanup_provisional_frozen_private_directory(q)
    \/ Build(q) \/ normalize_frozen_tree(q) \/ Check(q, "check", "sync") \/ sync_frozen_publication_file(q)
    \/ Check(q, "recheck", IF p[q].op = "materialize" THEN "rename" ELSE "widen") \/ prepare_frozen_discard_root_mode(q)
    \/ renameat2_noreplace_until(q) \/ Reconcile(q) \/ Settle(q) \/ Confirm(q) \/ PublishEnd(q)
    \/ discard_retained_frozen_stage(q) \/ remove_empty_frozen_private_directory(q) \/ restore_frozen_discard_root_mode(q)
    \/ CleanupQuarantine(q) \/ discard_frozen_directory(q) \/ unlink_frozen_discard_entry_with(q)

RootNext ==
    \/ \E q \in Procs : Begin(q, "materialize") \/ Begin(q, "discard") \/ Work(q) \/ Timeout(q) \/ FrozenKill(q)
    \/ FrozenOutside \/ FrozenPowerLoss

-----------------------------------------------------------------------------
(* A root of forge's that is at the destination, now or after a power failure,
   is complete and its contents are on disk: publish_frozen_root syncs the
   contents before the rename, and discard_frozen_root_destination_with deletes
   only after the absence of the name is on disk. *)
PublishedIsSealed == subject = "root" =>
    (\A r \in destDisk \ {0} : made[r] = "forge" => tree[r] = "sealed" /\ r \in frozen_synced)

(* Nothing is deleted from what others put at the name after the discard chose
   its root: detach_frozen_root_with moves it aside by mistake at worst. *)
OnlyChosenIsDeleted ==
    [][subject = "root" =>
       (\A r \in gone' \ gone : \E q \in Procs : p[q].id = r /\ lock = q)]_FrozenVars

(* An operation that returns its own error, and not the failure of a cleanup or
   of the restored mode, leaves no private directory of its own that still has
   its name, no root of its own at the destination and no mode it widened
   (blit_frozen_root, discard_frozen_root_destination_with). *)
ErrorIsClean ==
    [][subject = "root" =>
       (\A q \in Procs : p[q].outcome # "error" /\ p'[q].outcome = "error" =>
          /\ p'[q].dir # "named"
          /\ p[q].op = "materialize" => dest' # p[q].id
          /\ p[q].op = "discard" => p[q].was \/ p[q].id \notin widened')]_FrozenVars

(* The step that returns success leaves a result no power failure undoes: the
   root of a materialization is the only thing the name can hold, and the root
   of a discard is at no name. *)
SuccessIsDurable ==
    [][subject = "root" =>
       (\A q \in Procs : p[q].outcome # "ok" /\ p'[q].outcome = "ok" =>
          IF p[q].op = "materialize" THEN destDisk' = {p[q].id}
          ELSE p[q].id # 0 => p[q].id \notin destDisk')]_FrozenVars

-----------------------------------------------------------------------------
(***************************************************************************)
(* Before a frozen root is published its tree is proved to be the declared  *)
(* one, entry by entry, through retained descriptors.  A first walk makes   *)
(* unreadable entries readable; a second walk checks contents, restores the *)
(* declared modes and times and seals every directory bottom-up.  Another   *)
(* process of the same user may change the tree between any two calls.      *)
(*                                                                         *)
(* The declared tree is Children; an inode has what stat returns of it: its *)
(* kind, its mode, its times and a change counter, and its content.         *)
(* Contents 1 (the declared one) and 2 have one length, 3 another.  The     *)
(* listing of one directory with the stat of its entries is one step.       *)
(***************************************************************************)

Paths == {"r", "d", "f", "l"}
FrozenChildren == [r |-> <<"d", "l">>, d |-> <<"f">>, f |-> <<>>, l |-> <<>>]
Parent == [d |-> "r", l |-> "r", f |-> "d"]
Kind == [r |-> "dir", d |-> "dir", f |-> "file", l |-> "link"]
RootInode == 1
NoKids == [n \in {"d", "f", "l", "x"} |-> 0]
FrozenInode(kind, data, kids) == [kind |-> kind, mode |-> "declared", ver |-> 0, timed |-> FALSE, data |-> data, kids |-> kids]
\* 1 to 4 are the declared tree as materialized, 5 to 7 what others may put in the place of d, f and l.
Materialized == <<FrozenInode("dir", 1, [NoKids EXCEPT !["d"] = 2, !["l"] = 4]), FrozenInode("dir", 1, [NoKids EXCEPT !["f"] = 3]),
                  FrozenInode("file", 1, NoKids), FrozenInode("link", 1, NoKids),
                  FrozenInode("dir", 1, [NoKids EXCEPT !["f"] = 6]), FrozenInode("file", 2, NoKids), FrozenInode("link", 2, NoKids)>>
FrozenInodes == DOMAIN Materialized
Length(data) == IF data = 3 THEN 2 ELSE 1

\* What frozen_normalization_witness and frozen_normalization_final_witness read of an inode.
Witness(i) == [inode |-> i, kind |-> inode[i].kind, mode |-> inode[i].mode, length |-> Length(inode[i].data)]
with_permissions(witness, mode) == [witness EXCEPT !.mode = mode]
(* Mutant: the final witness leaves out the change time. *)
FinalWitness_short(i) == [stable |-> Witness(i), timed |-> inode[i].timed, ver |-> 0]
FinalWitness(i) == [stable |-> Witness(i), timed |-> inode[i].timed, ver |-> inode[i].ver]
active_mode(p1) == IF p1 \in Closed THEN "active" ELSE "declared"
Declared(p1, witness, mode) == witness.kind = Kind[p1] /\ witness.mode = mode

\* Follows a name of a retained directory: 0 when it is absent.
Named(p1) == IF p1 = "r" THEN RootInode ELSE inode[op.opened[Parent[p1]]].kids[p1]
NamesOf(i) == {n \in DOMAIN inode[i].kids : inode[i].kids[n] # 0}
DeclaredNames(p1) == {FrozenChildren[p1][k] : k \in DOMAIN FrozenChildren[p1]}

-----------------------------------------------------------------------------
(* The calls of the two walks, in their order. *)
RECURSIVE FlatMap(_, _)
FlatMap(s, walk) == IF s = <<>> THEN <<>> ELSE walk[s[1]] \o FlatMap(Tail(s), walk)

NormalizeLeaf(p1) ==
    IF Kind[p1] = "link" THEN << <<"pin", p1>>, <<"named", p1>>, <<"readlink", p1>>, <<"revalidate", p1>> >>
    ELSE << <<"pin", p1>>, <<"named", p1>>, <<"widen", p1>>, <<"readable", p1>>, <<"revalidate", p1>> >>
NormalizeDirectory(p1, inner) == << <<"enter", p1>>, <<"inventory", p1>> >> \o inner \o << <<"confirm", p1>> >>
NormalizeEntry(p1, inner) ==
    << <<"pin", p1>>, <<"named", p1>>, <<"widen", p1>>, <<"directory", p1>> >> \o NormalizeDirectory(p1, inner) \o << <<"revalidate", p1>> >>
SealLeaf(p1) ==
    IF Kind[p1] = "link" THEN << <<"repin", p1>>, <<"readlink", p1>>, <<"times", p1>>, <<"stable", p1>>, <<"final", p1>> >>
    ELSE << <<"repin", p1>>, <<"narrow", p1>>, <<"times", p1>>, <<"stable", p1>>, <<"digest", p1>>, <<"digested", p1>>, <<"final", p1>> >>
SealDirectory(p1, inner) ==
    << <<"active", p1>> >> \o inner \o << <<"times", p1>>, <<"timed", p1>>, <<"listing", p1>>, <<"narrow", p1>>, <<"stable", p1>> >>
SealEntry(p1, inner) == << <<"repin", p1>> >> \o SealDirectory(p1, inner) \o << <<"final", p1>> >>

tree_normalize_frozen_tree ==
    LET files1 == [p1 \in {"f", "l"} |-> NormalizeLeaf(p1)]
        walk1 == [p1 \in {"d", "l"} |-> IF p1 = "l" THEN files1["l"] ELSE NormalizeEntry("d", FlatMap(FrozenChildren["d"], files1))]
        files2 == [p1 \in {"f", "l"} |-> SealLeaf(p1)]
        walk2 == [p1 \in {"d", "l"} |-> IF p1 = "l" THEN files2["l"] ELSE SealEntry("d", FlatMap(FrozenChildren["d"], files2))]
    IN  << <<"root", "r">> >> \o NormalizeDirectory("r", FlatMap(FrozenChildren["r"], walk1))
        \o SealDirectory("r", FlatMap(FrozenChildren["r"], walk2)) \o << <<"final", "r">> >>

NoNode == [inode |-> 0]
FrozenStart == [todo |-> tree_normalize_frozen_tree, opened |-> [p1 \in {"r", "d"} |-> RootInode], pinned |-> [p1 \in Paths |-> RootInode],
                seen |-> [p1 \in Paths |-> NoNode], sealed |-> [p1 \in Paths |-> NoNode], outcome |-> "running"]
FrozenRefused == [FrozenStart EXCEPT !.todo = <<>>, !.outcome = "refused"]

TreeAt(stage, p1) == op.todo # <<>> /\ op.todo[1] = <<stage, p1>>
FrozenAdvance(o) == [o EXCEPT !.todo = Tail(@)]
FrozenRequire(condition, o) == op' = IF condition THEN FrozenAdvance(o) ELSE FrozenRefused
Unmoved == UNCHANGED <<frozen_changes, exact>>
FrozenQuiet == Unmoved /\ UNCHANGED inode

-----------------------------------------------------------------------------
(* The first walk. *)
require_named_root ==
    /\ TreeAt("root", "r")
    /\ FrozenRequire(Declared("r", Witness(RootInode), "declared"), [op EXCEPT !.seen["r"] = Witness(RootInode)])
    /\ FrozenQuiet
pin_entry(p1) ==
    /\ TreeAt("pin", p1)
    /\ LET i == Named(p1) IN FrozenRequire(i # 0 /\ Witness(i) = op.seen[p1] /\ Declared(p1, op.seen[p1], "declared"), [op EXCEPT !.pinned[p1] = i])
    /\ FrozenQuiet
require_named_entry(p1) ==
    /\ TreeAt("named", p1)
    /\ LET i == Named(p1) IN FrozenRequire(i # 0 /\ Witness(i) = op.seen[p1], op)
    /\ FrozenQuiet
Chmod(i, mode) == inode' = [inode EXCEPT ![i].ver = @ + 1, ![i].mode = mode]
chmod_active(p1) ==
    /\ TreeAt("widen", p1)
    /\ IF active_mode(p1) # "declared" THEN Chmod(op.pinned[p1], active_mode(p1)) ELSE UNCHANGED inode
    /\ op' = FrozenAdvance(op)
    /\ Unmoved
open_directory(p1) ==
    /\ TreeAt("directory", p1)
    /\ LET i == Named(p1) IN FrozenRequire(i # 0 /\ Witness(i) = with_permissions(op.seen[p1], active_mode(p1)), [op EXCEPT !.opened[p1] = i])
    /\ FrozenQuiet
\* The name, then the descriptor it was pinned with; on a failure to read, the declared mode is restored.
open_readable(p1) ==
    /\ TreeAt("readable", p1)
    /\ \/ LET i == Named(p1)
              active == with_permissions(op.seen[p1], active_mode(p1))
          IN  /\ FrozenRequire(i # 0 /\ Witness(i) = active /\ Witness(op.pinned[p1]) = active, op)
              /\ UNCHANGED inode
       \/ op' = FrozenRefused /\ IF active_mode(p1) # "declared" THEN Chmod(op.pinned[p1], "declared") ELSE UNCHANGED inode
    /\ Unmoved
read_symlink(p1) ==
    /\ TreeAt("readlink", p1)
    /\ FrozenRequire(inode[op.pinned[p1]].data = 1, op)
    /\ FrozenQuiet
revalidate_entry(p1) ==
    /\ TreeAt("revalidate", p1)
    /\ LET i == Named(p1) IN FrozenRequire(i # 0 /\ Witness(i) = with_permissions(op.seen[p1], active_mode(p1)), op)
    /\ FrozenQuiet
normalize_directory(p1) ==
    /\ TreeAt("enter", p1)
    /\ FrozenRequire(Witness(op.opened[p1]) = with_permissions(op.seen[p1], active_mode(p1)), op)
    /\ FrozenQuiet
\* Lists a directory: exactly the declared names, each with the witness asked for.
Listing(p1) == [c \in DeclaredNames(p1) |-> Witness(inode[op.opened[p1]].kids[c])]
ExactNames(p1) == NamesOf(op.opened[p1]) = DeclaredNames(p1)
require_inventory(p1) ==
    /\ TreeAt("inventory", p1)
    /\ IF ExactNames(p1)
       THEN LET listing == Listing(p1) IN
            FrozenRequire(\A c \in DOMAIN listing : Declared(c, listing[c], "declared"),
                          [op EXCEPT !.seen = [q \in Paths |-> IF q \in DOMAIN listing THEN listing[q] ELSE @[q]]])
       ELSE op' = FrozenRefused
    /\ FrozenQuiet
require_active_inventory(p1) ==
    /\ TreeAt("confirm", p1)
    /\ FrozenRequire(/\ ExactNames(p1)
                     /\ \A c \in DeclaredNames(p1) : Listing(p1)[c] = with_permissions(op.seen[c], active_mode(c))
                     /\ Witness(op.opened[p1]) = with_permissions(op.seen[p1], active_mode(p1)), op)
    /\ FrozenQuiet

-----------------------------------------------------------------------------
(* The second walk. *)
seal_directory(p1) ==
    /\ TreeAt("active", p1)
    /\ IF ExactNames(p1) /\ Declared(p1, Witness(op.opened[p1]), active_mode(p1))
       THEN LET listing == Listing(p1) IN
            FrozenRequire(\A c \in DOMAIN listing : Declared(c, listing[c], active_mode(c)),
                          [op EXCEPT !.seen = [q \in Paths |-> IF q \in DOMAIN listing THEN listing[q] ELSE @[q]],
                                     !.pinned[p1] = op.opened[p1]])
       ELSE op' = FrozenRefused
    /\ FrozenQuiet
\* Pins the listed entry and looks its name up again; a directory is opened, a file made readable.
seal_entry(p1) ==
    /\ TreeAt("repin", p1)
    /\ LET i == Named(p1) IN
       FrozenRequire(i # 0 /\ Witness(i) = op.seen[p1],
                     IF Kind[p1] = "dir" THEN [op EXCEPT !.pinned[p1] = i, !.opened[p1] = i] ELSE [op EXCEPT !.pinned[p1] = i])
    /\ FrozenQuiet
restore_mode(p1) ==
    /\ TreeAt("narrow", p1)
    /\ IF active_mode(p1) # "declared" THEN Chmod(op.pinned[p1], "declared") ELSE UNCHANGED inode
    /\ op' = FrozenAdvance(op)
    /\ Unmoved
set_times(p1) ==
    /\ TreeAt("times", p1)
    /\ inode' = [inode EXCEPT ![op.pinned[p1]].timed = TRUE, ![op.pinned[p1]].ver = @ + 1]
    /\ op' = FrozenAdvance(op)
    /\ Unmoved
require_times(p1) ==
    /\ TreeAt("timed", p1)
    /\ FrozenRequire(inode[op.pinned[p1]].timed, [op EXCEPT !.sealed[p1] = FinalWitness(op.pinned[p1])])
    /\ FrozenQuiet
require_stable(p1) ==
    /\ TreeAt("stable", p1)
    /\ FrozenRequire(Declared(p1, Witness(op.pinned[p1]), "declared") /\ inode[op.pinned[p1]].timed,
                     [op EXCEPT !.sealed[p1] = FinalWitness(op.pinned[p1])])
    /\ FrozenQuiet
\* The content is read between two looks at the witness.
regular_digest(p1) ==
    /\ TreeAt("digest", p1)
    /\ FrozenRequire(FinalWitness(op.pinned[p1]) = op.sealed[p1] /\ inode[op.pinned[p1]].data = 1, op)
    /\ FrozenQuiet
digest_unchanged(p1) ==
    /\ TreeAt("digested", p1)
    /\ FrozenRequire(FinalWitness(op.pinned[p1]) = op.sealed[p1], op)
    /\ FrozenQuiet
require_named_final(p1) ==
    /\ TreeAt("final", p1)
    /\ LET i == Named(p1) IN FrozenRequire(i # 0 /\ FinalWitness(i) = op.sealed[p1] /\ FinalWitness(op.pinned[p1]) = op.sealed[p1],
                                          IF p1 = "r" THEN [op EXCEPT !.outcome = "proved"] ELSE op)
    /\ FrozenQuiet
AsDeclared(i, p1) == inode[i].kind = Kind[p1] /\ inode[i].mode = "declared" /\ inode[i].timed /\ inode[i].data = 1
require_final_inventory(p1) ==
    /\ TreeAt("listing", p1)
    /\ FrozenRequire(/\ ExactNames(p1)
                     /\ \A c \in DeclaredNames(p1) : FinalWitness(inode[op.opened[p1]].kids[c]) = op.sealed[c]
                     /\ FinalWitness(op.pinned[p1]) = op.sealed[p1], op)
    /\ exact' = [c \in Paths |-> IF c \in DeclaredNames(p1) /\ op' # FrozenRefused THEN AsDeclared(inode[op.opened[p1]].kids[c], c) ELSE exact[c]]
    /\ UNCHANGED <<inode, frozen_changes>>
DeadlineExceeded ==
    /\ op.outcome = "running"
    /\ op' = FrozenRefused
    /\ FrozenQuiet

-----------------------------------------------------------------------------
(* Others. *)
TreeOutside == op.outcome = "running" /\ frozen_changes < MaxTreeOutside /\ frozen_changes' = frozen_changes + 1 /\ UNCHANGED <<op, exact>>
Rewrite ==
    /\ \E i \in {3, 6} \cap Mutable, data \in 1..3 :
          inode' = [inode EXCEPT ![i].data = data, ![i].timed = FALSE, ![i].ver = @ + 1]
    /\ TreeOutside
SetTimes ==
    /\ \E i \in Mutable : ~inode[i].timed /\ inode' = [inode EXCEPT ![i].timed = TRUE, ![i].ver = @ + 1]
    /\ TreeOutside
SetMode ==
    /\ \E i \in Mutable, mode \in {"declared", "active", "other"} : mode # inode[i].mode /\ Chmod(i, mode)
    /\ TreeOutside
FrozenBound == {inode[i].kids[n] : i \in FrozenInodes, n \in DOMAIN NoKids}
Rebind ==
    /\ \E i \in {1, 2, 5}, n \in FrozenRebindable, j \in {0} \cup (2..7 \ FrozenBound) :
          /\ j # inode[i].kids[n]
          /\ i # 1 => n \in {"f", "x"}
          /\ i = 1 => n # "f"
          /\ j # i
          /\ inode' = [inode EXCEPT ![i].kids[n] = j, ![i].timed = FALSE, ![i].ver = @ + 1]
    /\ TreeOutside

-----------------------------------------------------------------------------
TreeInit ==
    /\ inode = Materialized
    /\ op = FrozenStart
    /\ frozen_changes = 0
    /\ exact = [p1 \in Paths |-> p1 = "r"]
Walk1 ==
    \/ require_named_root
    \/ \E p1 \in Paths : pin_entry(p1) \/ require_named_entry(p1) \/ chmod_active(p1) \/ open_directory(p1) \/ open_readable(p1)
                        \/ read_symlink(p1) \/ revalidate_entry(p1) \/ normalize_directory(p1) \/ require_inventory(p1) \/ require_active_inventory(p1)
Walk2 ==
    \E p1 \in Paths : seal_directory(p1) \/ seal_entry(p1) \/ restore_mode(p1) \/ set_times(p1) \/ require_times(p1) \/ require_stable(p1)
                     \/ regular_digest(p1) \/ digest_unchanged(p1) \/ require_named_final(p1) \/ require_final_inventory(p1)
TreeNext == Walk1 \/ Walk2 \/ DeadlineExceeded \/ Rewrite \/ SetTimes \/ SetMode \/ Rebind

-----------------------------------------------------------------------------
(* The walk is at one of its calls; a proved tree had all of them. *)
TreeTypeOK ==
    /\ op.outcome \in {"running", "proved", "refused"}
    /\ op.outcome = "running" <=> op.todo # <<>>
    /\ op.opened \in [{"r", "d"} -> FrozenInodes] /\ op.pinned \in [Paths -> FrozenInodes]
    /\ \A i \in FrozenInodes : inode[i].data \in 1..3 /\ inode[i].mode \in {"declared", "active", "other"}

(* A proved tree is the declared one at its last check: when the directory of  *)
(* each entry was last listed, the entry had its declared kind, content, mode  *)
(* and times, whatever others changed before (seal_frozen_directory).          *)
ProvedIsDeclared == subject = "tree" => (op.outcome = "proved" => \A p1 \in Paths : exact[p1])

-----------------------------------------------------------------------------
(***************************************************************************)
(* A tree is materialized into an external directory: the parent and the    *)
(* name are admitted, an empty directory is retained or a fresh one made,   *)
(* its mode is narrowed, the files are copied out of the asset pool by one  *)
(* worker or by several in parallel, and the mode is widened again.  Every  *)
(* step works on descriptors and compares them with the names; others may   *)
(* rename the parent, the target, /usr, the pool, the assets and the files, *)
(* and any call may fail.                                                   *)
(*                                                                         *)
(* Directories: 1 is a target that was there, 2 the one that is made, 3     *)
(* another.  Inode 1 is the process's own, 2 another, 0 none.               *)
(***************************************************************************)

FrozenWorld == <<parentAt, name, dir, pool, asset, frozen_file>>
FrozenDirs == 1..3

-----------------------------------------------------------------------------
(* The calls in their order. *)
admit == << "parent_named", "probe", "parent_named", "admitted", "parent_named" >>
prepare_from == << "parent_named", "admitted", "open_or_create", "named", "empty", "policy", "named" >>
materialize ==
    << "named", "empty", "narrow", "policy", "named", "retain_usr", "usr", "named", "blit", "usr", "named",
       "widen", "sync_target", "sync_parent", "policy", "named", "usr", "named" >>
Program == admit \o prepare_from \o materialize
TargetStart(execution) == [todo |-> Program, admitted |-> 0, target |-> 0, identity |-> <<>>, outcome |-> "running", execution |-> execution]
TargetAt(step) == op.todo # <<>> /\ op.todo[1] = step
TargetAdvance(o) == [o EXCEPT !.todo = Tail(@), !.outcome = IF Len(o.todo) = 1 THEN "ok" ELSE @]
TargetRefused == [TargetStart(op.execution) EXCEPT !.todo = <<>>, !.outcome = "failed"]
TargetRequire(condition, o) == op' = IF condition THEN TargetAdvance(o) ELSE TargetRefused
FrozenMayFail == frozen_faults < FrozenMaxFaults /\ frozen_faults' = frozen_faults + 1 /\ op' = TargetRefused
TargetNoFault == UNCHANGED frozen_faults
Rest == UNCHANGED <<worker, frozen_changes, named>>
Safe(d) == d # 0 /\ dir[d].mode # "loose"
TargetIdentity(d) == <<d, dir[d].mode>>
IsEmpty(d) == ~dir[d].other /\ dir[d].usr = 0
IsNamed(path, at) == path = 1 /\ at = op.target

-----------------------------------------------------------------------------
(* Admission and preparation. *)
require_parent_named == TargetAt("parent_named") /\ TargetRequire(parentAt = 1, op) /\ UNCHANGED FrozenWorld /\ TargetNoFault /\ Rest
open_target ==
    /\ TargetAt("probe")
    /\ TargetRequire(name = 0 \/ (Safe(name) /\ IsEmpty(name)), [op EXCEPT !.admitted = name, !.identity = IF name = 0 THEN <<>> ELSE TargetIdentity(name)])
    /\ UNCHANGED FrozenWorld /\ TargetNoFault /\ Rest
retain_admitted_target ==
    /\ TargetAt("admitted")
    /\ TargetRequire(name = op.admitted /\ (name # 0 => Safe(name) /\ TargetIdentity(name) = op.identity /\ IsEmpty(name)), op)
    /\ UNCHANGED FrozenWorld /\ TargetNoFault /\ Rest
Made == [dir EXCEPT ![2] = [mode |-> "private", usr |-> 0, other |-> FALSE]]
\* A fresh directory is made under a free name and then opened by that name; another one that passes for it is taken.
open_or_create ==
    \/ /\ TargetAt("open_or_create") /\ op.admitted # 0
       /\ TargetRequire(name = op.admitted, [op EXCEPT !.target = name, !.identity = TargetIdentity(name)])
       /\ UNCHANGED FrozenWorld /\ TargetNoFault /\ Rest
    \/ /\ TargetAt("open_or_create") /\ op.admitted = 0
       /\ \/ name = 0 /\ name' = 2 /\ dir' = Made /\ op' = [op EXCEPT !.todo = << "open_created" >> \o Tail(@)] /\ TargetNoFault
          \/ name # 0 /\ op' = TargetRefused /\ TargetNoFault /\ UNCHANGED <<name, dir>>
          \/ FrozenMayFail /\ UNCHANGED <<name, dir>>
       /\ UNCHANGED <<parentAt, pool, asset, frozen_file>> /\ Rest
open_created ==
    /\ TargetAt("open_created")
    /\ TargetRequire(name # 0 /\ dir[name].mode = "private", [op EXCEPT !.target = name, !.identity = TargetIdentity(name)])
    /\ UNCHANGED FrozenWorld /\ TargetNoFault /\ Rest
require_named_frozen ==
    /\ TargetAt("named")
    /\ TargetRequire(IsNamed(parentAt, name) /\ Safe(name) /\ TargetIdentity(name) = op.identity, op)
    /\ UNCHANGED FrozenWorld /\ TargetNoFault /\ Rest
require_empty_directory == TargetAt("empty") /\ TargetRequire(IsEmpty(op.target), op) /\ UNCHANGED FrozenWorld /\ TargetNoFault /\ Rest
require_target_policy ==
    /\ TargetAt("policy")
    /\ TargetRequire(Safe(op.target), [op EXCEPT !.identity = TargetIdentity(op.target)])
    /\ UNCHANGED FrozenWorld /\ TargetNoFault /\ Rest
TargetChmod(mode) == dir' = [dir EXCEPT ![op.target].mode = mode] /\ UNCHANGED <<parentAt, name, pool, asset, frozen_file>>
narrow == TargetAt("narrow") /\ ((TargetChmod("private") /\ op' = TargetAdvance(op) /\ TargetNoFault) \/ (FrozenMayFail /\ UNCHANGED FrozenWorld)) /\ Rest
\* The final proof begins here.
widen ==
    /\ TargetAt("widen")
    /\ (TargetChmod("public") /\ op' = TargetAdvance(op) /\ TargetNoFault) \/ (FrozenMayFail /\ UNCHANGED FrozenWorld)
    /\ named' = IsNamed(parentAt, name) /\ UNCHANGED <<worker, frozen_changes>>
sync == (TargetAt("sync_target") \/ TargetAt("sync_parent")) /\ ((op' = TargetAdvance(op) /\ TargetNoFault) \/ FrozenMayFail) /\ UNCHANGED FrozenWorld /\ Rest
retain_ephemeral_usr ==
    /\ TargetAt("retain_usr")
    /\ \/ /\ dir[op.target].usr \in {0, 1}
          /\ dir' = [dir EXCEPT ![op.target].usr = 1] /\ op' = TargetAdvance(op) /\ TargetNoFault
       \/ dir[op.target].usr = 2 /\ op' = TargetRefused /\ TargetNoFault /\ UNCHANGED dir
       \/ FrozenMayFail /\ UNCHANGED dir
    /\ UNCHANGED <<parentAt, name, pool, asset, frozen_file>> /\ Rest
revalidate_under == TargetAt("usr") /\ TargetRequire(dir[op.target].usr = 1, op) /\ UNCHANGED FrozenWorld /\ TargetNoFault /\ Rest

-----------------------------------------------------------------------------
(* The workers. *)
TargetSteps == {"wait", "create", "copy", "unchanged", "seal", "named", "cleanup", "unlink", "done", "failed", "stuck"}
Working == TargetAt("blit")
SomeFailed == \E f \in FrozenFiles[subject] : worker[f].step \in {"cleanup", "unlink", "failed", "stuck"}
Go(f, step) == worker' = [worker EXCEPT ![f].step = step] /\ TargetNoFault
Trip(f, step) == frozen_faults < FrozenMaxFaults /\ frozen_faults' = frozen_faults + 1 /\ worker' = [worker EXCEPT ![f].step = step]
Alone == UNCHANGED <<op, frozen_changes, named>>
AtStep(f, step) == Working /\ worker[f].step = step
\* In sequence a file is begun when no other is under way; nothing is begun after a failure.
MayBegin(f) == ~SomeFailed /\ (op.execution = "Sequential" => \A g \in FrozenFiles[subject] : worker[g].step \in {"wait", "done"})
open_asset(f) ==
    /\ AtStep(f, "wait") /\ MayBegin(f)
    /\ \/ worker' = [worker EXCEPT ![f] = IF pool = 1 /\ asset[f].ino # 0 THEN [step |-> "create", witness |-> asset[f]] ELSE [@ EXCEPT !.step = "failed"]] /\ TargetNoFault
       \/ Trip(f, "failed")
    /\ UNCHANGED FrozenWorld /\ Alone
create_target(f) ==
    /\ AtStep(f, "create")
    /\ \/ /\ pool = 1 /\ frozen_file[f].ino = 0
          /\ frozen_file' = [frozen_file EXCEPT ![f] = [ino |-> 1, data |-> "part", mode |-> "private"]] /\ Go(f, "copy")
       \/ (pool # 1 \/ frozen_file[f].ino # 0) /\ Go(f, "failed") /\ UNCHANGED frozen_file
       \/ Trip(f, "failed") /\ UNCHANGED frozen_file
    /\ UNCHANGED <<parentAt, name, dir, pool, asset>> /\ Alone
Written(f, data) == frozen_file' = IF frozen_file[f].ino = 1 THEN [frozen_file EXCEPT ![f].data = data] ELSE frozen_file
\* The bytes are those of the opened asset while they are read; a digest that differs is a failure.
copy_fd_exact(f) ==
    /\ AtStep(f, "copy")
    /\ \/ LET data == IF asset[f].ino = worker[f].witness.ino THEN asset[f].data ELSE worker[f].witness.data
          IN  Written(f, data) /\ Go(f, IF data = "good" THEN "unchanged" ELSE "cleanup")
       \/ Trip(f, "cleanup") /\ UNCHANGED frozen_file
    /\ UNCHANGED <<parentAt, name, dir, pool, asset>> /\ Alone
require_asset_unchanged(f) ==
    /\ AtStep(f, "unchanged")
    /\ Go(f, IF pool = 1 /\ asset[f] = worker[f].witness THEN "seal" ELSE "cleanup") \/ Trip(f, "cleanup")
    /\ UNCHANGED FrozenWorld /\ Alone
seal_frozen(f) ==
    /\ AtStep(f, "seal")
    /\ \/ frozen_file' = (IF frozen_file[f].ino = 1 THEN [frozen_file EXCEPT ![f].mode = "final"] ELSE frozen_file) /\ Go(f, "named")
       \/ Trip(f, "cleanup") /\ UNCHANGED frozen_file
    /\ UNCHANGED <<parentAt, name, dir, pool, asset>> /\ Alone
require_copy_target(f) ==
    /\ AtStep(f, "named")
    /\ Go(f, IF frozen_file[f].ino = 1 THEN "done" ELSE "cleanup") \/ Trip(f, "cleanup")
    /\ UNCHANGED FrozenWorld /\ Alone
\* A name that others took is not removed.
cleanup_failed_materialization(f) ==
    \/ /\ AtStep(f, "cleanup")
       /\ Go(f, IF frozen_file[f].ino = 1 THEN "unlink" ELSE "failed") \/ Trip(f, "stuck")
       /\ UNCHANGED FrozenWorld /\ Alone
    \/ /\ AtStep(f, "unlink")
       /\ \/ frozen_file' = [frozen_file EXCEPT ![f] = [ino |-> 0, data |-> "none", mode |-> "private"]] /\ Go(f, "failed")
          \/ Trip(f, "stuck") /\ UNCHANGED frozen_file
       /\ UNCHANGED <<parentAt, name, dir, pool, asset>> /\ Alone
copy_asset(f) ==
    create_target(f) \/ copy_fd_exact(f) \/ require_asset_unchanged(f) \/ seal_frozen(f) \/ require_copy_target(f) \/ cleanup_failed_materialization(f)
blit_element_item(f) == open_asset(f) \/ copy_asset(f)
\* The pool waits for every worker that has begun.
blit ==
    /\ Working
    /\ \A f \in FrozenFiles[subject] : worker[f].step \in {"done", "failed", "stuck"} \/ (SomeFailed /\ worker[f].step = "wait")
    /\ op' = IF SomeFailed THEN TargetRefused ELSE TargetAdvance(op)
    /\ UNCHANGED FrozenWorld /\ TargetNoFault /\ Rest

-----------------------------------------------------------------------------
TargetOutside ==
    /\ op.outcome = "running" /\ frozen_changes < MaxTargetOutside[subject] /\ frozen_changes' = frozen_changes + 1
    /\ named' = (named \/ IsNamed(parentAt', name'))
    /\ UNCHANGED <<op, worker, frozen_faults>>
OutsideNames ==
    /\ \/ "parent" \in Touch[subject] /\ parentAt' = 3 - parentAt /\ UNCHANGED <<name, dir, pool>>
       \/ "target" \in Touch[subject] /\ (\E d \in ({0, 1, 3} \cup (IF op.target = 2 THEN {2} ELSE {})) \ {name} : name' = d) /\ UNCHANGED <<parentAt, dir, pool>>
       \/ "content" \in Touch[subject] /\ name # 0 /\ (\E u \in 0..2 : dir' = [dir EXCEPT ![name].other = TRUE, ![name].usr = u]) /\ UNCHANGED <<parentAt, name, pool>>
       \/ "mode" \in Touch[subject] /\ name # 0 /\ dir' = [dir EXCEPT ![name].mode = "loose"] /\ UNCHANGED <<parentAt, name, pool>>
       \/ "pool" \in Touch[subject] /\ pool' = 3 - pool /\ UNCHANGED <<parentAt, name, dir>>
    /\ UNCHANGED <<asset, frozen_file>> /\ TargetOutside
OutsideFiles ==
    /\ Working
    /\ \E f \in FrozenFiles[subject] :
          \/ /\ "asset" \in Touch[subject] /\ \E i \in {asset[f].ino, 2}, d \in {"good", "bad"} : asset' = [asset EXCEPT ![f] = [ino |-> i, data |-> d, ver |-> @.ver + 1]]
             /\ UNCHANGED frozen_file
          \/ "file" \in Touch[subject] /\ frozen_file' = [frozen_file EXCEPT ![f] = [ino |-> 2, data |-> "none", mode |-> "private"]] /\ UNCHANGED asset
    /\ UNCHANGED <<parentAt, name, dir, pool>> /\ TargetOutside

TargetInit ==
    /\ parentAt = 1 /\ name \in {0, 1} /\ pool = 1
    /\ dir \in {[d \in FrozenDirs |-> IF d = 1 THEN [mode |-> m, usr |-> 0, other |-> o] ELSE [mode |-> "public", usr |-> 0, other |-> FALSE]] : m \in {"public", "loose"}, o \in BOOLEAN}
    /\ asset \in [FrozenFiles[subject] -> {[ino |-> i, data |-> d, ver |-> 0] : i \in {1}, d \in {"good", "bad"}}]
    /\ frozen_file = [f \in FrozenFiles[subject] |-> [ino |-> 0, data |-> "none", mode |-> "private"]]
    /\ worker = [f \in FrozenFiles[subject] |-> [step |-> "wait", witness |-> [ino |-> 0, data |-> "none", ver |-> 0]]]
    /\ \E e \in Executions[subject] : op = TargetStart(e)
    /\ frozen_changes = 0 /\ frozen_faults = 0 /\ named = FALSE
Preparing ==
    require_parent_named \/ open_target \/ retain_admitted_target \/ open_or_create \/ open_created \/ require_named_frozen \/ require_empty_directory
    \/ require_target_policy \/ narrow \/ widen \/ sync \/ retain_ephemeral_usr \/ revalidate_under
TargetNext == Preparing \/ (\E f \in FrozenFiles[subject] : blit_element_item(f)) \/ blit \/ OutsideNames \/ OutsideFiles

-----------------------------------------------------------------------------
(* The operation, the directories and the workers have their types; past the   *)
(* blit every worker is done.                                                   *)
TargetTypeOK ==
    /\ name \in 0..3 /\ op.outcome \in {"running", "ok", "failed"} /\ (op.outcome = "running" <=> op.todo # <<>>)
    /\ \A f \in FrozenFiles[subject] : worker[f].step \in TargetSteps
    /\ (op.outcome # "failed" /\ \A i \in 1..Len(op.todo) : op.todo[i] # "blit") => \A f \in FrozenFiles[subject] : worker[f].step = "done"

(* When the target is reported as filled, it was at its name in the parent that  *)
(* was admitted at some moment after its mode was widened (the final proof of    *)
(* materialize).                                                                *)
FilledWasNamed == subject = "target" => (op.outcome = "ok" => named)

(* A file whose copy is done and that nobody replaced has the declared content   *)
(* and mode, whatever happened to its asset meanwhile (copy_asset verifies the   *)
(* digest of the bytes it copied).                                               *)
CopiesAreDeclared == subject = "copies" => (\A f \in FrozenFiles[subject] : (worker[f].step = "done" /\ frozen_file[f].ino = 1) => frozen_file[f].data = "good" /\ frozen_file[f].mode = "final")

(* A materialization that failed leaves no part of a file, unless the removal of *)
(* one failed too: every worker that began a file finishes it or removes it      *)
(* before the failure is returned.                                               *)
FailureLeavesWholeFiles == subject = "copies" =>
    ((op.outcome = "failed" /\ \A f \in FrozenFiles[subject] : worker[f].step # "stuck") => \A f \in FrozenFiles[subject] : frozen_file[f].ino = 1 => frozen_file[f].data = "good" /\ frozen_file[f].mode = "final")

-----------------------------------------------------------------------------
(***************************************************************************)
(* The layout rows of a set of packages become one tree of files.  For a    *)
(* frozen root every row is validated, the rows are sorted, identical       *)
(* directories are merged, any other collision is refused, and the tree is  *)
(* turned into the declaration the materialized root is compared with.  A   *)
(* stateful candidate takes the rows as they are.  Both build the tree with *)
(* the same builder: parents are added, directories win, and what is        *)
(* declared beneath a link to a directory is reparented.                    *)
(*                                                                         *)
(* A path is a tuple of components: 0 is usr, 1.. are names, Empty, Dots    *)
(* and Long the components the path policy refuses.  <<>> is the root.      *)
(***************************************************************************)
\* op: mode, phase and the rows still to insert

Empty == 97
Dots == 98
Long == 99
Reserved == { <<5>> }     \* targets reserved for system metadata
RootAbi == { <<6>> }      \* the names of the root links

-----------------------------------------------------------------------------
(* Paths. *)
Prefix(p1, n) == SubSeq(p1, 1, n)
Beneath(p1, q) == Len(p1) > Len(q) /\ Prefix(p1, Len(q)) = q
LayoutParent(p1) == Prefix(p1, Len(p1) - 1)
FileName(p1) == p1[Len(p1)]
PathOf(row) == <<0>> \o row.target
Lex(p1, q) ==
    \E i \in 1..Len(q) : Len(p1) >= i - 1 /\ Prefix(p1, i - 1) = Prefix(q, i - 1) /\ (Len(p1) = i - 1 \/ p1[i] < q[i])
require_usr_relative_stone_target(t) ==
    /\ t # <<>>
    /\ \A i \in 1..Len(t) : t[i] \notin {Empty, Dots, Long}
    /\ t \notin Reserved

-----------------------------------------------------------------------------
(* Rows of a frozen root. *)
IsDirectory(row) == row.kind = "dir"
FrozenLayoutEntry(row) ==
    /\ require_usr_relative_stone_target(row.target)
    /\ row.kind = "link" => row.to # <<>>
    /\ row.owner = 0 /\ row.kind # "device" /\ row.mode # 0
identical_directory_metadata(a, b) == IsDirectory(a) /\ IsDirectory(b) /\ a.mode = b.mode /\ a.owner = b.owner
KindOrder(row) == CASE row.kind = "dir" -> 0 [] row.kind = "file" -> 1 [] OTHER -> 2
Before(a, b) ==
    \/ Lex(PathOf(a), PathOf(b))
    \/ /\ PathOf(a) = PathOf(b)
       /\ \/ a.pkg < b.pkg
          \/ a.pkg = b.pkg /\ KindOrder(a) < KindOrder(b)
          \/ a.pkg = b.pkg /\ KindOrder(a) = KindOrder(b) /\ a.mode < b.mode
Kept(sorted, i) == i = 1 \/ PathOf(sorted[i - 1]) # PathOf(sorted[i])
Collides(sorted) == \E i \in 2..Len(sorted) : PathOf(sorted[i - 1]) = PathOf(sorted[i]) /\ ~identical_directory_metadata(sorted[i - 1], sorted[i])
Ancestors(p1) == {Prefix(p1, n) : n \in 0..(Len(p1) - 1)}
Parents(set) == UNION {Ancestors(PathOf(r)) : r \in set}
LinkTarget(row) == IF row.abs THEN row.to ELSE LayoutParent(PathOf(row)) \o row.to
\* Every parent and every declared directory, less what a row declares as something else.
MaterializedDirectories(set) == (Parents(set) \ {PathOf(r) : r \in {x \in set : ~IsDirectory(x)}}) \cup {PathOf(r) : r \in {x \in set : IsDirectory(x)}}
Redirects(set) == {r \in set : r.kind = "link" /\ LinkTarget(r) \in MaterializedDirectories(set)}
validate_frozen_tree_collisions(set) ==
    /\ \A r \in set : \A l \in Redirects(set) : ~Beneath(PathOf(r), PathOf(l))
    /\ \A r, x \in set : Beneath(PathOf(r), PathOf(x)) => IsDirectory(x)

-----------------------------------------------------------------------------
(* The builder. *)
Implicit(p1) == [pkg |-> 0, target |-> Tail(p1), kind |-> "dir", mode |-> 1, owner |-> 0, to |-> <<>>, abs |-> FALSE]
\* The implicit entry of the root itself has no path beneath /usr.
Root == [pkg |-> 0, target |-> <<>>, kind |-> "root", mode |-> 1, owner |-> 0, to |-> <<>>, abs |-> FALSE]
Entry(p1, row) == [path |-> p1, row |-> row]
Sequence(set) == CHOOSE s \in [1..Cardinality(set) -> set] : {s[i] : i \in DOMAIN s} = set
EarlierPath(a, b) == Len(a.path) < Len(b.path) \/ (Len(a.path) = Len(b.path) /\ Lex(a.path, b.path))
\* Directories by path: of several rows for one directory the last is taken.
Directories(list) == {i \in DOMAIN list : IsDirectory(list[i]) /\ \A j \in DOMAIN list : IsDirectory(list[j]) /\ PathOf(list[j]) = PathOf(list[i]) => j <= i}
bake(list) == Parents({list[i] : i \in DOMAIN list}) \ {PathOf(list[i]) : i \in DOMAIN list}
full_set(list) ==
    LET implied == bake(list)
        dirs == {Entry(PathOf(list[i]), list[i]) : i \in {k \in Directories(list) : PathOf(list[k]) \notin implied}}
                \cup {Entry(p1, IF p1 = <<>> THEN Root ELSE Implicit(p1)) : p1 \in implied}
        others == SelectSeq(list, LAMBDA r : ~IsDirectory(r))
    IN  SortSeq(Sequence(dirs) \o [i \in DOMAIN others |-> Entry(PathOf(others[i]), others[i])], EarlierPath)

RECURSIVE DescendantsOf(_, _)
LayoutChildren(arena, n) == {k \in DOMAIN arena : arena[k].parent = n}
\* In the arena a node follows its parent, so the order of the numbers is a preorder of what matters here.
DescendantsOf(arena, n) == LayoutChildren(arena, n) \cup UNION {DescendantsOf(arena, k) : k \in LayoutChildren(arena, n)}
Attached(arena) == {1} \cup DescendantsOf(arena, 1)
\* A node whose name its parent already has is reported and left detached.
Placed(arena, m, n) ==
    LET p1 == m[LayoutParent(arena[n].path)]
        taken == \E k \in LayoutChildren(arena, p1) : FileName(arena[k].path) = FileName(arena[n].path)
    IN  IF taken THEN arena ELSE [arena EXCEPT ![n].parent = p1]
MapSet(m, p1, n) == [q \in DOMAIN m \cup {p1} |-> IF q = p1 THEN n ELSE m[q]]

-----------------------------------------------------------------------------
(* The steps. *)
FrozenRefuse == [op EXCEPT !.phase = "refused", !.todo = <<>>, !.links = {}]
Deliver(list) == [op EXCEPT !.phase = "insert", !.todo = full_set(list), !.links = Redirects({list[i] : i \in DOMAIN list})]
frozen_vfs ==
    /\ op.phase = "plan" /\ op.mode = "frozen"
    /\ LET sorted == SortSeq(rows, Before)
           kept == {i \in DOMAIN sorted : Kept(sorted, i)}
           selected == [k \in 1..Cardinality(kept) |-> sorted[CHOOSE i \in kept : Cardinality({j \in kept : j <= i}) = k]]
       IN  op' = IF /\ \A i \in DOMAIN rows : FrozenLayoutEntry(rows[i])
                    /\ ~Collides(sorted)
                    /\ validate_frozen_tree_collisions({sorted[i] : i \in kept})
                 THEN Deliver(selected) ELSE FrozenRefuse
    /\ UNCHANGED <<rows, nodes, map>>
vfs ==
    /\ op.phase = "plan" /\ op.mode = "stateful"
    /\ op' = IF \A i \in DOMAIN rows : require_usr_relative_stone_target(rows[i].target) /\ rows[i].kind # "device" THEN Deliver(rows) ELSE FrozenRefuse
    /\ UNCHANGED <<rows, nodes, map>>
insert ==
    /\ op.phase = "insert" /\ op.todo # <<>>
    /\ LET e == op.todo[1]
           n == Len(nodes) + 1
           arena == Append(nodes, [path |-> e.path, row |-> e.row, parent |-> 0])
           m == MapSet(map, e.path, n)
       IN  /\ map' = m
           /\ nodes' = IF e.path = <<>> THEN arena ELSE Placed(arena, m, n)
    /\ op' = [op EXCEPT !.todo = Tail(@)]
    /\ UNCHANGED rows
\* The suffix of a descendant begins with a separator, so joining it to the target gives the suffix alone.
join(target, suffix) == suffix
\* The links in the order of their paths; the descendants are detached and inserted again.
Orphans(source) == DescendantsOf(nodes, map[PathOf(source)])
reparent ==
    /\ op.phase = "insert" /\ op.todo = <<>> /\ op.links # {}
    /\ LET source == CHOOSE l \in op.links : \A o \in op.links : PathOf(o) = PathOf(l) \/ Lex(PathOf(l), PathOf(o))
           moved == Orphans(source)
           prefix == PathOf(source)
           Moved(n) == Entry(join(LinkTarget(source), SubSeq(nodes[n].path, Len(prefix) + 1, Len(nodes[n].path))), nodes[n].row)
       IN  /\ nodes' = [k \in DOMAIN nodes |-> IF k \in moved THEN [nodes[k] EXCEPT !.parent = 0] ELSE nodes[k]]
           /\ op' = [op EXCEPT !.links = @ \ {source}, !.again = @ \o SortSeq(Sequence({Moved(n) : n \in moved}), EarlierPath),
                               !.phase = IF moved = {} THEN "insert" ELSE "again"]
    /\ UNCHANGED <<rows, map>>
reinsert ==
    /\ op.phase = "again"
    /\ LET e == op.again[1]
           known == e.path \in DOMAIN map
           n == IF known THEN map[e.path] ELSE Len(nodes) + 1
           arena == IF known THEN nodes ELSE Append(nodes, [path |-> e.path, row |-> e.row, parent |-> 0])
           m == IF known THEN map ELSE MapSet(map, e.path, n)
       IN  map' = m /\ nodes' = Placed(arena, m, n)
    /\ op' = [op EXCEPT !.again = Tail(@), !.phase = IF Len(op.again) = 1 THEN "insert" ELSE "again"]
    /\ UNCHANGED rows

FrozenTree == {nodes[n] : n \in Attached(nodes)}
FrozenExpectedTree(tree1) ==
    /\ Cardinality(tree1) + Cardinality(RootAbi) <= MaxInodes
    /\ \A e \in tree1 : e.path \notin RootAbi
    /\ \A e, x \in tree1 : e.path = x.path => e = x
    /\ \A e \in tree1 : e.path # <<>> => \E x \in tree1 : x.path = LayoutParent(e.path) /\ x.row.kind \in {"dir", "root"}
expect ==
    /\ op.phase = "insert" /\ op.todo = <<>> /\ op.links = {}
    /\ op' = IF op.mode = "frozen" /\ ~FrozenExpectedTree(FrozenTree) THEN FrozenRefuse ELSE [op EXCEPT !.phase = "planned"]
    /\ UNCHANGED <<rows, nodes, map>>

LayoutInit ==
    /\ \E n \in 1..MaxRows : rows \in [1..n -> Rows]
    /\ op \in {[mode |-> m, phase |-> "plan", todo |-> <<>>, links |-> {}, again |-> <<>>] : m \in Modes[subject]}
    /\ nodes = <<>> /\ map = <<>>
LayoutNext == frozen_vfs \/ vfs \/ insert \/ reparent \/ reinsert \/ expect

-----------------------------------------------------------------------------
(* The reference: what the rows say, read as a set. *)
RowSet == {rows[i] : i \in DOMAIN rows}
Conflict ==
    \/ \E r \in RowSet : ~FrozenLayoutEntry(r)
    \/ \E r, x \in RowSet : PathOf(r) = PathOf(x) /\ r # x /\ ~identical_directory_metadata(r, x)
    \/ \E i, j \in DOMAIN rows : i # j /\ rows[i] = rows[j] /\ ~IsDirectory(rows[i])
    \/ \E r, x \in RowSet : Beneath(PathOf(r), PathOf(x)) /\ ~IsDirectory(x)
FirstRow(p1) == CHOOSE r \in RowSet : PathOf(r) = p1 /\ \A x \in RowSet : PathOf(x) = p1 => r.pkg <= x.pkg
LayoutDeclared ==
    {Entry(PathOf(r), FirstRow(PathOf(r))) : r \in RowSet}
    \cup {Entry(p1, IF p1 = <<>> THEN Root ELSE Implicit(p1)) : p1 \in Parents(RowSet) \ {PathOf(r) : r \in RowSet}}
Planned == {Entry(e.path, e.row) : e \in FrozenTree}
Shape(set) == {<<e.path, e.row.kind, e.row.mode>> : e \in set}

(* The phases are the builder's, no two children of a node share a name, and *)
(* in a frozen tree a parent is made before its children.                    *)
LayoutTypeOK ==
    /\ op.phase \in {"plan", "insert", "again", "planned", "refused"}
    /\ \A n \in DOMAIN nodes : nodes[n].parent \in 0..Len(nodes)
    /\ \A p1 \in DOMAIN map : nodes[map[p1]].path = p1
    /\ \A n, k \in DOMAIN nodes : n # k /\ nodes[n].parent # 0 /\ nodes[n].parent = nodes[k].parent => FileName(nodes[n].path) # FileName(nodes[k].path)
    /\ op.mode = "frozen" => \A n \in DOMAIN nodes : nodes[n].parent < n

(* A frozen tree that is planned is what the rows declare, each entry at its     *)
(* path with the row of the first package, every missing parent implied, in      *)
(* whatever order the database returned the rows (frozen_vfs sorts them).        *)
PlanIsDeclared == subject = "layout" => ((op.phase = "planned" /\ op.mode = "frozen") => Planned = LayoutDeclared)

(* Planning a frozen tree fails exactly when a row is invalid or two rows        *)
(* disagree about a path or about what is beneath it; the declaration built from *)
(* a planned tree never refuses what the collision checks let through.           *)
RefusedIffConflict == subject = "layout" => (op.mode = "frozen" => (op.phase = "refused" => Conflict) /\ (op.phase = "planned" => ~Conflict))

(* Rows without a conflict give a stateful candidate the declared tree too,      *)
(* although nothing is sorted or checked for collisions there.                   *)
StatefulIsDeclared == subject = "stateful" => ((op.phase = "planned" /\ op.mode = "stateful" /\ ~Conflict) => Shape(Planned) = Shape(LayoutDeclared))

(* What a row declares beneath a link to a directory is found beneath that       *)
(* directory ("Clone the node to a reparented path, for symlink resolution").    *)
ReparentedBeneathTarget == subject = "stateful" =>
    (op.phase = "planned" =>
        \A l \in Redirects(RowSet), r \in RowSet :
            Beneath(PathOf(r), PathOf(l)) => \E e \in FrozenTree : e.path = LinkTarget(l) \o SubSeq(PathOf(r), Len(PathOf(l)) + 1, Len(PathOf(r))))

-----------------------------------------------------------------------------
(* A behaviour exercises one part, chosen at the start; the variables of the
   other parts are not in use. *)
FrozenInit ==
    /\ subject \in Subjects
    /\ \/ subject = "root" /\ RootInit
          /\ inode = None /\ op = None /\ frozen_changes = None /\ exact = None /\ parentAt = None /\ name = None /\ dir = None /\ pool = None
          /\ asset = None /\ frozen_file = None /\ worker = None /\ frozen_faults = None /\ named = None /\ rows = None /\ nodes = None /\ map = None
       \/ subject = "tree" /\ TreeInit
          /\ lock = None /\ dest = None /\ destDisk = None /\ parent = None /\ made = None /\ tree = None /\ frozen_synced = None /\ widened = None
          /\ gone = None /\ p = None /\ frozen_spent = None /\ parentAt = None /\ name = None /\ dir = None /\ pool = None /\ asset = None
          /\ frozen_file = None /\ worker = None /\ frozen_faults = None /\ named = None /\ rows = None /\ nodes = None /\ map = None
       \/ subject \in {"target", "copies"} /\ TargetInit
          /\ lock = None /\ dest = None /\ destDisk = None /\ parent = None /\ made = None /\ tree = None /\ frozen_synced = None /\ widened = None
          /\ gone = None /\ p = None /\ frozen_spent = None /\ inode = None /\ exact = None /\ rows = None /\ nodes = None /\ map = None
       \/ subject \in {"layout", "stateful"} /\ LayoutInit
          /\ lock = None /\ dest = None /\ destDisk = None /\ parent = None /\ made = None /\ tree = None /\ frozen_synced = None /\ widened = None
          /\ gone = None /\ p = None /\ frozen_spent = None /\ inode = None /\ frozen_changes = None /\ exact = None /\ parentAt = None /\ name = None
          /\ dir = None /\ pool = None /\ asset = None /\ frozen_file = None /\ worker = None /\ frozen_faults = None /\ named = None

RootOnly == subject = "root" /\ UNCHANGED <<subject, inode, op, frozen_changes, exact, parentAt, name, dir, pool, asset,
                                            frozen_file, worker, frozen_faults, named, rows, nodes, map>>
TreeOnly == subject = "tree" /\ UNCHANGED <<subject, lock, dest, destDisk, parent, made, tree, frozen_synced, widened,
                                            gone, p, frozen_spent, parentAt, name, dir, pool, asset, frozen_file, worker, frozen_faults,
                                            named, rows, nodes, map>>
TargetOnly == subject \in {"target", "copies"} /\ UNCHANGED <<subject, lock, dest, destDisk, parent, made, tree,
                                                              frozen_synced, widened, gone, p, frozen_spent, inode, exact, rows,
                                                              nodes, map>>
LayoutOnly == subject \in {"layout", "stateful"} /\ UNCHANGED <<subject, lock, dest, destDisk, parent, made, tree,
                                                                frozen_synced, widened, gone, p, frozen_spent, inode, frozen_changes,
                                                                exact, parentAt, name, dir, pool, asset, frozen_file,
                                                                worker, frozen_faults, named>>
FrozenNext ==
    \/ RootOnly /\ RootNext
    \/ TreeOnly /\ TreeNext
    \/ TargetOnly /\ TargetNext
    \/ LayoutOnly /\ LayoutNext

FrozenTypeOK ==
    /\ subject = "root" => RootTypeOK
    /\ subject = "tree" => TreeTypeOK
    /\ subject \in {"target", "copies"} => TargetTypeOK
    /\ subject \in {"layout", "stateful"} => LayoutTypeOK

-----------------------------------------------------------------------------
(* The instance that TLC checks. *)
TargetFiles == [target |-> {"x"}, copies |-> {"x", "y"}]
TargetMaxOutside == [target |-> 2, copies |-> 1]
TargetExecutions == [target |-> {"Sequential"}, copies |-> {"Parallel", "Sequential"}]
TargetTouch == [target |-> {"parent", "target", "content", "mode", "pool"}, copies |-> {"asset", "file"}]

Row(p1, t, k, m) == [pkg |-> p1, target |-> t, kind |-> k, mode |-> m, owner |-> 0, to |-> <<>>, abs |-> FALSE]
Link(p1, t, to, abs) == [pkg |-> p1, target |-> t, kind |-> "link", mode |-> 3, owner |-> 0, to |-> to, abs |-> abs]
MCRows ==
    { Row(1, <<1>>, "dir", 1), Row(2, <<1>>, "dir", 1), Row(2, <<1>>, "dir", 2), Row(1, <<1, 1>>, "dir", 2), Row(1, <<1, 1>>, "file", 1),
      Row(2, <<1, 1, 2>>, "file", 1), Row(1, <<2, 1>>, "file", 1), Row(2, <<2>>, "file", 1), Row(1, <<2, 2>>, "dir", 1),
      Link(1, <<2>>, <<1>>, FALSE), Link(2, <<2>>, <<0, 1, 1>>, TRUE), Link(1, <<1, 2>>, <<Dots, 2>>, FALSE), Link(1, <<1, 2>>, <<1>>, FALSE),
      Row(1, <<1, Dots>>, "file", 1), Row(1, <<5>>, "file", 1), [Row(1, <<2, 2>>, "file", 1) EXCEPT !.owner = 1], Row(1, <<2, 2>>, "device", 1) }
MCRedirectRows == { Row(1, <<1>>, "dir", 1), Row(1, <<2, 1>>, "file", 1), Link(1, <<2>>, <<1>>, FALSE), Row(1, <<1, 1>>, "file", 1), Row(2, <<2, 1, 1>>, "file", 1), Link(2, <<1, 2>>, <<1>>, FALSE), Row(2, <<1, 2, 3>>, "file", 1) }
LayoutModes == [layout |-> {"frozen"}, stateful |-> {"stateful"}]
=============================================================================
