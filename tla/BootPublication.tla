-------------------------- MODULE BootPublication ---------------------------
(***************************************************************************)
(* Publication to the boot volume: the files and receipts of a publication  *)
(* across crashes, the end of a boot synchronisation in one process, and    *)
(* the leaf directories and files the publication creates.                  *)
(***************************************************************************)
EXTENDS Parts, Sequences, FiniteSets, Integers, SequencesExt, TLC

CONSTANTS
    Plan,                \* the leaves in publication order (payload before entry)
    FilesContents,       \* the contents a plan can ask for
    Wanted,              \* the plans: functions from some leaves to Contents
    FirstImage,          \* the leaves of the volume at the start
    MaxRounds, MaxOutside, MaxStops, \* bounds
    CommitOutputs,       \* the planned outputs, in plan order
    MaxFaults,           \* bound on failing calls
    MaxCommitOutside,    \* bound on changes made by others
    Top,                 \* the root directory of the boot volume
    Outer,               \* per subject, directories the first parent name may be
    Inner,               \* per subject, directories the second parent name may be
    LeafFiles,           \* per subject, files the leaf name may be
    MaxLeafMoves,        \* per subject, bound on outside changes below the volume
    MaxLeafFaults        \* per subject, bound on failing calls there

VARIABLES
    vol,         \* the volume as the kernel shows it
    maybe,       \* per leaf, the images a power failure may leave
    dir,         \* the parent directory: absent, made or durable
    db,          \* the receipts: committed, its predecessor, pending
    jrn,         \* the journal: none, started (BootSyncStarted) or unverified
    base,        \* history: the canonical files when the receipt was staged
    touched,     \* history: leaves somebody else changed since then
    there,       \* history: leaves whose foreign file nobody else removed
    used,        \* rounds, outside changes and stops so far
    operation,   \* the operation of the transition
    journal,     \* the durable record: its phase, and which file holds it
    receipt,     \* the receipt in the database: "none", "pending" or "promoted"
    boot,        \* each output on the boot volume
    displaced,   \* the outputs whose old bytes are still kept beside them
    mount,       \* which mount is behind the target
    tree,        \* the replaced tree: "staged" or "preserved"
    p,           \* the running chain
    report,      \* what it returned
    late,        \* ghost: the outputs changed after the final validation began
    spent,
    child,       \* child[d]: what the name of interest in d is, or None
    safe,        \* directories with the owner, mode and mount asked for
    content,     \* content[f]: "want", "edited" (same length) or "longer"
    stamp,       \* change time of every directory and file
    unsynced,    \* directories whose entries may not be on disk
    moves,
    faults,
    seen  \* history: trees since the terminal checks began

PublicationVars == <<subject, vol, maybe, dir, db, jrn, op, base, touched, there, used, operation, journal, receipt,
                     boot, displaced, mount, tree, p, report, late, spent, child, safe, content, stamp, unsynced, moves,
                     faults, seen>>

-----------------------------------------------------------------------------
(***************************************************************************)
(* The boot files themselves.  An ActiveReblit (or a new state) that owns  *)
(* the boot volume stages a receipt of the outputs it wants, publishes     *)
(* them leaf by leaf, promotes the receipt, and only then removes what the *)
(* predecessor receipt owned: client/boot/active_reblit_* drives the       *)
(* descriptor-level primitives of linux_fs/mount_namespace/attachment.     *)
(* A process may die at any step, the machine may lose power, and somebody *)
(* else may change a canonical name; startup resumes from the receipts.    *)
(*                                                                         *)
(* A leaf of the volume is a record of the four names the code uses for    *)
(* it: the canonical one, the private `.stage' name of each content, the   *)
(* `.replace' sidecar and the `.stale' name of the current receipt.  maybe *)
(* holds, per leaf, every image a power failure may leave; each operation  *)
(* may or may not have reached the volume until it is synchronized.        *)
(***************************************************************************)

Paths == {Plan[i] : i \in 1..Len(Plan)}
File(c, by) == [c |-> c, by |-> by]
Files == {File(c, by) : c \in FilesContents \cup {"x", "part"}, by \in {"cast", "other"}}
Leaves ==
    [file: Files \cup {None}, stage: [FilesContents -> {"none", "part", "full"}],
     side: Files \cup {None}, stale: Files \cup {None}]
Claims == {"BorrowedFirstAdoption", "UnclaimedAbsent", "ClaimedPublishedByCast"}
Outputs == UNION {[S -> [c: FilesContents, claim: Claims]] : S \in SUBSET Paths}
Idle == [step |-> "idle"]

FilesTypeOK ==
    /\ vol \in [Paths -> Leaves]
    /\ \A p1 \in Paths : vol[p1] \in maybe[p1] /\ maybe[p1] \subseteq Leaves
    /\ dir \in {"absent", "made", "durable"}
    /\ DOMAIN db = {"committed", "before", "pending"}
    /\ \A r \in DOMAIN db : db[r] = None \/ db[r] \in Outputs
    /\ jrn \in {"none", "started", "unverified"}
    /\ base \in [Paths -> Files \cup {None}]
    /\ touched \subseteq Paths /\ there \subseteq Paths
    /\ used \in [rounds: 0..MaxRounds, outside: 0..MaxOutside, stops: 0..MaxStops]

-----------------------------------------------------------------------------
(* The file system: a change of one leaf, and the synchronizations.        *)

Change(p1, F(_)) ==
    /\ vol' = [vol EXCEPT ![p1] = F(@)]
    /\ maybe' = [maybe EXCEPT ![p1] = @ \cup {F(d) : d \in @}]

\* file, parent directory and file system, in that order
SyncVolume ==
    /\ maybe' = [q \in Paths |-> {vol[q]}]
    /\ UNCHANGED vol

\* the file alone: its data is safe under whatever name survives
SyncStage(p1, c) ==
    /\ maybe' = [maybe EXCEPT ![p1] = {d \in @ : d.stage[c] # "part"}]
    /\ UNCHANGED vol

Holds(f, c) == f # None /\ f.c = c

-----------------------------------------------------------------------------
(* Receipts, and what a plan means on the volume as it is.                 *)

Out(r) == IF r = None THEN <<>> ELSE r

installed_claim_is_owned(claim) == claim \in {"UnclaimedAbsent", "ClaimedPublishedByCast"}

Owned(r, p1) == p1 \in DOMAIN Out(r) /\ installed_claim_is_owned(r[p1].claim)

assess(p1, c) ==
    IF vol[p1].file = None THEN "Absent" ELSE IF vol[p1].file.c = c THEN "Exact" ELSE "Different"

classify_desired(p1, c) ==
    LET state == assess(p1, c) IN
    CASE state = "Absent" -> "PublishDesired"
      [] state = "Exact" -> IF Owned(db.committed, p1) THEN "RetainOwnedDesired" ELSE "PreserveBorrowedDesired"
      [] state = "Different" -> IF Owned(db.committed, p1) THEN "ReplaceOwnedDesired" ELSE "UnownedDifferentDesired"

classify(want) == [p1 \in DOMAIN want |-> classify_desired(p1, want[p1])]

receipt_claim_for_desired_action(action) ==
    CASE action = "PublishDesired" -> "UnclaimedAbsent"
      [] action = "PreserveBorrowedDesired" -> "BorrowedFirstAdoption"
      [] OTHER -> "ClaimedPublishedByCast"

\* A retained output must be what the predecessor recorded, a replaced one must not be.
validate_desired_action(p1, c, action) ==
    /\ action = "RetainOwnedDesired" => db.committed[p1].c = c
    /\ action = "ReplaceOwnedDesired" => db.committed[p1].c # c

InOrder(S) == SelectSeq(Plan, LAMBDA p1 : p1 \in S)

FilesInit ==
    /\ vol \in FirstImage
    /\ maybe = [p1 \in Paths |-> {vol[p1]}]
    /\ dir \in IF \A p1 \in Paths : vol[p1].file = None THEN {"absent", "durable"} ELSE {"durable"}
    /\ db = [committed |-> None, before |-> None, pending |-> None]
    /\ jrn = "none"
    /\ op = Idle
    /\ base = [p1 \in Paths |-> vol[p1].file]
    /\ touched = {}
    /\ there = {p1 \in Paths : vol[p1].file # None}
    /\ used = [rounds |-> 0, outside |-> 0, stops |-> 0]

history == <<base, touched, there, used>>

(***************************************************************************)
(* Staging: the union of the installed receipt and the plan is classified  *)
(* on the volume, the pending receipt is stored with the claims that gives *)
(* and BootSyncStarted is recorded.  A file the plan would have to         *)
(* overwrite without owning it refuses the whole attempt.                  *)
(***************************************************************************)
stage_active_reblit_boot_sync(want) ==
    LET actions == classify(want) IN
    /\ op = Idle /\ jrn = "none" /\ used.rounds < MaxRounds
    /\ used' = [used EXCEPT !.rounds = @ + 1]
    /\ base' = [p1 \in Paths |-> vol[p1].file]
    /\ touched' = {}
    /\ IF \E p1 \in DOMAIN want : actions[p1] = "UnownedDifferentDesired"
       THEN UNCHANGED <<db, jrn, op>>
       ELSE /\ db' = [db EXCEPT !.pending =
                        [p1 \in DOMAIN want |->
                            [c |-> want[p1], claim |-> receipt_claim_for_desired_action(actions[p1])]]]
            /\ jrn' = "started"
            /\ op' = [step |-> "admit", want |-> want, acts |-> actions, todo |-> <<>>, live |-> TRUE]
    /\ UNCHANGED <<vol, maybe, dir, there>>

Go(step) == op' = [op EXCEPT !.step = step]
Refuse == op' = Idle /\ UNCHANGED <<vol, maybe>>
At(step) == op.step = step
Leaf == op.todo[1]
Want == op.want[Leaf]
NextLeaf(again, after, todo) ==
    op' = IF Len(op.todo) = 1 THEN [op EXCEPT !.todo = todo, !.step = after]
          ELSE [op EXCEPT !.todo = Tail(@), !.step = again]
Published == NextLeaf("leaf", "admission", InOrder(DOMAIN op.want))

(***************************************************************************)
(* Publication.  The plan is classified again and must still mean the same *)
(* actions; then the leaves are published in plan order.                   *)
(***************************************************************************)
publish_from_staged_authority ==
    /\ At("admit")
    /\ IF /\ classify(op.want) = op.acts
          /\ \A p1 \in DOMAIN op.want : validate_desired_action(p1, op.want[p1], op.acts[p1])
       THEN op' = [op EXCEPT !.todo = InOrder(DOMAIN op.want),
                             !.step = IF DOMAIN op.want = {} THEN "admission" ELSE "leaf"]
       ELSE op' = Idle
    /\ UNCHANGED <<vol, maybe, dir, db, jrn, history>>

Immutable == op.acts[Leaf] # "ReplaceOwnedDesired"

\* An absent output is still absent, a retained or borrowed one still exact.
publish_preflighted_immutable_leaf ==
    /\ At("leaf") /\ Immutable
    /\ IF assess(Leaf, Want) = (IF op.acts[Leaf] = "PublishDesired" THEN "Absent" ELSE "Exact")
       THEN Go("parent") /\ UNCHANGED <<vol, maybe>>
       ELSE Refuse
    /\ UNCHANGED <<dir, db, jrn, history>>

retain_boot_publication_parent ==
    /\ At("parent")
    /\ dir' = IF dir = "absent" THEN "made" ELSE dir
    /\ Go("chain")
    /\ UNCHANGED <<vol, maybe, db, jrn, history>>

sync_chain ==
    /\ At("chain")
    /\ dir' = "durable"
    /\ Go("classify")
    /\ UNCHANGED <<vol, maybe, db, jrn, history>>

SetStage(leaf, c, s) == [leaf EXCEPT !.stage[c] = s]

\* The canonical name decides: exact is finished, absent is published, different refused.
publish_immutable_boot_file ==
    /\ At("classify")
    /\ LET canonical == assess(Leaf, Want)
           private == vol[Leaf].stage[Want]
       IN CASE canonical = "Exact" /\ private = "none" -> Go("finish") /\ UNCHANGED <<vol, maybe>>
            [] canonical = "Absent" /\ private = "full" -> Go("private") /\ UNCHANGED <<vol, maybe>>
            [] canonical = "Absent" /\ private = "none" ->
                 /\ Change(Leaf, LAMBDA d : SetStage(d, Want, "part"))
                 /\ Go("stream")
            [] OTHER -> Refuse
    /\ UNCHANGED <<dir, db, jrn, history>>

\* An output that is already exact is made durable all the same.
finish_existing ==
    /\ At("finish")
    /\ IF assess(Leaf, Want) = "Exact" /\ op.acts[Leaf] # "PublishDesired"
       THEN SyncVolume /\ Published
       ELSE Refuse
    /\ UNCHANGED <<dir, db, jrn, history>>

stream_expected_source ==
    /\ At("stream")
    /\ Change(Leaf, LAMBDA d : IF d.stage[Want] = "part" THEN SetStage(d, Want, "full") ELSE d)
    /\ Go("private")
    /\ UNCHANGED <<dir, db, jrn, history>>

publish_absent ==
    /\ At("private")
    /\ IF vol[Leaf].file = None THEN SyncStage(Leaf, Want) /\ Go("move") ELSE Refuse
    /\ UNCHANGED <<dir, db, jrn, history>>

StageToCanonical(leaf, c) ==
    CASE leaf.stage[c] = "none" -> leaf
      [] OTHER -> [leaf EXCEPT !.file = File(IF leaf.stage[c] = "full" THEN c ELSE "part", "cast"),
                               !.stage[c] = "none"]

renameat2_noreplace ==
    /\ At("move")
    /\ IF vol[Leaf].file = None
       THEN Change(Leaf, LAMBDA d : StageToCanonical(d, Want)) /\ Go("suffix")
       ELSE Refuse
    /\ UNCHANGED <<dir, db, jrn, history>>

\* Mutant: the last output is left to the file system's own write-back.
durability_suffix_last ==
    /\ At("suffix")
    /\ IF assess(Leaf, Want) = "Exact"
       THEN Published /\ IF Len(op.todo) = 1 THEN UNCHANGED <<vol, maybe>> ELSE SyncVolume
       ELSE Refuse
    /\ UNCHANGED <<dir, db, jrn, history>>
durability_suffix ==
    /\ At("suffix")
    /\ IF assess(Leaf, Want) = "Exact" THEN SyncVolume /\ Published ELSE Refuse
    /\ UNCHANGED <<dir, db, jrn, history>>

-----------------------------------------------------------------------------
(* Replacing an owned output: the new content is written beside it, made   *)
(* durable, and the two names are exchanged.                               *)

Pair(p1, canonical, sidecar) == Holds(vol[p1].file, canonical) /\ Holds(vol[p1].side, sidecar)
SetSide(leaf, f) == [leaf EXCEPT !.side = f]

replace_preflighted_owned_leaf ==
    /\ At("leaf") /\ ~Immutable
    /\ IF /\ assess(Leaf, Want) = "Different"
          /\ Holds(vol[Leaf].file, db.committed[Leaf].c)
          /\ vol[Leaf].side = None
       THEN Change(Leaf, LAMBDA d : SetSide(d, File("part", "cast"))) /\ Go("sidestream")
       ELSE Refuse
    /\ UNCHANGED <<dir, db, jrn, history>>

stream_replacement ==
    /\ At("sidestream")
    /\ Change(Leaf, LAMBDA d : IF d.side = None THEN d ELSE SetSide(d, File(Want, "cast")))
    /\ Go("sidesync")
    /\ UNCHANGED <<dir, db, jrn, history>>

replace_exact_boot_file ==
    /\ At("sidesync")
    /\ IF Pair(Leaf, db.committed[Leaf].c, Want) THEN SyncVolume /\ Go("exchange") ELSE Refuse
    /\ UNCHANGED <<dir, db, jrn, history>>

Exchanged(leaf) ==
    IF None \in {leaf.file, leaf.side} THEN leaf ELSE [leaf EXCEPT !.file = leaf.side, !.side = leaf.file]

\* Mutant: the sidecar is renamed over the output instead of exchanged with it.
exchange_once_overwriting ==
    /\ At("exchange")
    /\ IF vol[Leaf].file # None
       THEN Change(Leaf, LAMBDA d : [d EXCEPT !.file = d.side, !.side = None]) /\ Go("applied")
       ELSE Refuse
    /\ UNCHANGED <<dir, db, jrn, history>>
exchange_once ==
    /\ At("exchange")
    /\ IF vol[Leaf].file # None THEN Change(Leaf, Exchanged) /\ Go("applied") ELSE Refuse
    /\ UNCHANGED <<dir, db, jrn, history>>

synchronize_applied ==
    /\ At("applied")
    /\ IF Pair(Leaf, Want, db.committed[Leaf].c) THEN SyncVolume /\ Published ELSE Refuse
    /\ UNCHANGED <<dir, db, jrn, history>>

-----------------------------------------------------------------------------
(* Promotion: the pending receipt becomes the committed one.  The whole   *)
(* terminal evidence is read leaf by leaf, twice before the promotion and  *)
(* twice after it; nothing holds between a reading and what follows it.    *)

StaleOwned(old, new) == {p1 \in DOMAIN Out(old) \ DOMAIN Out(new) : Owned(old, p1)}
Displaced == {p1 \in DOMAIN op.want : op.acts[p1] = "ReplaceOwnedDesired"}

\* The sidecars of the replaced outputs first, then what only the predecessor owned.
CleanupSchedule(replaced, old, new) == InOrder(replaced) \o InOrder(StaleOwned(old, new))

\* The rounds of evidence, by their checkpoint names: "initial terminal admission", "immediate
\* pre-promotion", the two after the promotion, the first and the last of the cleanup, and the
\* two before the completion is recorded.  The first four also read the replaced pairs.
AfterRound ==
    [admission |-> "admission pairs", immediate |-> "immediate pairs", promoted |-> "promoted pairs",
     reread |-> "reread pairs", admitted |-> "clean", final |-> "handoff", handoff |-> "ready",
     ready |-> "persist"]
      @@ ("admission pairs" :> "immediate" @@ "immediate pairs" :> "promote"
            @@ "promoted pairs" :> "reread" @@ "reread pairs" :> "admitted")

PairRounds == {"admission pairs", "immediate pairs", "promoted pairs", "reread pairs"}

Predecessor == IF db.pending # None THEN db.committed ELSE db.before

\* Every output is assessed anew; then every replaced one must still have the predecessor's
\* bytes beside it.
validate_exact_terminal_evidence ==
    /\ op.step \in DOMAIN AfterRound /\ op.todo # <<>>
    /\ op' = IF IF op.step \in PairRounds THEN Pair(Leaf, Want, Predecessor[Leaf].c)
                                           ELSE assess(Leaf, Want) = "Exact"
             THEN [op EXCEPT !.todo = Tail(@)] ELSE Idle
    /\ UNCHANGED <<vol, maybe, dir, db, jrn, history>>

RoundOf(step) ==
    CASE step \in PairRounds -> InOrder(Displaced)
      [] step = "clean" -> CleanupSchedule(Displaced, db.before, db.committed)
      [] step \in {"promote", "persist"} -> <<>>
      [] OTHER -> InOrder(DOMAIN op.want)

\* A round has read all it reads: the receipt is compared again and the next step begins.
revalidate_against ==
    /\ op.step \in DOMAIN AfterRound /\ op.todo = <<>>
    /\ LET next == IF AfterRound[op.step] = "clean" /\ RoundOf("clean") = <<>>
                   THEN "handoff" ELSE AfterRound[op.step]
       IN op' = [op EXCEPT !.todo = RoundOf(next), !.step = next]
    /\ UNCHANGED <<vol, maybe, dir, db, jrn, history>>

promote_terminal_receipt ==
    /\ At("promote")
    /\ db' = [committed |-> db.pending, before |-> db.committed, pending |-> None]
    /\ op' = [op EXCEPT !.todo = InOrder(DOMAIN op.want), !.step = "promoted"]
    /\ UNCHANGED <<vol, maybe, dir, jrn, history>>

-----------------------------------------------------------------------------
(* Cleanup of what only the predecessor receipt owned.  Every entry is     *)
(* first reconciled with the volume, live and after a restart alike.       *)

Old == db.before[Leaf].c
New == db.committed[Leaf].c
Replaced == Leaf \in DOMAIN db.committed
Cleaned ==
    IF op.live THEN NextLeaf("clean", "final", InOrder(DOMAIN op.want)) ELSE NextLeaf("clean", "persist", <<>>)

reconcile_sidecar ==
    /\ At("clean") /\ Replaced
    /\ CASE Holds(vol[Leaf].file, New) /\ vol[Leaf].side = None ->
              SyncVolume /\ Cleaned
         [] Pair(Leaf, New, Old) -> SyncVolume /\ Go("unlink_side")
         [] OTHER -> Refuse
    /\ UNCHANGED <<dir, db, jrn, history>>

cleanup_sidecar ==
    /\ At("unlink_side")
    /\ Change(Leaf, LAMBDA d : SetSide(d, None))
    /\ Go("cleaned")
    /\ UNCHANGED <<dir, db, jrn, history>>

reconcile_stale_boot_file_cleanup ==
    /\ At("clean") /\ ~Replaced
    /\ LET leaf == vol[Leaf] IN
       CASE Holds(leaf.file, Old) /\ leaf.stale = None -> SyncVolume /\ Go("detach")
         [] leaf.file = None /\ Holds(leaf.stale, Old) -> SyncVolume /\ Go("unlink_stale")
         [] leaf.file = None /\ leaf.stale = None -> SyncVolume /\ Cleaned
         [] OTHER -> Refuse
    /\ UNCHANGED <<dir, db, jrn, history>>

\* The canonical name is moved aside first: what is removed is what was verified.
detach_once ==
    /\ At("detach")
    /\ IF vol[Leaf].file # None
       THEN /\ Change(Leaf, LAMBDA d : [d EXCEPT !.stale = d.file, !.file = None])
            /\ Go("detached")
       ELSE Refuse
    /\ UNCHANGED <<dir, db, jrn, history>>

verify_detached ==
    /\ At("detached")
    /\ IF vol[Leaf].file = None /\ Holds(vol[Leaf].stale, Old)
       THEN SyncVolume /\ Go("unlink_stale")
       ELSE Refuse
    /\ UNCHANGED <<dir, db, jrn, history>>

unlink_once ==
    /\ At("unlink_stale")
    /\ Change(Leaf, LAMBDA d : [d EXCEPT !.stale = None])
    /\ Go("cleaned")
    /\ UNCHANGED <<dir, db, jrn, history>>

\* The private name is gone, and so is the canonical one of a stale output.
require_cleaned ==
    /\ At("cleaned")
    /\ IF IF Replaced THEN Holds(vol[Leaf].file, New) ELSE vol[Leaf].file = None
       THEN SyncVolume /\ Cleaned
       ELSE Refuse
    /\ UNCHANGED <<dir, db, jrn, history>>

\* BootSyncComplete.  The live path has repeated its terminal evidence.
persist_boot_sync_complete ==
    /\ At("persist")
    /\ jrn' = "none"
    /\ op' = Idle
    /\ UNCHANGED <<vol, maybe, dir, db, history>>

-----------------------------------------------------------------------------
(* Startup at BootSyncStarted.                                             *)

\* What the receipts alone say of one output of the predecessor.
classify_predecessor_output(p1) ==
    LET old == db.before[p1]
        new == db.committed[p1]
        owned == Owned(db.before, p1)
    IN CASE p1 \notin DOMAIN db.committed -> IF owned THEN "DeleteOwnedStale" ELSE "PreserveUnownedStale"
         [] old.c = new.c ->
              IF new.claim = (IF owned THEN "ClaimedPublishedByCast" ELSE "BorrowedFirstAdoption")
              THEN "NoOp" ELSE "RetainedProvenanceMismatch"
         [] OTHER ->
              IF ~owned THEN "BorrowedReplacement"
              ELSE IF new.claim = "ClaimedPublishedByCast" THEN "ReplaceOwned"
              ELSE "ReplacementProvenanceMismatch"

require_current_only_provenance ==
    \A p1 \in DOMAIN db.committed \ DOMAIN Out(db.before) :
        db.committed[p1].claim # "ClaimedPublishedByCast"

Dispositions == [p1 \in DOMAIN Out(db.before) |-> classify_predecessor_output(p1)]

prepare_active_reblit_promoted_boot_cleanup_plan ==
    /\ require_current_only_provenance
    /\ \A p1 \in DOMAIN Dispositions :
          Dispositions[p1] \in {"NoOp", "ReplaceOwned", "DeleteOwnedStale", "PreserveUnownedStale"}

\* A receipt still pending leaves the checkpoint to the rollback, which ends unverified.
rollback_eligible ==
    /\ op = Idle /\ jrn = "started" /\ db.pending # None
    /\ jrn' = "unverified"
    /\ UNCHANGED <<vol, maybe, dir, db, op, history>>

recover_promoted_cleanup_and_complete ==
    LET todo == InOrder({p1 \in DOMAIN Dispositions : Dispositions[p1] \in {"ReplaceOwned", "DeleteOwnedStale"}})
    IN /\ op = Idle /\ jrn = "started" /\ db.pending = None
       /\ prepare_active_reblit_promoted_boot_cleanup_plan
       /\ op' = [step |-> IF todo = <<>> THEN "persist" ELSE "clean", todo |-> todo, live |-> FALSE]
       /\ UNCHANGED <<vol, maybe, dir, db, jrn, history>>

\* The receipts do not form a plan: startup fails, now and every time.
require_exact_cleanup_plan ==
    /\ op = Idle /\ jrn = "started" /\ db.pending = None
    /\ ~prepare_active_reblit_promoted_boot_cleanup_plan
    /\ op' = [step |-> "refused"]
    /\ UNCHANGED <<vol, maybe, dir, db, jrn, history>>

-----------------------------------------------------------------------------
(* Somebody else, and the ends a process can come to.                      *)

Outside(p1, f) ==
    /\ used.outside < MaxOutside
    /\ f # None => dir # "absent"
    /\ vol[p1].file # f
    /\ vol' = [vol EXCEPT ![p1].file = f]
    /\ maybe' = [maybe EXCEPT ![p1] = {[d EXCEPT !.file = f] : d \in @}]
    /\ touched' = touched \cup {p1}
    /\ there' = IF f # None THEN there \cup {p1}
                ELSE IF \E d \in maybe[p1] : d.file # None /\ d.file.by = "other" THEN there \ {p1} ELSE there
    /\ used' = [used EXCEPT !.outside = @ + 1]
    /\ UNCHANGED <<dir, db, jrn, op, base>>

\* An error ends the attempt exactly as a kill does: nothing is undone.
Stop ==
    /\ op.step \notin {"idle", "refused"} /\ used.stops < MaxStops
    /\ used' = [used EXCEPT !.stops = @ + 1]
    /\ op' = Idle
    /\ UNCHANGED <<vol, maybe, dir, db, jrn, base, touched, there>>

PowerLoss ==
    /\ used.stops < MaxStops
    /\ used' = [used EXCEPT !.stops = @ + 1]
    /\ vol' \in {v \in [Paths -> UNION {maybe[p1] : p1 \in Paths}] : \A p1 \in Paths : v[p1] \in maybe[p1]}
    /\ maybe' = [p1 \in Paths |-> {vol'[p1]}]
    /\ dir' = IF dir = "made" THEN "absent" ELSE dir
    /\ op' = Idle
    /\ UNCHANGED <<db, jrn, base, touched, there>>

Publish ==
    \/ publish_from_staged_authority
    \/ publish_preflighted_immutable_leaf
    \/ retain_boot_publication_parent
    \/ sync_chain
    \/ publish_immutable_boot_file
    \/ finish_existing
    \/ stream_expected_source
    \/ publish_absent
    \/ renameat2_noreplace
    \/ durability_suffix
    \/ replace_preflighted_owned_leaf
    \/ stream_replacement
    \/ replace_exact_boot_file
    \/ exchange_once
    \/ synchronize_applied
    \/ validate_exact_terminal_evidence
    \/ revalidate_against
    \/ promote_terminal_receipt

Clean ==
    \/ reconcile_sidecar
    \/ cleanup_sidecar
    \/ reconcile_stale_boot_file_cleanup
    \/ detach_once
    \/ verify_detached
    \/ unlink_once
    \/ require_cleaned
    \/ persist_boot_sync_complete

Startup ==
    \/ rollback_eligible
    \/ recover_promoted_cleanup_and_complete
    \/ require_exact_cleanup_plan

FilesNext ==
    \/ \E want \in Wanted : stage_active_reblit_boot_sync(want)
    \/ Publish
    \/ Clean
    \/ Startup
    \/ \E p1 \in Paths, f \in {None, File("x", "other")} : Outside(p1, f)
    \/ Stop
    \/ PowerLoss

-----------------------------------------------------------------------------
(* What must hold.                                                         *)

Pending == jrn # "none" /\ db.pending # None

\* A file that is not Cast's, found on the volume or put there meanwhile, survives every
\* publication, replacement and cleanup, under one of the leaf's names, power failures included.
ForeignSurvives == subject = "files" =>
    (\A p1 \in there : \A d \in maybe[p1] :
        \E f \in {d.file, d.side, d.stale} : f # None /\ f.by = "other")

\* Until the receipt is promoted, what a canonical name held when it was staged is still on the
\* volume, under that name or as the sidecar, whatever a power failure takes.
PredecessorKept == subject = "files" =>
    (Pending => \A p1 \in Paths \ touched : \A d \in maybe[p1] :
        base[p1] # None => base[p1] \in {d.file, d.side})

\* A canonical name is never partly written, and one that existed at staging holds either the
\* old or the new content at every instant of the attempt.
CanonicalIsWhole == subject = "files" =>
    (\A p1 \in Paths : \A d \in maybe[p1] :
        /\ ~Holds(d.file, "part")
        /\ Pending /\ p1 \notin touched /\ base[p1] # None =>
              d.file = base[p1] \/ (p1 \in DOMAIN db.pending /\ Holds(d.file, db.pending[p1].c)))

\* No power failure leaves a new output without the outputs published before it: an entry never
\* appears without its payload.
EntryAfterPayload == subject = "files" =>
    (Pending => \A j \in 1..Len(Plan) : \A i \in 1..(j - 1) :
        LET p1 == Plan[i]
            e == Plan[j]
        IN {p1, e} \subseteq DOMAIN db.pending \ touched =>
             \/ \A d \in maybe[e] : d.file = base[e]
             \/ dir = "durable" /\ \A d \in maybe[p1] : Holds(d.file, db.pending[p1].c))

Promotes == db'.committed # db.committed

\* The promotion reads nothing of the volume itself, and others may change it after the last
\* evidence.  When a receipt is promoted, every output it records that nobody else changed since
\* the receipt was staged is exact in every image a power failure may leave, its directory
\* included, and so are the predecessor's bytes beside a replaced one
\* (promote_terminal_receipt).
PromotedIsDurable ==
    [][subject = "files" =>
       (Promotes => /\ db'.committed # <<>> => dir = "durable"
                    /\ \A p1 \in DOMAIN db'.committed \ touched : \A d \in maybe[p1] :
                          /\ Holds(d.file, db'.committed[p1].c)
                          /\ op.acts[p1] = "ReplaceOwnedDesired" => d.side = base[p1])]_PublicationVars

\* BootSyncComplete is recorded only when no sidecar or stale name is left and every stale owned
\* output is gone, in every image a power failure may leave.
CompleteIsClean ==
    [][subject = "files" =>
       (jrn = "started" /\ jrn' = "none" =>
          \A p1 \in Paths : \A d \in maybe[p1] :
             /\ d.side = None /\ d.stale = None
             /\ p1 \in StaleOwned(db.before, db.committed) \ touched => d.file = None)]_PublicationVars

\* Somebody else replaced, or removed, an output the cleanup has to find as the receipts say.
Disturbed ==
    \E p1 \in DOMAIN Out(db.before) :
        \/ \E f \in {vol[p1].file, vol[p1].stale, vol[p1].side} : f # None /\ f.by = "other"
        \/ p1 \in DOMAIN db.committed /\ vol[p1].file = None

\* A promoted attempt is finished, by the process itself or by later startups, unless an output
\* it has to clean up was disturbed or the receipts do not form a cleanup plan.
RestartConverges == (subject = "files" /\ (jrn = "started" /\ db.pending = None)) ~> (subject = "files" => (jrn = "none" \/ Disturbed \/ op.step = "refused"))

-----------------------------------------------------------------------------
(***************************************************************************)
(* The live end of a reblit, from the record of the finished system        *)
(* triggers to the deleted journal: the receipt is staged, the outputs are *)
(* published, the receipt is promoted, the leftovers are cleaned, and the  *)
(* record goes through BootSyncStarted, BootSyncComplete, CommitDecided,   *)
(* CommitCleanupComplete and Complete.  Each operation is a straight line  *)
(* of checks around one effect.  A check compares the bound record, the    *)
(* receipt and, in the evidence, every output behind a revalidated target. *)
(* A step is <<what it does, its argument, what its failure reports>>:     *)
(* "plain" says nothing of the journal, "reconcile" reads the record back, *)
(* and a phase is named by the error itself.                               *)
(* The files of one output, and what a cleanup removes, are the first part *)
(* of this module; what a later startup does is in Recovery and Activation.*)
(***************************************************************************)

ASSUME OutputsAssumption == CommitOutputs \in Seq(STRING)

Phases == <<"SystemTriggersComplete", "BootSyncStarted", "BootSyncComplete", "CommitDecided", "CommitCleanupComplete", "Complete", "gone">>
Position(phase) == SelectInSeq(Phases, LAMBDA x : x = phase)
Reached(phase) == Position(journal.phase) >= Position(phase)
States == {"absent", "old", "exact", "other"}
Planned == ToSet(CommitOutputs)

-----------------------------------------------------------------------------
(* The programs. *)
Failing(how, steps) == [i \in 1..Len(steps) |-> <<steps[i][1], steps[i][2], how>>]

(* prepare_boot_publication_preflight: the targets, every output, the targets. *)
preflight(tag) == <<<<"targets", tag>>>> \o [i \in 1..Len(CommitOutputs) |-> <<"assess", <<tag, CommitOutputs[i]>>>>] \o <<<<"targets", tag>>>>

validate_exact_terminal_evidence_snapshot(tag) == <<<<"deadline", tag>>>> \o preflight(tag) \o <<<<"deadline", tag>>>>

(* The evidence between two revalidations of the bound record. *)
sandwich(stage) == <<<<"require", stage>>>> \o validate_exact_terminal_evidence_snapshot("exact") \o <<<<"require", stage>>>>
validate_completion_handoff == sandwich("promoted")
validate_completed_terminal_sandwich == sandwich("BootSyncComplete")
validate_committed_terminal_sandwich == sandwich("CommitDecided")
validate_cleanup_complete_terminal_sandwich == sandwich("CommitCleanupComplete")
validate_complete_terminal_sandwich == sandwich("Complete")

stage_active_reblit_boot_sync_from_handoff ==
    Failing("plain", <<<<"client", "handoff">>, <<"require", "predecessor">>>> \o preflight("stage") \o
        <<<<"stage", "receipt">>, <<"require", "rederive">>>>)
    \o Failing("reconcile", <<<<"advance", "BootSyncStarted">>, <<"require", "staged">>>>)

commit_publish_from_staged_authority ==
    Failing("plain", <<<<"require", "staged">>>> \o preflight("delta") \o <<<<"schedule", "sealed">>, <<"require", "staged">>, <<"deadline", "effect">>>> \o
        [i \in 1..Len(CommitOutputs) |-> <<"write", CommitOutputs[i]>>] \o preflight("exact") \o <<<<"require", "staged">>>>)

commit_promote_terminal_receipt ==
    Failing("plain", <<<<"require", "staged">>>> \o validate_exact_terminal_evidence_snapshot("exact") \o
        validate_exact_terminal_evidence_snapshot("exact") \o <<<<"require", "staged">>, <<"deadline", "promotion">>, <<"promote", "receipt">>>>)
    \o Failing("promoted", validate_exact_terminal_evidence_snapshot("exact") \o <<<<"require", "promoted">>>> \o
        validate_exact_terminal_evidence_snapshot("exact") \o <<<<"require", "promoted">>>>)

(* Nothing is removed beside an output that was not replaced. *)
cleanup_promoted_outputs ==
    Failing("plain", <<<<"require", "promoted">>>> \o validate_exact_terminal_evidence_snapshot("exact") \o
        FlattenSeq([i \in 1..Len(CommitOutputs) |-> <<<<"require", "promoted">>, <<"clean", CommitOutputs[i]>>, <<"require", "promoted">>>>]) \o
        validate_exact_terminal_evidence_snapshot("exact") \o <<<<"require", "promoted">>>>)

(* The staged half: admission twice, the advance, and the reopened record. *)
finish_successful_completion_advance == <<<<"require", "BootSyncComplete">>, <<"reopen", "BootSyncComplete">>>>
staged_persist_boot_sync_complete ==
    Failing("plain", <<<<"require", "promoted">>, <<"require", "promoted">>>>)
    \o Failing("reconcile", <<<<"advance", "BootSyncComplete">>>> \o finish_successful_completion_advance)

commit_persist_boot_sync_complete ==
    Failing("plain", validate_completion_handoff \o validate_completion_handoff \o <<<<"deadline", "persistence">>>>)
    \o staged_persist_boot_sync_complete
    \o Failing("reconcile", validate_completed_terminal_sandwich \o validate_completed_terminal_sandwich)

(* The last evidence is taken inside the advance that decides. *)
completed_persist_commit_decided ==
    Failing("plain", <<<<"require", "BootSyncComplete">>>> \o validate_exact_terminal_evidence_snapshot("final") \o <<<<"require", "BootSyncComplete">>>>)
    \o Failing("reconcile", <<<<"advance", "CommitDecided">>, <<"reopen", "CommitDecided">>>>)
    \o Failing("CommitDecided", <<<<"require", "CommitDecided">>>>)

persist_commit_decided ==
    Failing("plain", <<<<"require", "BootSyncComplete">>>> \o validate_completed_terminal_sandwich \o validate_completed_terminal_sandwich)
    \o completed_persist_commit_decided
    \o Failing("CommitDecided", validate_committed_terminal_sandwich)

committed_persist_commit_cleanup_complete ==
    Failing("plain", <<<<"require", "CommitDecided">>, <<"effect", "tree">>>>)
    \o Failing("reconcile", <<<<"advance", "CommitCleanupComplete">>, <<"reopen", "CommitCleanupComplete">>>>)
    \o Failing("CommitCleanupComplete", <<<<"require", "CommitCleanupComplete">>>>)

persist_commit_cleanup_complete ==
    Failing("plain", <<<<"require", "CommitDecided">>>> \o validate_committed_terminal_sandwich)
    \o committed_persist_commit_cleanup_complete
    \o Failing("CommitCleanupComplete", validate_cleanup_complete_terminal_sandwich)

cleaned_persist_complete ==
    Failing("plain", <<<<"require", "CommitCleanupComplete">>>>)
    \o Failing("reconcile", <<<<"advance", "Complete">>, <<"reopen", "Complete">>>>)
    \o Failing("Complete", <<<<"require", "Complete">>>>)

persist_complete ==
    Failing("plain", <<<<"require", "CommitCleanupComplete">>>> \o validate_cleanup_complete_terminal_sandwich)
    \o cleaned_persist_complete
    \o Failing("Complete", validate_complete_terminal_sandwich)

completed_finalize ==
    Failing("plain", <<<<"require", "Complete">>>>)
    \o Failing("reconcile", <<<<"delete", "record">>>>)
    \o Failing("gone", <<<<"require", "gone">>>>)

finalize == Failing("plain", <<<<"require", "Complete">>>>) \o completed_finalize \o Failing("gone", <<<<"require", "gone">>>>)

Operations == <<"stage", "publish", "promote", "clean", "complete", "decide", "cleanup", "finish", "finalize">>
Chain ==
    [o \in ToSet(Operations) |->
        CASE o = "stage" -> stage_active_reblit_boot_sync_from_handoff
          [] o = "publish" -> commit_publish_from_staged_authority
          [] o = "promote" -> commit_promote_terminal_receipt
          [] o = "clean" -> cleanup_promoted_outputs
          [] o = "complete" -> commit_persist_boot_sync_complete
          [] o = "decide" -> persist_commit_decided
          [] o = "cleanup" -> persist_commit_cleanup_complete
          [] o = "finish" -> persist_complete
          [] o = "finalize" -> finalize]

Begin(k, r) == [r EXCEPT !.op = k, !.todo = Chain[Operations[k]], !.began = journal.phase]
Done == [op |-> 0, todo |-> <<>>, began |-> "none", bound |-> 0, target |-> 0, delta |-> [o \in Planned |-> "absent"]]
Nothing == [kind |-> "none", phase |-> "none", receipt |-> "none", op |-> 0]

CommitTypeOK ==
    /\ operation \in {"ActiveReblit", "NewState", "ActivateArchived"}
    /\ journal.phase \in ToSet(Phases) /\ journal.file \in 0..(MaxCommitOutside + Len(Phases))
    /\ receipt \in {"none", "pending", "promoted"}
    /\ boot \in [Planned -> States] /\ displaced \subseteq Planned /\ late \subseteq Planned
    /\ mount \in 0..MaxCommitOutside /\ tree \in {"staged", "preserved"}
    /\ p.op \in 0..Len(Operations) /\ p.delta \in [Planned -> States]
    /\ report.kind \in {"none", "ok", "plain", "unknown", "durable"}
    /\ spent.faults \in 0..MaxFaults /\ spent.outside \in 0..MaxCommitOutside

CommitInit ==
    /\ operation \in {"ActiveReblit", "NewState", "ActivateArchived"}
    /\ journal = [phase |-> "SystemTriggersComplete", file |-> 0]
    /\ receipt = "none"
    /\ boot \in [Planned -> {"absent", "old", "exact"}]
    /\ displaced = {} /\ late = {} /\ mount = 0 /\ tree = "staged"
    /\ p = [Done EXCEPT !.op = 1, !.todo = Chain["stage"], !.began = "SystemTriggersComplete"]
    /\ report = Nothing
    /\ spent = [faults |-> 0, outside |-> 0]

-----------------------------------------------------------------------------
CommitAt(act) == p.todo # <<>> /\ p.todo[1][1] = act
Arg == p.todo[1][2]
Fault == spent.faults < MaxFaults /\ spent' = [spent EXCEPT !.faults = @ + 1]
NoFault == UNCHANGED spent
World == <<operation, journal, receipt, boot, displaced, mount, tree>>

(* The next step, the next operation, or the end of the chain. *)
CommitGo(r) ==
    CASE Len(p.todo) > 1 -> p' = [r EXCEPT !.todo = Tail(@)] /\ UNCHANGED report
      [] Len(p.todo) = 1 /\ p.op < Len(Operations) -> p' = Begin(p.op + 1, r) /\ UNCHANGED report
      [] OTHER -> p' = Done /\ report' = [Nothing EXCEPT !.kind = "ok", !.op = p.op]

Return(kind, phase, rec) == p' = Done /\ report' = [kind |-> kind, phase |-> phase, receipt |-> rec, op |-> p.op, began |-> p.began]

Fail ==
    LET how == p.todo[1][3]
    IN  CASE how = "plain" -> Return("plain", "none", "none")
          [] how = "promoted" -> Return("plain", "none", "promoted")
          [] how = "reconcile" -> p' = [p EXCEPT !.todo = <<<<"reconcile", "journal", "plain">>>>] /\ UNCHANGED report
          [] OTHER -> Return("durable", how, "none")

Check(act, holds) ==
    /\ CommitAt(act)
    /\ \/ holds /\ CommitGo(p) /\ NoFault
       \/ ~holds /\ Fail /\ NoFault
       \/ holds /\ Fail /\ Fault
    /\ UNCHANGED <<World, late>>

\* Mutant: a handoff of another operation is asked for again.
require_active_reblit_predecessor_again ==
    IF CommitAt("client") /\ operation # "ActiveReblit" THEN p' = Begin(1, p) /\ NoFault /\ UNCHANGED <<World, late, report>>
    ELSE Check("client", operation = "ActiveReblit")
(* The handoff may be of any operation; only a reblit is staged. *)
require_active_reblit_predecessor == Check("client", operation = "ActiveReblit")

(* The receipt state each stage re-reads. *)
Required(stage) ==
    CASE stage = "predecessor" -> TRUE
      [] stage \in {"rederive", "staged"} -> receipt = "pending"
      [] OTHER -> receipt = "promoted"

PhaseOf(stage) ==
    CASE stage \in {"predecessor", "rederive"} -> "SystemTriggersComplete"
      [] stage \in {"staged", "promoted"} -> "BootSyncStarted"
      [] OTHER -> stage

(* The record binding, the record and the receipt, for one stage. *)
Revalidate(stage) == CommitAt("require") /\ Arg = stage /\ Check("require", Required(stage) /\ journal.phase = PhaseOf(stage) /\ journal.file = p.bound)
require_predecessor_binding == Revalidate("predecessor")
require_exact_receipt_state == Revalidate("rederive")
validate_staged_successor == Revalidate("staged")
revalidate_promoted_against == Revalidate("promoted")
validate_completed_successor == Revalidate("BootSyncComplete")
committed_revalidate_against == Revalidate("CommitDecided")
cleaned_revalidate_against == Revalidate("CommitCleanupComplete")
complete_revalidate_against == Revalidate("Complete")
finalized_revalidate_against == Revalidate("gone")

require_deadline == Check("deadline", TRUE)

(* Each output's action fits the state it was assessed in; no action fits the
   state of a file that is neither the installed nor the desired one. *)
prepare_execution_schedule == Check("schedule", \A o \in Planned : p.delta[o] \in {"absent", "old", "exact"})

require_same_target_set == Check("targets", mount = p.target)

(* A delta must classify as it was staged; evidence must be exact. *)
Assessed(tag, o) == IF tag \in {"exact", "final"} THEN boot[o] = "exact" ELSE boot[o] = p.delta[o]

assess_bound_namespaces ==
    /\ CommitAt("assess")
    /\ LET tag == Arg[1]
           o == Arg[2]
       IN  \/ tag = "stage" /\ boot[o] # "other" /\ CommitGo([p EXCEPT !.delta[o] = boot[o]]) /\ NoFault
           \/ tag = "stage" /\ boot[o] = "other" /\ Fail /\ NoFault
           \/ tag # "stage" /\ Assessed(tag, o) /\ CommitGo(p) /\ NoFault
           \/ tag # "stage" /\ ~Assessed(tag, o) /\ Fail /\ NoFault
           \/ Fail /\ Fault
    /\ UNCHANGED <<World, late>>

(* stage_boot_publication_receipt. *)
stage_boot_publication_receipt ==
    /\ CommitAt("stage")
    /\ \/ receipt' = "pending" /\ CommitGo(p) /\ NoFault
       \/ receipt' \in {"none", "pending"} /\ Fail /\ Fault
    /\ UNCHANGED <<operation, journal, boot, displaced, mount, tree, late>>

(* The bytes an owned output is replaced over are kept beside it. *)
Displace(o) == IF p.delta[o] = "old" THEN displaced \cup {o} ELSE displaced

(* publish_preflighted_immutable_leaf or replace_preflighted_owned_leaf, by the
   state the schedule was sealed with. *)
publish_scheduled_output ==
    /\ CommitAt("write")
    /\ LET o == Arg
       IN  \/ boot[o] # p.delta[o] /\ Fail /\ NoFault /\ UNCHANGED <<boot, displaced>>
           \/ boot[o] = p.delta[o] /\ boot' = [boot EXCEPT ![o] = "exact"] /\ displaced' = Displace(o) /\ CommitGo(p) /\ NoFault
           \/ boot[o] = p.delta[o] /\ boot' = [boot EXCEPT ![o] = "exact"] /\ displaced' = Displace(o) /\ Fail /\ Fault
           \/ Fail /\ Fault /\ UNCHANGED <<boot, displaced>>
    /\ UNCHANGED <<operation, journal, receipt, mount, tree, late>>

(* A failed promotion reads the receipt state back. *)
promote_boot_publication_receipt ==
    /\ CommitAt("promote")
    /\ \/ receipt' = "promoted" /\ CommitGo(p) /\ NoFault
       \/ receipt' \in {"pending", "promoted"} /\ Fault /\ (Return("plain", "none", receipt') \/ Return("plain", "none", "none"))
    /\ UNCHANGED <<operation, journal, boot, displaced, mount, tree, late>>

reconcile_and_cleanup_promoted_outputs ==
    /\ CommitAt("clean")
    /\ \/ displaced' = displaced \ {Arg} /\ CommitGo(p) /\ NoFault
       \/ displaced' \in {displaced, displaced \ {Arg}} /\ Fail /\ Fault
    /\ UNCHANGED <<operation, journal, receipt, boot, mount, tree, late>>

(* The exchange that takes the replaced tree out of staging: what it reports
   is reconciled, and only an applied one is made durable. *)
commit_cleanup_effect ==
    /\ CommitAt("effect")
    /\ \/ tree' = "preserved" /\ CommitGo(p) /\ NoFault
       \/ tree' \in {"staged", "preserved"} /\ Fail /\ Fault
    /\ UNCHANGED <<operation, journal, receipt, boot, displaced, mount, late>>

-----------------------------------------------------------------------------
Written(phase) == [phase |-> phase, file |-> journal.file + 1]

(* advance_record_binding: only the bound file is replaced, and an error may
   come before or after the replacement. *)
advance_record_binding ==
    /\ CommitAt("advance")
    /\ \/ journal.file = p.bound /\ journal' = Written(Arg) /\ CommitGo([p EXCEPT !.bound = journal'.file]) /\ NoFault
       \/ journal.file = p.bound /\ journal' = Written(Arg) /\ Fail /\ Fault
       \/ UNCHANGED journal /\ Fail /\ Fault
       \/ journal.file # p.bound /\ UNCHANGED journal /\ Fail /\ NoFault
    /\ UNCHANGED <<operation, receipt, boot, displaced, mount, tree, late>>

(* The lock is dropped and taken again; the successor is bound afresh. *)
reopen_successor == Check("reopen", journal.phase = Arg /\ journal.file = p.bound /\ receipt = "promoted")

attempt_record_bound_delete ==
    /\ CommitAt("delete")
    /\ \/ journal.file = p.bound /\ journal' = [journal EXCEPT !.phase = "gone"] /\ CommitGo(p) /\ NoFault
       \/ journal.file = p.bound /\ journal' = [journal EXCEPT !.phase = "gone"] /\ Fail /\ Fault
       \/ UNCHANGED journal /\ Fail /\ Fault
       \/ journal.file # p.bound /\ UNCHANGED journal /\ Fail /\ NoFault
    /\ UNCHANGED <<operation, receipt, boot, displaced, mount, tree, late>>

(* The record the reopened journal holds. *)
Durable == journal.phase

(* reconcile_journal and reconcile_completion_journal. *)
reconcile_journal ==
    /\ CommitAt("reconcile")
    /\ \/ NoFault /\ Return("durable", Durable, "none")
       \/ Fault /\ Return("unknown", "none", "none")
    /\ UNCHANGED <<World, late>>

-----------------------------------------------------------------------------
(* Others edit or remove an output, mount over the target, or put another
   copy of the record in its place. *)
InFinal == p.todo # <<>> /\ p.op = 6 /\ (p.todo[1][1] = "advance" \/ (p.todo[1][1] = "assess" /\ Arg[1] = "final")
                                         \/ (p.todo[1][1] \in {"targets", "deadline"} /\ Arg = "final")
                                         \/ (p.todo[1][1] = "require" /\ Len(p.todo) > 1 /\ p.todo[2][1] = "advance"))
CommitOutside ==
    /\ p.todo # <<>> /\ spent.outside < MaxCommitOutside
    /\ spent' = [spent EXCEPT !.outside = @ + 1]
    /\ \/ \E o \in Planned, s \in {"absent", "other"} :
              /\ boot' = [boot EXCEPT ![o] = s] /\ UNCHANGED <<mount, journal>>
              /\ late' = IF InFinal THEN late \cup {o} ELSE late
       \/ mount' = mount + 1 /\ UNCHANGED <<boot, journal, late>>
       \/ journal.phase # "gone" /\ journal' = [journal EXCEPT !.file = @ + 1] /\ UNCHANGED <<boot, mount, late>>
    /\ UNCHANGED <<operation, receipt, displaced, tree, p, report>>

Step ==
    \/ require_active_reblit_predecessor \/ require_predecessor_binding \/ require_exact_receipt_state \/ validate_staged_successor
    \/ revalidate_promoted_against \/ validate_completed_successor \/ committed_revalidate_against \/ cleaned_revalidate_against
    \/ complete_revalidate_against \/ finalized_revalidate_against \/ require_deadline \/ require_same_target_set \/ prepare_execution_schedule
    \/ assess_bound_namespaces \/ stage_boot_publication_receipt \/ publish_scheduled_output
    \/ promote_boot_publication_receipt \/ reconcile_and_cleanup_promoted_outputs \/ commit_cleanup_effect
    \/ advance_record_binding \/ reopen_successor \/ attempt_record_bound_delete \/ reconcile_journal
CommitNext == Step \/ CommitOutside

-----------------------------------------------------------------------------
(* Wherever the chain is cut off, the record and the receipt agree: the
   started record has its receipt, from BootSyncComplete on the receipt is
   promoted, and a pending receipt is never older than its record. *)
ReceiptMatchesRecord == subject = "commit" =>
    /\ journal.phase = "BootSyncStarted" => receipt \in {"pending", "promoted"}
    /\ Reached("BootSyncComplete") => receipt = "promoted"
    /\ receipt = "promoted" => Reached("BootSyncStarted")

(* Old bytes of a replaced output stay beside it until the receipt that
   replaces them is promoted, and are gone, with the replaced tree, before
   the phases that say so. *)
OldBytesKept == subject = "commit" =>
    /\ receipt # "promoted" => \A o \in Planned : p.op \in {2, 3} /\ boot[o] = "exact" /\ p.delta[o] = "old" => o \in displaced
    /\ Reached("BootSyncComplete") => displaced = {}
    /\ Reached("CommitCleanupComplete") => tree = "preserved"

(* persist_commit_decided: when the record becomes CommitDecided every output
   is exact, but for one changed after the validation inside the advance began. *)
DecidedOnExactOutputs ==
    [][subject = "commit" =>
       (journal'.phase = "CommitDecided" /\ journal.phase # "CommitDecided" => \A o \in Planned : boot[o] = "exact" \/ o \in late)]_PublicationVars

(* What an error says is durable is what is durable; one that says nothing
   comes from before the operation's own advance; an answer of success means
   the journal is gone with every promise kept. *)
ReportIsTrue == subject = "commit" =>
    /\ report.kind = "durable" => report.phase = journal.phase
    /\ report.kind = "plain" => journal.phase = report.began
    /\ report.receipt # "none" => report.receipt = receipt
    /\ report.kind = "ok" => journal.phase = "gone" /\ receipt = "promoted" /\ displaced = {} /\ tree = "preserved"

(* The chain returns whatever fails. *)
EveryChainReturns == <>(subject = "commit" => (p.todo = <<>>))

-----------------------------------------------------------------------------
(***************************************************************************)
(* One leaf below the boot volume (forge/src/linux_fs/mount_namespace/     *)
(* attachment/boot_publication_parent.rs and boot_leaf_assessment.rs): the *)
(* parents of a boot output are walked read-only, or retained with the     *)
(* missing ones created and made durable, and the leaf below them is       *)
(* classified Absent, Exact or Different while others use the volume.      *)
(*                                                                         *)
(* Every directory has one name of interest, so a directory is its child.  *)
(* The identity of a directory is its node, its mount and its policy; the  *)
(* read-only walk also compares change times.  The attachment that names   *)
(* the volume itself is MountTable's, and does not move here.              *)
(***************************************************************************)

Directories == {Top} \cup Outer[subject] \cup Inner[subject]
LeafSubjects == {"leaf", "leafmoves"}
BootLeaves == LeafFiles[subject]
Contents == {"want", "edited", "longer"}
ChildrenOf(directory) ==
    IF directory = Top THEN Outer[subject] ELSE IF directory \in Outer[subject] THEN Inner[subject] ELSE BootLeaves

Named(node) == \E directory \in Directories : child[directory] = node

Tree == [child |-> child, safe |-> safe, content |-> content]

LeafIdle == [mode |-> None, todo |-> <<>>, root |-> None, chain |-> <<>>, leaf |-> None, made |-> {},
         observed |-> None, result |-> None]

LeafInit ==
    /\ child \in [Directories -> (Directories \cup BootLeaves \cup {None}) \ {Top}]
    /\ \A directory \in Directories :
         /\ child[directory] \in ChildrenOf(directory) \cup {None}
         /\ child[directory] # None => directory = Top \/ Named(directory)
    /\ safe = Directories
    /\ content \in [BootLeaves -> Contents]
    /\ \A file \in BootLeaves : Named(file) \/ content[file] = "want"
    /\ stamp = [node \in Directories \cup BootLeaves |-> 0]
    /\ unsynced = {}
    /\ moves = 0
    /\ faults = 0
    /\ op = LeafIdle
    /\ seen = {}

-----------------------------------------------------------------------------
(* The programs. *)

\* require_named_chain and require_existing_chain: the root is observed; then,
\* one edge after the other, a retained directory is observed, opened again
\* from its retained parent by name, and what was opened is observed.
ChainCheck(depth) ==
    <<<<"stat", 0>>>> \o FlattenSeq([i \in 1..depth |-> <<<<"stat", i>>, <<"edge", i>>, <<"stat", i>>>>])

descend(depth) == ChainCheck(depth) \o <<<<"open", depth + 1>>, <<"observe", depth + 1>>>>

walk_existing_parents == descend(0) \o descend(1) \o ChainCheck(2)

\* Two rounds; each checks the prefix, the missing edge and the prefix again.
require_missing_edge(depth) ==
    ChainCheck(depth) \o <<<<"missing", depth + 1>>>> \o ChainCheck(depth)

leaf_sync_chain == <<<<"sync", 2>>, <<"sync", 1>>, <<"sync", 0>>, <<"syncfs", 0>>>>

assess_from_retained_parent ==
    ChainCheck(2) \o <<<<"leaf", 0>>, <<"read", 0>>, <<"close", 0>>>>
      \o ChainCheck(2) \o <<<<"terminal", 0>>, <<"current", 0>>>>
      \o ChainCheck(2) \o <<<<"current", 0>>, <<"return", 0>>>>

assess_boot_leaf_below_parent == walk_existing_parents \o assess_from_retained_parent

\* Only the creating retention synchronizes.
leaf_retain_boot_publication_parent(mode) ==
    descend(0) \o descend(1) \o (IF mode = "create" THEN leaf_sync_chain ELSE <<>>)
      \o <<<<"terminal", 0>>>> \o ChainCheck(2)

Program(mode) ==
    CASE mode = "read" -> assess_boot_leaf_below_parent
      [] mode = "create" -> leaf_retain_boot_publication_parent(mode) \o <<<<"return", 0>>>>
      [] mode = "existing" -> leaf_retain_boot_publication_parent(mode) \o assess_from_retained_parent

-----------------------------------------------------------------------------
LeafNoFault == faults' = faults

LeafAt(step) ==
    op.todo # <<>> /\ op.todo[1][1] = step

Index == op.todo[1][2]

ParentOf(i) == IF i = 1 THEN Top ELSE op.chain[i - 1].node

\* What one observation of a directory records; only the read-only walk
\* records change times.
Identity(node) ==
    [node |-> node, safe |-> node \in safe, stamp |-> IF op.mode = "read" THEN stamp[node] ELSE 0]

LeafSnapshot(file) == [file |-> file, stamp |-> stamp[file], length |-> content[file] # "longer"]

LeafGo(changes) ==
    op' = [x \in DOMAIN op |->
             IF x \in DOMAIN changes THEN changes[x]
             ELSE IF x = "todo" THEN Tail(op.todo) ELSE op[x]]

LeafNothing == [x \in {} |-> None]

LeafRefuse(reason) ==
    op' = [LeafIdle EXCEPT !.result = reason]

Disk == <<child, safe, content, stamp, unsynced, moves>>

Settle ==
    seen' = IF op'.todo = <<>> /\ op'.result \notin {"Absent", "Exact", "Different", "retained"}
            THEN {} ELSE seen

Start ==
    /\ op.todo = <<>>
    /\ op.result = None
    /\ \E mode \in {"read", "create", "existing"} :
         op' = [LeafIdle EXCEPT !.mode = mode, !.todo = Program(mode),
                                !.root = IF mode = "read" THEN stamp[Top] ELSE 0]
    /\ UNCHANGED <<child, safe, content, stamp, unsynced, moves, faults, seen>>

\* The name leads to the retained directory now.
rebind_edge ==
    /\ LeafAt("edge")
    /\ IF child[ParentOf(Index)] = op.chain[Index].node THEN LeafGo(LeafNothing) ELSE LeafRefuse("changed")
    /\ LeafNoFault
    /\ Settle
    /\ UNCHANGED Disk

\* The directory still has the identity that was recorded.
require_exact_directory ==
    /\ LeafAt("stat")
    /\ IF IF Index = 0 THEN Identity(Top).stamp = op.root ELSE Identity(op.chain[Index].node) = op.chain[Index]
       THEN LeafGo(LeafNothing) ELSE LeafRefuse("changed")
    /\ LeafNoFault
    /\ Settle
    /\ UNCHANGED Disk

Descended(node) == LeafGo([chain |-> Append(op.chain, [node |-> node, safe |-> TRUE, stamp |-> 0])])

\* An existing component is opened; a missing one ends the read-only walk with
\* the missing edge, is refused by the existing-only retention and created by
\* the other, once its parent is seen to be the retained one.
open_component ==
    /\ LeafAt("open")
    /\ LET found == child[ParentOf(Index)] IN
       IF found # None THEN Descended(found)
       ELSE CASE op.mode = "read" ->
                   LeafGo([todo |-> require_missing_edge(Index - 1) \o <<<<"terminal", 0>>>>
                                  \o require_missing_edge(Index - 1) \o <<<<"return", 0>>>>,
                       observed |-> "Absent"])
              [] op.mode = "existing" -> LeafRefuse("missing")
              [] op.mode = "create" ->
                   LeafGo([todo |-> <<<<"stat", Index - 1>>, <<"mkdir", Index>>, <<"reopen", Index>>>> \o Tail(op.todo)])
    /\ LeafNoFault
    /\ Settle
    /\ UNCHANGED Disk

\* One mkdir, refused where a name is there meanwhile; its report is not believed.
open_or_create_component ==
    /\ LeafAt("mkdir")
    /\ \E applied \in BOOLEAN :
         /\ ~applied => faults < MaxLeafFaults[subject]
         /\ faults' = IF applied THEN faults ELSE faults + 1
         /\ LET parent == ParentOf(Index)
                fresh == {node \in ChildrenOf(parent) : ~Named(node)}
            IN
            IF ~applied \/ child[parent] # None \/ fresh = {}
            THEN LeafGo(LeafNothing) /\ UNCHANGED <<child, safe, stamp, unsynced>>
            ELSE \E node \in fresh :
                   /\ child' = [child EXCEPT ![parent] = node, ![node] = None]
                   /\ safe' = safe \cup {node}
                   /\ stamp' = [stamp EXCEPT ![parent] = @ + 1]
                   /\ unsynced' = unsynced \cup {parent}
                   /\ LeafGo([made |-> op.made \cup {parent}])
    /\ UNCHANGED <<content, moves, seen>>

\* The name is opened again whatever the mkdir reported.
reconcile_creation ==
    /\ LeafAt("reopen")
    /\ LET found == child[ParentOf(Index)] IN IF found # None THEN Descended(found) ELSE LeafRefuse("not applied")
    /\ LeafNoFault
    /\ Settle
    /\ UNCHANGED Disk

\* require_safe_directory_policy and require_root_filesystem of what was opened.
observe_directory ==
    /\ LeafAt("observe")
    /\ LET node == op.chain[Index].node IN
       IF node \in safe THEN LeafGo([chain |-> [op.chain EXCEPT ![Index] = Identity(node)]]) ELSE LeafRefuse("unsafe")
    /\ LeafNoFault
    /\ Settle
    /\ UNCHANGED Disk

\* A readable descriptor is bound to the retained directory and synchronized;
\* the last call synchronizes the whole file system.
synchronize ==
    /\ LeafAt("sync") \/ LeafAt("syncfs")
    /\ IF LeafAt("syncfs")
       THEN unsynced' = {} /\ LeafGo(LeafNothing)
       ELSE IF Index > 0 /\ Identity(op.chain[Index].node) # op.chain[Index]
       THEN UNCHANGED unsynced /\ LeafRefuse("changed")
       ELSE /\ unsynced' = unsynced \ {IF Index = 0 THEN Top ELSE op.chain[Index].node}
            /\ LeafGo(LeafNothing)
    /\ LeafNoFault
    /\ Settle
    /\ UNCHANGED <<child, safe, content, stamp, moves>>

-----------------------------------------------------------------------------
LeafLeaf == child[op.chain[2].node]

\* open_leaf_path: an absent name is an observation, everything else a file
\* of which length and mode are compared first.
observe_leaf ==
    /\ LeafAt("leaf")
    /\ IF LeafLeaf = None
       THEN LeafGo([todo |-> SubSeq(op.todo, 4, Len(op.todo)), observed |-> "Absent"])
       ELSE LeafGo([leaf |-> LeafSnapshot(LeafLeaf)])
    /\ LeafNoFault
    /\ Settle
    /\ UNCHANGED Disk

\* The digests of a complete read: equal only for the wanted bytes.
ExpectedDigests(file) == content[file] = "want"

\* The leaf is opened again by name for reading and must be the same; only a
\* file of the expected length is read.
read_complete_identity ==
    /\ LeafAt("read")
    /\ IF ~op.leaf.length THEN LeafGo([observed |-> "Different"])
       ELSE IF LeafLeaf = None \/ LeafSnapshot(LeafLeaf) # op.leaf THEN LeafRefuse("changed")
       ELSE LeafGo([observed |-> IF ExpectedDigests(LeafLeaf) THEN "Exact" ELSE "Different"])
    /\ LeafNoFault
    /\ Settle
    /\ UNCHANGED Disk

\* The retained descriptors still show what the path showed first.
require_same_snapshot ==
    /\ LeafAt("close")
    /\ IF LeafSnapshot(op.leaf.file) = op.leaf THEN LeafGo(LeafNothing) ELSE LeafRefuse("changed")
    /\ LeafNoFault
    /\ Settle
    /\ UNCHANGED Disk

require_observation_current ==
    /\ LeafAt("current")
    /\ IF (op.leaf = None /\ LeafLeaf = None) \/ (op.leaf # None /\ LeafLeaf # None /\ LeafSnapshot(LeafLeaf) = op.leaf)
       THEN LeafGo(LeafNothing) ELSE LeafRefuse("changed")
    /\ LeafNoFault
    /\ Settle
    /\ UNCHANGED Disk

require_missing ==
    /\ LeafAt("missing")
    /\ IF child[ParentOf(Index)] = None THEN LeafGo(LeafNothing) ELSE LeafRefuse("changed")
    /\ LeafNoFault
    /\ Settle
    /\ UNCHANGED Disk

before_terminal_rebind ==
    /\ LeafAt("terminal")
    /\ LeafGo(LeafNothing)
    /\ seen' = {Tree}
    /\ LeafNoFault
    /\ UNCHANGED Disk

return ==
    /\ LeafAt("return")
    /\ LeafGo([result |-> IF op.observed = None THEN "retained" ELSE op.observed])
    /\ LeafNoFault
    /\ UNCHANGED <<child, safe, content, stamp, unsynced, moves, seen>>

call_fails ==
    /\ op.todo # <<>>
    /\ op.todo[1][1] \notin {"terminal", "return"}
    /\ faults < MaxLeafFaults[subject]
    /\ faults' = faults + 1
    /\ LeafRefuse("failed")
    /\ seen' = {}
    /\ UNCHANGED Disk

-----------------------------------------------------------------------------
Witnessed(c, s, t) ==
    seen' = IF seen = {} THEN {} ELSE seen \cup {[child |-> c, safe |-> s, content |-> t]}

\* Others rename, create or remove an entry, edit a file, or change the owner
\* or the mode of a directory.
LeafOutside ==
    /\ op.todo # <<>>
    /\ moves < MaxLeafMoves[subject]
    /\ moves' = moves + 1
    /\ \/ /\ \E directory \in Directories :
               \E node \in (ChildrenOf(directory) \cup {None}) \ {child[directory]} :
                 /\ node # None => ~Named(node)
                 /\ child' = [child EXCEPT ![directory] = node]
                 /\ stamp' = [stamp EXCEPT ![directory] = @ + 1]
                 /\ unsynced' = unsynced \cup {directory}
          /\ UNCHANGED <<safe, content>>
       \/ /\ \E file \in {f \in BootLeaves : Named(f)} : \E text \in Contents \ {content[file]} :
               /\ content' = [content EXCEPT ![file] = text]
               /\ stamp' = [stamp EXCEPT ![file] = @ + 1]
          /\ UNCHANGED <<child, safe, unsynced>>
       \/ /\ \E directory \in {d \in Directories \ {Top} : Named(d)} :
               /\ safe' = IF directory \in safe THEN safe \ {directory} ELSE safe \cup {directory}
               /\ stamp' = [stamp EXCEPT ![directory] = @ + 1]
          /\ UNCHANGED <<child, content, unsynced>>
    /\ Witnessed(child', safe', content')
    /\ UNCHANGED <<faults, op>>

LeafStep ==
    \/ rebind_edge \/ require_exact_directory \/ open_component \/ open_or_create_component
    \/ reconcile_creation \/ observe_directory \/ synchronize
    \/ observe_leaf \/ read_complete_identity \/ require_same_snapshot
    \/ require_observation_current \/ require_missing \/ before_terminal_rebind \/ return

LeafNext == Start \/ LeafStep \/ call_fails \/ LeafOutside

-----------------------------------------------------------------------------
LeafTypeOK ==
    /\ \A directory \in Directories : child[directory] \in ChildrenOf(directory) \cup {None}
    /\ safe \subseteq Directories
    /\ content \in [BootLeaves -> Contents]
    /\ unsynced \subseteq Directories
    /\ moves \in 0..MaxLeafMoves[subject]
    /\ faults \in 0..MaxLeafFaults[subject]
    /\ Len(op.chain) <= 2
    /\ \A i \in DOMAIN op.chain : op.chain[i].safe
    /\ op.result \in {None, "Absent", "Exact", "Different", "retained", "changed", "unsafe",
                      "missing", "not applied", "failed"}

\* What a directory's name of interest leads to, and what the whole path does.
LeafIn(tree1, directory) ==
    LET leaf == IF directory = None THEN None ELSE tree1.child[directory] IN
    IF leaf = None THEN "Absent" ELSE IF tree1.content[leaf] = "want" THEN "Exact" ELSE "Different"
Truth(tree1) ==
    LET outer == tree1.child[Top] IN LeafIn(tree1, IF outer = None THEN None ELSE tree1.child[outer])

\* Since the terminal checks began, every retained directory was once what its
\* name led to, and once had the policy and mount asked for.
EdgesWereNamed ==
    \A i \in 1..2 :
      /\ \E tree1 \in seen : tree1.child[ParentOf(i)] = op.chain[i].node
      /\ \E tree1 \in seen : op.chain[i].node \in tree1.safe

(* The read-only assessment compares change times, and what it reports was *)
(* the state of the leaf its path led to at one instant after the terminal *)
(* checks began, however often others renamed or edited meanwhile          *)
(* (require_existing_chain, require_missing_edge).  Below a retained       *)
(* parent, whose identity has no times, the report was true of the         *)
(* retained directory at one instant, and each of its edges at some        *)
(* instant, not all at the same one (assess_from_retained_parent_until).   *)
AssessmentWasTrue == subject \in LeafSubjects =>
    (op.result \in {"Absent", "Exact", "Different"} =>
      IF op.mode = "read" THEN \E tree1 \in seen : Truth(tree1) = op.result
      ELSE /\ \E tree1 \in seen : LeafIn(tree1, op.chain[2].node) = op.result
           /\ EdgesWereNamed)

(* Each directory of a retained parent chain was the one its name led to,  *)
(* with the policy and mount asked for, after the chain was made durable;  *)
(* require_named_chain checks edge after edge, so no single instant had    *)
(* them all when others rename twice.                                      *)
RetainedWasNamed == subject \in LeafSubjects =>
    (op.result = "retained" => EdgesWereNamed)

(* When the retention of a parent returns, every directory it created is   *)
(* on disk, unless others changed the entries of its parent since.         *)
CreatedIsDurable == subject \in LeafSubjects =>
    (op.result = "retained" /\ moves = 0 => op.made \cap unsynced = {})

-----------------------------------------------------------------------------
(* A behaviour exercises one part, chosen at the start; the variables of the
   other parts are not in use. *)
PublicationInit ==
    /\ subject \in Subjects
    /\ \/ subject = "files" /\ FilesInit
          /\ operation = None /\ journal = None /\ receipt = None /\ boot = None /\ displaced = None /\ mount = None /\ tree = None /\ p = None
          /\ report = None /\ late = None /\ spent = None /\ child = None /\ safe = None /\ content = None /\ stamp = None /\ unsynced = None
          /\ moves = None /\ faults = None /\ seen = None
       \/ subject = "commit" /\ CommitInit
          /\ vol = None /\ maybe = None /\ dir = None /\ db = None /\ jrn = None /\ op = None /\ base = None /\ touched = None
          /\ there = None /\ used = None /\ child = None /\ safe = None /\ content = None /\ stamp = None /\ unsynced = None /\ moves = None
          /\ faults = None /\ seen = None
       \/ subject \in LeafSubjects /\ LeafInit
          /\ vol = None /\ maybe = None /\ dir = None /\ db = None /\ jrn = None /\ base = None /\ touched = None /\ there = None
          /\ used = None /\ operation = None /\ journal = None /\ receipt = None /\ boot = None /\ displaced = None /\ mount = None /\ tree = None
          /\ p = None /\ report = None /\ late = None /\ spent = None

FilesOnly == subject = "files" /\ UNCHANGED <<subject, operation, journal, receipt, boot, displaced, mount, tree,
                                              p, report, late, spent, child, safe, content, stamp, unsynced, moves,
                                              faults, seen>>
CommitOnly == subject = "commit" /\ UNCHANGED <<subject, vol, maybe, dir, db, jrn, op, base, touched, there, used,
                                                child, safe, content, stamp, unsynced, moves, faults, seen>>
LeafOnly == subject \in LeafSubjects /\ UNCHANGED <<subject, vol, maybe, dir, db, jrn, base, touched, there, used,
                                            operation, journal, receipt, boot, displaced, mount, tree, p, report,
                                            late, spent>>
PublicationNext ==
    \/ FilesOnly /\ FilesNext
    \/ CommitOnly /\ CommitNext
    \/ LeafOnly /\ LeafNext

PublicationTypeOK ==
    /\ subject = "files" => FilesTypeOK
    /\ subject = "commit" => CommitTypeOK
    /\ subject \in LeafSubjects => LeafTypeOK

-----------------------------------------------------------------------------
(* The instance that TLC checks. *)
MCPlan == <<"kernel", "entry">>
MCContents == {"a", "b"}

Clean0 == [c \in MCContents |-> "none"]
Bare == [file |-> None, stage |-> Clean0, side |-> None, stale |-> None]
Found(c) == [Bare EXCEPT !.file = File(c, "other")]
Residue(s) == [Bare EXCEPT !.stage = [Clean0 EXCEPT !["a"] = s]]

MCFirstImage ==
    {[kernel |-> k, entry |-> e] :
        k \in {Bare, Found("a"), Residue("full"), Residue("part")}, e \in {Bare, Found("x")}}

Both(k, e) == [kernel |-> k, entry |-> e]
MCWanted == {Both("a", "a"), Both("b", "a"), Both("b", "b"), [entry |-> "a"], [kernel |-> "a"]}

TwoOutputs == <<"kernel", "entry">>

\* Two nodes for every name, and one with more moves around it.
LeafOuter == [leaf |-> {"o1", "o2"}, leafmoves |-> {"o1"}]
LeafInner == [leaf |-> {"i1", "i2"}, leafmoves |-> {"i1"}]
LeafNodes == [leaf |-> {"f1", "f2"}, leafmoves |-> {"f1"}]
LeafMoves == [leaf |-> 1, leafmoves |-> 3]
LeafFaults == [leaf |-> 1, leafmoves |-> 0]
=============================================================================
