------------------------------ MODULE Recovery ------------------------------
(***************************************************************************)
(* Startup recovery of an interrupted transition: each effect is redone or  *)
(* undone from the record and what the names show, and the directory        *)
(* objects an effect acts on are witnessed before and after it.             *)
(***************************************************************************)
EXTENDS Parts, Integers, Sequences, SequencesExt, FiniteSets

CONSTANTS
    MaxFaults,           \* bound on failing system calls, syncs and journal writes
    StartupMaxOutside,   \* bound on changes to the namespace by others
    MaxCrashes,          \* bound on kills and power failures
    MaxMoves  \* bound on changes to the directories by others

VARIABLES
    journal,     \* the phase of the durable record, or "gone"
    startup_ns,  \* the namespace: what is live, where the tree is, the target
    startup_disk,  \* the parts of the namespace that a power failure leaves
    unsynced,    \* the directories still to sync before a part is durable
    row,         \* the row of the fresh state: "present", "absent" or "none"
    origins,     \* the outcomes the record holds, with who really did it
    p,           \* the running startup
    report,      \* what the last failed advance said of the journal
    spent,       \* faults, outside changes and crashes so far
    family,      \* which effect this startup runs
    node,        \* every directory object: where it is, its mode and times
    clock  \* the stamp of the latest change

StartupVars == <<subject, op, journal, startup_ns, startup_disk, unsynced, row, origins, p, report, spent, family, node, clock>>

-----------------------------------------------------------------------------
(***************************************************************************)
(* What one startup does to finish an interrupted transition, effect by    *)
(* effect: reverse the /usr exchange, prepare and fill the quarantine      *)
(* target (or the archive slot, or the reserved wrapper), delete the fresh *)
(* database row, and, for a committed reblit, exchange the replaced tree   *)
(* out of staging.  Every effect goes through the same stages:             *)
(*                                                                         *)
(*   capture -> lease -> pre-syncs -> final capture -> one system call ->  *)
(*   reconciliation from a fresh capture -> post-syncs -> revalidation ->  *)
(*   journal advance -> reopened journal                                   *)
(*                                                                         *)
(* and each stage compares the namespace with the one witnessed before.    *)
(* The field ident stands for every identity the evidence compares: the    *)
(* inodes of the directories, the bound journal record and the database    *)
(* evidence.  No repair of the boot volume is ever applied: a rollback from *)
(* BootSyncStarted ends in BootRepairUnverified, which stays.              *)
(* A rename is durable once the directories it changed are synced; until   *)
(* then a power failure may undo it.                                       *)
(***************************************************************************)

Ops == {"NewState", "ActivateArchived", "ActiveReblit", "ReblitBoot", "ReblitCommit"}
Parts == {"usr", "tree", "target"}
Dirs == {"root", "staging", "target", "roots", "quarantine", "candidate", "candidate_wrapper", "reservation_wrapper"}

Chain ==
    [o \in Ops |->
        CASE o = "NewState" -> <<"ReverseExchangeIntent", "UsrRestored", "CandidatePreserveIntent", "CandidatePreserved",
                                 "FreshDbInvalidationIntent", "FreshDbInvalidated", "RollbackComplete", "gone">>
          [] o = "ReblitBoot" -> <<"ReverseExchangeIntent", "UsrRestored", "CandidatePreserveIntent", "CandidatePreserved",
                                   "BootRepairRequired", "BootRepairStarted", "BootRepairUnverified">>
          [] o = "ReblitCommit" -> <<"BootSyncStarted", "BootSyncComplete", "CommitDecided", "CommitCleanupComplete", "Complete", "gone">>
          [] OTHER -> <<"ReverseExchangeIntent", "UsrRestored", "CandidatePreserveIntent", "CandidatePreserved", "RollbackComplete", "gone">>]
Phases == UNION {ToSet(Chain[o]) : o \in Ops}
PhasePlaces == [o \in Ops |-> [phase \in Phases |-> IF phase \in ToSet(Chain[o]) THEN SelectInSeq(Chain[o], LAMBDA x : x = phase) ELSE 99]]
Position(phase) == PhasePlaces[op][phase]
Reached(phase) == Position(journal) >= Position(phase)

(* forward_successor, rollback_successor and the typed boot successors. *)
successor(phase) == Chain[op][Position(phase) + 1]

Routes == {"resume", "fresh_route", "complete_new_state", "complete_archived", "complete_reblit", "repair_required", "repair_start",
           "repair_unverified", "sync_complete", "commit_decision", "to_complete"}
Finals == {"final_new_state", "final_archived", "final_reblit", "final_complete"}
Effects == {"none", "reverse", "create", "normalize", "move_new_state", "move_archived", "exchange_reblit", "fresh_db", "cleanup"} \cup Routes \cup Finals
StartupSteps == {"idle", "lease", "pre", "attempt", "reconcile", "post", "persist", "advance", "published", "reopen", "rebind", "storage_failed", "binding_failed", "delete", "deleted"}
NoNames == [usr |-> "candidate", tree |-> "staged", target |-> "absent", ident |-> 0, foreign |-> FALSE]
StartupIdle == [step |-> "idle", effect |-> "none", mode |-> "Finish", seen |-> NoNames, k |-> 1, did |-> FALSE, ok |-> FALSE, late |-> FALSE, blind |-> FALSE]

EffectTypeOK ==
    /\ op \in Ops /\ journal \in ToSet(Chain[op])
    /\ startup_ns \in [usr : {"candidate", "previous"}, tree : {"staged", "preserved"}, target : {"absent", "residue", "private"},
                       ident : 0..StartupMaxOutside, foreign : BOOLEAN]
    /\ startup_disk \in [Parts -> {"candidate", "previous", "staged", "preserved", "absent", "residue", "private"}]
    /\ unsynced \in [Parts -> SUBSET Dirs] /\ \A c \in Parts : unsynced[c] = {} => startup_disk[c] = startup_ns[c]
    /\ row \in {"present", "absent", "none"}
    /\ p.step \in StartupSteps /\ p.effect \in Effects /\ p.mode \in {"Apply", "Finish"} /\ p.k \in 1..6
    /\ report.durable \in Phases \cup {"unknown", "none"}
    /\ spent.faults \in 0..MaxFaults /\ spent.outside \in 0..StartupMaxOutside /\ spent.crashes \in 0..MaxCrashes

EffectInit ==
    /\ op \in Ops
    /\ journal = Chain[op][1]
    /\ startup_ns = [usr |-> "candidate", tree |-> "staged", target |-> IF op = "NewState" THEN "absent" ELSE "private", ident |-> 0, foreign |-> FALSE]
    /\ \E synced \in BOOLEAN :      \* UsrExchangeIntent may be rolled back before the exchange was synced
        /\ synced \/ op \notin {"ReblitBoot", "ReblitCommit"}
        /\ unsynced = [c \in Parts |-> IF c = "usr" /\ ~synced THEN {"staging", "root"} ELSE {}]
        /\ startup_disk = [c \in Parts |-> IF c = "usr" /\ ~synced THEN "previous" ELSE startup_ns[c]]
    /\ row = IF op = "NewState" THEN "present" ELSE "none"
    /\ origins = {}
    /\ p = StartupIdle
    /\ report = [durable |-> "none", actual |-> "none"]
    /\ spent = [faults |-> 0, outside |-> 0, crashes |-> 0]

-----------------------------------------------------------------------------
(* The stages every effect goes through. *)
World == <<op, journal, row, origins, report>>
StartupNames == <<startup_ns, startup_disk, unsynced>>
Fault == spent.faults < MaxFaults /\ spent' = [spent EXCEPT !.faults = @ + 1]
NoFault == UNCHANGED spent
StartupGoto(step) == p' = IF step = "idle" THEN StartupIdle ELSE [p EXCEPT !.step = step, !.k = 1]
GiveUp == p' = StartupIdle
Witnessed == startup_ns = p.seen /\ ~startup_ns.foreign

(* A startup reads the record and two agreeing captures: the effect is still
   to be done, was done by an earlier startup, or the namespace is foreign. *)
Capture(phase, effect, layout1) ==
    /\ p.step = "idle" /\ journal = phase /\ ~startup_ns.foreign
    /\ layout1 \in {"Apply", "Finish"}
    /\ p' = [StartupIdle EXCEPT !.step = "lease", !.effect = effect, !.mode = layout1, !.seen = startup_ns]
    /\ UNCHANGED <<World, StartupNames, spent>>

(* Every revalidation compares a fresh capture with the first one. *)
Lease(effect, apply, finish) ==
    /\ p.step = "lease" /\ p.effect = effect
    /\ IF ~Witnessed THEN GiveUp ELSE StartupGoto(IF p.mode = "Apply" THEN apply ELSE finish)
    /\ UNCHANGED <<World, StartupNames, spent>>

SyncDir(d) ==
    /\ unsynced' = [c \in Parts |-> unsynced[c] \ {d}]
    /\ startup_disk' = [c \in Parts |-> IF unsynced[c] \ {d} = {} THEN startup_ns[c] ELSE startup_disk[c]]
    /\ UNCHANGED startup_ns

(* One directory after the other, the namespace compared before and after
   each; a final capture ends the stage. *)
SyncAll(effect, step, dirs, next) ==
    /\ p.step = step /\ p.effect = effect
    /\ UNCHANGED World
    /\ \/ ~Witnessed /\ GiveUp /\ NoFault /\ UNCHANGED StartupNames
       \/ Witnessed /\ p.k <= Len(dirs) /\ SyncDir(dirs[p.k]) /\ p' = [p EXCEPT !.k = @ + 1] /\ NoFault
       \/ Witnessed /\ p.k <= Len(dirs) /\ Fault /\ GiveUp /\ UNCHANGED StartupNames
       \/ Witnessed /\ p.k = Len(dirs) + 1 /\ StartupGoto(next) /\ NoFault /\ UNCHANGED StartupNames

(* RENAME_EXCHANGE is its own inverse. *)
Other(v) == CHOOSE w \in {"candidate", "previous", "staged", "preserved"} : {v, w} \in {{"candidate", "previous"}, {"staged", "preserved"}}

(* The one system call: what it reports need not be what it did. *)
Attempt(effect, part, values, parents) ==
    /\ p.step = "attempt" /\ p.effect = effect
    /\ UNCHANGED <<World, startup_disk>>
    /\ \E applied, ok \in BOOLEAN :
        /\ IF applied /\ ok THEN NoFault ELSE Fault
        /\ IF applied
           THEN /\ \E v \in values : startup_ns' = [startup_ns EXCEPT ![part] = v]
                /\ unsynced' = [unsynced EXCEPT ![part] = @ \cup parents]
           ELSE UNCHANGED <<startup_ns, unsynced>>
        /\ p' = [p EXCEPT !.step = "reconcile", !.did = applied, !.ok = ok, !.blind = @ \/ (startup_ns # p.seen /\ ~p.late)]

(* The fresh capture against the witnessed one: unchanged, changed in exactly
   the expected part, or neither. *)
Classify(exact) ==
    CASE startup_ns = p.seen -> "NotApplied"
      [] ~startup_ns.foreign /\ exact -> "Applied"
      [] OTHER -> "Ambiguous"
Became(part, values) == \E v \in values : startup_ns = [p.seen EXCEPT ![part] = v]

Reconcile(effect, outcome, next) ==
    /\ p.step = "reconcile" /\ p.effect = effect
    /\ IF outcome # "Applied" \/ next = "idle" THEN GiveUp
       ELSE p' = [p EXCEPT !.step = next, !.seen = startup_ns, !.k = 1]
    /\ UNCHANGED <<World, StartupNames, spent>>

Origin == IF p.mode = "Apply" THEN "Applied" ELSE "AlreadySatisfied"

(* persist_*_and_reopen: the authority revalidates, and again inside the
   advance; a storage error may come after the record was replaced. *)
Persist(effect) ==
    /\ p.step = "persist" /\ p.effect = effect
    /\ IF Witnessed THEN StartupGoto("advance") ELSE GiveUp
    /\ UNCHANGED <<World, StartupNames, spent>>

Recorded == origins \cup (IF p.effect \in Routes \cup {"cleanup"} THEN {} ELSE {[effect |-> p.effect, origin |-> Origin, did |-> p.did]})

Advance(effect, published) ==
    /\ p.step = "advance" /\ p.effect = effect
    /\ UNCHANGED <<op, row, report, StartupNames>>
    /\ \/ ~Witnessed /\ GiveUp /\ NoFault /\ UNCHANGED <<journal, origins>>
       \/ Witnessed /\ journal' = successor(journal) /\ origins' = Recorded /\ StartupGoto(published) /\ NoFault
       \/ Witnessed /\ journal' = successor(journal) /\ origins' = Recorded /\ StartupGoto("storage_failed") /\ Fault
       \/ Witnessed /\ UNCHANGED <<journal, origins>> /\ StartupGoto("storage_failed") /\ Fault

(* The successor's binding is checked in the same store, then the store is
   dropped and the canonical journal reopened. *)
CheckPublished(effect) ==
    /\ p.step = "published" /\ p.effect = effect
    /\ StartupGoto(IF startup_ns.ident = p.seen.ident THEN "reopen" ELSE "binding_failed")
    /\ UNCHANGED <<World, StartupNames, spent>>

(* The record the reopened journal holds: the source, or its successor. *)
Durable(source) == journal

Reopen(effect, source) ==
    /\ p.step \in {"reopen", "storage_failed", "binding_failed"} /\ p.effect = effect
    /\ UNCHANGED <<op, journal, row, origins, StartupNames>>
    /\ GiveUp
    /\ \/ Fault /\ report' = [durable |-> "unknown", actual |-> journal]
       \/ /\ NoFault
          /\ report' = IF p.step = "reopen" /\ startup_ns.ident = p.seen.ident
                       THEN [durable |-> "none", actual |-> journal]
                       ELSE [durable |-> Durable(source), actual |-> journal]

(* A record advanced without its binding is only compared when reopened. *)
ReopenRecord(effect, source) ==
    /\ p.step \in {"reopen", "storage_failed"} /\ p.effect = effect
    /\ UNCHANGED <<op, journal, row, origins, StartupNames>>
    /\ GiveUp
    /\ \/ Fault /\ report' = [durable |-> "unknown", actual |-> journal]
       \/ NoFault /\ report' = [durable |-> IF p.step = "reopen" THEN "none" ELSE Durable(source), actual |-> journal]

(* The boot phases revalidate the whole successor in the same store, and in
   the reopened journal by the old binding, by the old one again after a fresh
   one is captured, and by the fresh one; each failure names the successor. *)
CheckSuccessor(effect) ==
    /\ p.step = "published" /\ p.effect = effect
    /\ StartupGoto(IF Witnessed THEN "reopen" ELSE "binding_failed")
    /\ UNCHANGED <<World, StartupNames, spent>>

RebindSteps == 3
Rebind(effect, source, next) ==
    \/ /\ p.step = "reopen" /\ p.effect = effect
       /\ UNCHANGED <<op, journal, row, origins, StartupNames>>
       /\ \/ Fault /\ GiveUp /\ report' = [durable |-> "unknown", actual |-> journal]
          \/ NoFault /\ StartupGoto("rebind") /\ UNCHANGED report
    \/ /\ p.step = "rebind" /\ p.effect = effect
       /\ UNCHANGED <<op, journal, row, origins, StartupNames, spent>>
       /\ IF Witnessed /\ p.k < RebindSteps
          THEN p' = [p EXCEPT !.k = @ + 1] /\ UNCHANGED report
          ELSE GiveUp /\ report' = [durable |-> IF Witnessed THEN "none" ELSE next, actual |-> journal]
    \/ p.step # "reopen" /\ Reopen(effect, source)

-----------------------------------------------------------------------------
\* Mutants: an exchange that was done is exchanged again; or is not recognised.
reverse_layout_again(n) == "Apply"
reverse_layout_post_only(n) == IF n.usr = "candidate" THEN "Apply" ELSE "mismatch"

(* Reversing the exchange of /usr.  ReverseExchangeLayout: the candidate is
   live (Post) or the previous tree is live again (Pre). *)
reverse_layout(n) == IF n.usr = "candidate" THEN "Apply" ELSE "Finish"
UsrRollbackReverseAuthority == Capture("ReverseExchangeIntent", "reverse", reverse_layout(startup_ns))
reverse_into_effect_lease == Lease("reverse", "attempt", "post")
attempt_reverse_exchange_once == Attempt("reverse", "usr", {Other(startup_ns.usr)}, {"staging", "root"})
require_post_to_pre == Became("usr", {"previous"})
reverse_effect == Classify(require_post_to_pre)
reverse_reconcile_apply == Reconcile("reverse", reverse_effect, "post")

\* Mutant: the installation root is not synced.
complete_parent_durability_staging_only == SyncAll("reverse", "post", <<"staging">>, "persist")

(* complete_parent_durability, for an exchange of this or of an earlier startup. *)
complete_parent_durability == SyncAll("reverse", "post", <<"staging", "root">>, "persist")
reverse_durable_revalidate == Persist("reverse")
advance_usr_restored_record_binding == Advance("reverse", "reopen")
persist_usr_rollback_reverse == Reopen("reverse", "ReverseExchangeIntent")

ReverseUsr ==
    \/ UsrRollbackReverseAuthority \/ reverse_into_effect_lease \/ attempt_reverse_exchange_once \/ reverse_reconcile_apply
    \/ complete_parent_durability \/ reverse_durable_revalidate \/ advance_usr_restored_record_binding \/ persist_usr_rollback_reverse

-----------------------------------------------------------------------------
(* The topologies the candidate-preserve proof tells apart, by operation. *)
new_state_topology(n) ==
    CASE n.tree = "preserved" -> "NewStatePreserved"
      [] n.target = "absent" -> "NewStateStaged"
      [] n.target = "residue" -> "NewStateStagedWithTargetResidue"
      [] OTHER -> "NewStateStagedWithEmptyQuarantine"
archived_topology(n) == IF n.tree = "preserved" THEN "ArchivedPreserved" ELSE "ArchivedStagedWithCanonicalSlot"
active_reblit_topology(n) == IF n.tree = "preserved" THEN "ActiveReblitPreserved" ELSE "ActiveReblitStaged"

candidate_preserve_topology(n) ==
    IF n.usr # "previous" THEN "mismatch"
    ELSE CASE op = "NewState" -> new_state_topology(n)
           [] op = "ActivateArchived" -> archived_topology(n)
           [] OTHER -> active_reblit_topology(n)

into_effect_selection ==
    [t \in {"NewStateStaged", "NewStateStagedWithTargetResidue", "NewStateStagedWithEmptyQuarantine", "NewStatePreserved",
            "ArchivedStagedWithCanonicalSlot", "ArchivedPreserved", "ActiveReblitStaged", "ActiveReblitPreserved"} |->
        CASE t = "NewStateStaged" -> "create"
          [] t = "NewStateStagedWithTargetResidue" -> "normalize"
          [] t \in {"NewStateStagedWithEmptyQuarantine", "NewStatePreserved"} -> "move_new_state"
          [] t \in {"ArchivedStagedWithCanonicalSlot", "ArchivedPreserved"} -> "move_archived"
          [] OTHER -> "exchange_reblit"]

(* A preserved candidate is finished, any other topology applied. *)
UsrRollbackCandidatePreserveAuthority ==
    LET t == candidate_preserve_topology(startup_ns)
    IN  /\ t # "mismatch"
        /\ Capture("CandidatePreserveIntent", into_effect_selection[t], IF startup_ns.tree = "preserved" THEN "Finish" ELSE "Apply")

(* A fresh state: the quarantine target is created, made private, and each
   time the unchanged record is dispatched again. *)
create_target_lease == Lease("create", "attempt", "attempt")
attempt_create_target_once == Attempt("create", "target", {"residue", "private"}, {"quarantine"})
require_absent_to_prepared == Became("target", {"residue", "private"})
create_target_effect == Classify(require_absent_to_prepared)
create_target_reconcile_after_binding == Reconcile("create", create_target_effect, "idle")

normalize_target_lease == Lease("normalize", "attempt", "attempt")
attempt_normalize_target_once == Attempt("normalize", "target", {"private"}, {"target", "quarantine"})
require_residue_to_empty_private == Became("target", {"private"})
normalize_target_effect == Classify(require_residue_to_empty_private)
normalize_target_reconcile_after_binding == Reconcile("normalize", normalize_target_effect, "post")
complete_normalize_durability == SyncAll("normalize", "post", <<"target", "quarantine">>, "idle")

CandidateTarget ==
    \/ create_target_lease \/ attempt_create_target_once \/ create_target_reconcile_after_binding
    \/ normalize_target_lease \/ attempt_normalize_target_once \/ normalize_target_reconcile_after_binding \/ complete_normalize_durability

move_new_state_lease == Lease("move_new_state", "pre", "post")

complete_target_durability == SyncAll("move_new_state", "pre", <<"target", "quarantine">>, "attempt")
attempt_move_new_state_once == Attempt("move_new_state", "tree", {"preserved"}, {"staging", "target"})
require_new_state_staged_to_preserved == Became("tree", {"preserved"})
new_state_move_effect == Classify(require_new_state_staged_to_preserved)
move_new_state_reconcile_after_binding == Reconcile("move_new_state", new_state_move_effect, "post")
complete_new_state_post_move == SyncAll("move_new_state", "post", <<"candidate", "staging", "target", "quarantine">>, "persist")
new_state_durable_revalidate == Persist("move_new_state")
advance_candidate_preserved_record_binding == Advance("move_new_state", "published")
revalidate_published_candidate_preserved_binding == CheckPublished("move_new_state")
persist_usr_rollback_candidate_preserve == Reopen("move_new_state", "CandidatePreserveIntent")

MoveNewState ==
    \/ move_new_state_lease \/ complete_target_durability \/ attempt_move_new_state_once \/ move_new_state_reconcile_after_binding
    \/ complete_new_state_post_move \/ new_state_durable_revalidate \/ advance_candidate_preserved_record_binding
    \/ revalidate_published_candidate_preserved_binding \/ persist_usr_rollback_candidate_preserve

(* An archived state goes back into its slot under roots. *)
archived_into_lease == Lease("move_archived", "pre", "post")
archived_target_durability == SyncAll("move_archived", "pre", <<"candidate", "staging", "target", "roots">>, "attempt")
attempt_move_archived_once == Attempt("move_archived", "tree", {"preserved"}, {"staging", "target"})
require_archived_staged_to_preserved == Became("tree", {"preserved"})
archived_move_effect == Classify(require_archived_staged_to_preserved)
archived_reconcile == Reconcile("move_archived", archived_move_effect, "post")
complete_archived_post_move == SyncAll("move_archived", "post", <<"candidate", "staging", "target", "roots">>, "persist")
archived_durable_revalidate == Persist("move_archived")
advance_archived_candidate_preserved == Advance("move_archived", "published")
revalidate_published_archived_binding == CheckPublished("move_archived")
persist_usr_rollback_archived_candidate_preserve == Reopen("move_archived", "CandidatePreserveIntent")

MoveArchived ==
    \/ archived_into_lease \/ archived_target_durability \/ attempt_move_archived_once \/ archived_reconcile \/ complete_archived_post_move
    \/ archived_durable_revalidate \/ advance_archived_candidate_preserved \/ revalidate_published_archived_binding
    \/ persist_usr_rollback_archived_candidate_preserve

(* A reblit exchanges the staging wrapper with the one reserved in quarantine. *)
active_reblit_into_lease == Lease("exchange_reblit", "pre", "post")
reblit_prepare_exchange ==
    SyncAll("exchange_reblit", "pre", <<"candidate", "candidate_wrapper", "reservation_wrapper", "roots", "quarantine">>, "attempt")
attempt_exchange_reblit_once == Attempt("exchange_reblit", "tree", {Other(startup_ns.tree)}, {"roots", "quarantine"})
require_reblit_staged_to_preserved == Became("tree", {"preserved"})
reblit_exchange_effect == Classify(require_reblit_staged_to_preserved)
active_reblit_reconcile_after_binding == Reconcile("exchange_reblit", reblit_exchange_effect, "post")
complete_reblit_post_exchange ==
    SyncAll("exchange_reblit", "post", <<"candidate", "candidate_wrapper", "reservation_wrapper", "roots", "quarantine">>, "persist")
reblit_durable_revalidate == Persist("exchange_reblit")
advance_reblit_candidate_preserved == Advance("exchange_reblit", "published")
revalidate_published_reblit_binding == CheckPublished("exchange_reblit")
persist_usr_rollback_active_reblit_candidate_preserve == Reopen("exchange_reblit", "CandidatePreserveIntent")

ExchangeReblit ==
    \/ active_reblit_into_lease \/ reblit_prepare_exchange \/ attempt_exchange_reblit_once \/ active_reblit_reconcile_after_binding
    \/ complete_reblit_post_exchange \/ reblit_durable_revalidate \/ advance_reblit_candidate_preserved
    \/ revalidate_published_reblit_binding \/ persist_usr_rollback_active_reblit_candidate_preserve

-----------------------------------------------------------------------------
(* The phases that only move the record on: the namespace and the row must be
   what the phase says, twice, before the record advances. *)
Restored(n) == n.usr = "previous" /\ n.tree = "staged"
Preserved(n) == n.usr = "previous" /\ n.tree = "preserved"
(* The namespace proofs of the phases, each begun, finished and revalidated on
   its own captures. *)
resume_route_proof(n) == Restored(n)
fresh_db_invalidation_route_proof(n) == Preserved(n)
fresh_db_invalidation_proof(n) == Preserved(n)
rollback_complete_route_proof(n) == Preserved(n)
activate_archived_complete_route_proof(n) == Preserved(n)
active_reblit_complete_route_proof(n) == Preserved(n)
rollback_finalization_proof(n) == Preserved(n)
activate_archived_finalization_proof(n) == Preserved(n)
active_reblit_finalization_proof(n) == Preserved(n)
StartupExact(b) == IF b THEN "Finish" ELSE "mismatch"
Ready(effect) == Lease(effect, "persist", "persist")

UsrRollbackResumeRouteAuthority == Capture("UsrRestored", "resume", StartupExact(resume_route_proof(startup_ns)))
resume_route_revalidate == Ready("resume") \/ Persist("resume") \/ Advance("resume", "reopen")
persist_usr_rollback_resume_route == Reopen("resume", "UsrRestored")

fresh_route_database == row = "present"
UsrRollbackFreshDbInvalidationRouteAuthority == op = "NewState" /\ Capture("CandidatePreserved", "fresh_route", StartupExact(fresh_db_invalidation_route_proof(startup_ns) /\ fresh_route_database))
fresh_route_revalidate == Ready("fresh_route") \/ Persist("fresh_route") \/ Advance("fresh_route", "published")
persist_usr_rollback_fresh_db_invalidation_route == CheckPublished("fresh_route") \/ Reopen("fresh_route", "CandidatePreserved")

complete_route_database == row = "absent"
UsrRollbackCompleteRouteAuthority == Capture("FreshDbInvalidated", "complete_new_state", StartupExact(rollback_complete_route_proof(startup_ns) /\ complete_route_database))
complete_route_revalidate == Ready("complete_new_state") \/ Persist("complete_new_state") \/ Advance("complete_new_state", "published")
persist_usr_rollback_complete_route == CheckPublished("complete_new_state") \/ Reopen("complete_new_state", "FreshDbInvalidated")

archived_complete_route_database == row = "none"
ActivateArchivedCompleteRouteAuthority == op = "ActivateArchived" /\ Capture("CandidatePreserved", "complete_archived", StartupExact(activate_archived_complete_route_proof(startup_ns) /\ archived_complete_route_database))
archived_complete_route_revalidate == Ready("complete_archived") \/ Persist("complete_archived") \/ Advance("complete_archived", "published")
persist_usr_rollback_activate_archived_complete_route == CheckPublished("complete_archived") \/ Reopen("complete_archived", "CandidatePreserved")

reblit_complete_route_database == row = "none"
ActiveReblitCompleteRouteAuthority == op = "ActiveReblit" /\ Capture("CandidatePreserved", "complete_reblit", StartupExact(active_reblit_complete_route_proof(startup_ns) /\ reblit_complete_route_database))
reblit_complete_route_revalidate == Ready("complete_reblit") \/ Persist("complete_reblit") \/ Advance("complete_reblit", "published")
persist_usr_rollback_active_reblit_complete_route == CheckPublished("complete_reblit") \/ Reopen("complete_reblit", "CandidatePreserved")

Route ==
    \/ UsrRollbackResumeRouteAuthority \/ resume_route_revalidate \/ persist_usr_rollback_resume_route
    \/ UsrRollbackFreshDbInvalidationRouteAuthority \/ fresh_route_revalidate
    \/ persist_usr_rollback_fresh_db_invalidation_route
    \/ UsrRollbackCompleteRouteAuthority \/ complete_route_revalidate
    \/ persist_usr_rollback_complete_route
    \/ ActivateArchivedCompleteRouteAuthority \/ archived_complete_route_revalidate
    \/ persist_usr_rollback_activate_archived_complete_route
    \/ ActiveReblitCompleteRouteAuthority \/ reblit_complete_route_revalidate
    \/ persist_usr_rollback_active_reblit_complete_route

-----------------------------------------------------------------------------
(* The row of the fresh state, and its provenance, go in one database
   transaction; an ambiguous commit is an error and the next startup looks. *)
fresh_db_observation == IF row = "present" THEN "Apply" ELSE "Finish"
UsrRollbackFreshDbInvalidationAuthority ==
    /\ fresh_db_invalidation_proof(startup_ns)
    /\ Capture("FreshDbInvalidationIntent", "fresh_db", fresh_db_observation)
fresh_db_revalidate == Lease("fresh_db", "attempt", "persist")

remove_exact_fresh_transition ==
    /\ p.step = "attempt" /\ p.effect = "fresh_db"
    /\ UNCHANGED <<op, journal, origins, report, StartupNames>>
    /\ \/ row' = "absent" /\ NoFault /\ p' = [p EXCEPT !.step = "reconcile", !.did = TRUE]
       \/ UNCHANGED row /\ Fault /\ GiveUp
       \/ row' = "absent" /\ Fault /\ GiveUp

(* capture_bound_absence: the row is really gone and nothing else changed. *)
capture_bound_absence ==
    /\ p.step = "reconcile" /\ p.effect = "fresh_db"
    /\ IF Witnessed THEN StartupGoto("persist") ELSE GiveUp
    /\ UNCHANGED <<World, StartupNames, spent>>
fresh_db_durable_revalidate == row = "absent" /\ Persist("fresh_db")
advance_fresh_db_invalidated_record_binding == Advance("fresh_db", "published")
revalidate_published_fresh_db_invalidated_binding == CheckPublished("fresh_db")
persist_usr_rollback_fresh_db_invalidation == Reopen("fresh_db", "FreshDbInvalidationIntent")

FreshDb ==
    \/ UsrRollbackFreshDbInvalidationAuthority \/ fresh_db_revalidate \/ remove_exact_fresh_transition \/ capture_bound_absence
    \/ fresh_db_durable_revalidate \/ advance_fresh_db_invalidated_record_binding \/ revalidate_published_fresh_db_invalidated_binding
    \/ persist_usr_rollback_fresh_db_invalidation

-----------------------------------------------------------------------------
(* A rollback from BootSyncStarted: what the boot volume holds is unknown, and
   the record moves to BootRepairUnverified and stays there. *)
active_reblit_boot_repair_required_proof(n) == Preserved(n)
active_reblit_boot_repair_start_proof(n) == Preserved(n)
active_reblit_boot_repair_started_proof(n) == Preserved(n)
repair_required_database_is_exact == row = "none"
inspect_active_reblit_boot_repair_database == row = "none"

UsrRollbackActiveReblitBootRepairRequiredAuthority ==
    op = "ReblitBoot" /\ Capture("CandidatePreserved", "repair_required", StartupExact(active_reblit_boot_repair_required_proof(startup_ns) /\ repair_required_database_is_exact))
repair_required_revalidate == Ready("repair_required") \/ Persist("repair_required") \/ Advance("repair_required", "reopen")
persist_boot_repair_required == ReopenRecord("repair_required", "CandidatePreserved")

UsrRollbackActiveReblitBootRepairStartAuthority ==
    Capture("BootRepairRequired", "repair_start", StartupExact(active_reblit_boot_repair_start_proof(startup_ns) /\ inspect_active_reblit_boot_repair_database))
repair_start_revalidate == Ready("repair_start") \/ Persist("repair_start") \/ Advance("repair_start", "published")
revalidate_published_start_binding == CheckPublished("repair_start")
persist_boot_repair_start == Reopen("repair_start", "BootRepairRequired")

UsrRollbackActiveReblitBootRepairUnverifiedAuthority ==
    Capture("BootRepairStarted", "repair_unverified", StartupExact(active_reblit_boot_repair_started_proof(startup_ns) /\ inspect_active_reblit_boot_repair_database))
repair_unverified_revalidate == Ready("repair_unverified") \/ Persist("repair_unverified")
persist_boot_repair_unverified == Advance("repair_unverified", "reopen") \/ ReopenRecord("repair_unverified", "BootRepairStarted")

BootRepair ==
    \/ UsrRollbackActiveReblitBootRepairRequiredAuthority \/ repair_required_revalidate \/ persist_boot_repair_required
    \/ UsrRollbackActiveReblitBootRepairStartAuthority \/ repair_start_revalidate
    \/ revalidate_published_start_binding \/ persist_boot_repair_start
    \/ UsrRollbackActiveReblitBootRepairUnverifiedAuthority \/ repair_unverified_revalidate \/ persist_boot_repair_unverified

-----------------------------------------------------------------------------
(* A committed reblit: the replaced tree leaves staging by an exchange with
   the reserved wrapper; the candidate stays live. *)
classify_layout(n) ==
    CASE n.usr # "candidate" -> "mismatch"
      [] n.tree = "staged" -> "Apply"
      [] OTHER -> "Finish"
(* The receipt is promoted and the outputs cleaned up; what is left is the record. *)
active_reblit_boot_sync_started_proof(n) == classify_layout(n) = "Apply"
ActiveReblitBootSyncStartedRecoveryAuthority == Capture("BootSyncStarted", "sync_complete", StartupExact(active_reblit_boot_sync_started_proof(startup_ns)))
sync_started_revalidate == Ready("sync_complete") \/ Persist("sync_complete")
advance_sync_started == Advance("sync_complete", "published")
revalidate_sync_complete_successor == CheckSuccessor("sync_complete")
persist_active_reblit_boot_sync_started_completion == Rebind("sync_complete", "BootSyncStarted", "BootSyncComplete")

active_reblit_boot_sync_complete_proof(n) == classify_layout(n) = "Apply"
ActiveReblitBootSyncCompleteAuthority == Capture("BootSyncComplete", "commit_decision", StartupExact(active_reblit_boot_sync_complete_proof(startup_ns)))
sync_complete_revalidate == Ready("commit_decision") \/ Persist("commit_decision")
advance_commit_decision == Advance("commit_decision", "published")
revalidate_commit_decided_successor == CheckSuccessor("commit_decision")
persist_active_reblit_boot_sync_commit_decision == Rebind("commit_decision", "BootSyncComplete", "CommitDecided")

BootSync ==
    \/ ActiveReblitBootSyncStartedRecoveryAuthority \/ sync_started_revalidate \/ advance_sync_started
    \/ revalidate_sync_complete_successor \/ persist_active_reblit_boot_sync_started_completion
    \/ ActiveReblitBootSyncCompleteAuthority \/ sync_complete_revalidate \/ advance_commit_decision
    \/ revalidate_commit_decided_successor \/ persist_active_reblit_boot_sync_commit_decision

ActiveReblitCommitCleanupAuthority == Capture("CommitDecided", "cleanup", classify_layout(startup_ns))
cleanup_into_effect_authority == Lease("cleanup", "pre", "post")
cleanup_prepare_exchange == SyncAll("cleanup", "pre", <<>>, "attempt")
attempt_cleanup_exchange_once == Attempt("cleanup", "tree", {Other(startup_ns.tree)}, {"roots", "quarantine"})
require_cleanup_apply_to_finish == Became("tree", {"preserved"})
cleanup_effect == Classify(require_cleanup_apply_to_finish)
cleanup_reconcile == Reconcile("cleanup", cleanup_effect, "post")
complete_cleanup_post_exchange ==
    SyncAll("cleanup", "post", <<"candidate", "candidate_wrapper", "reservation_wrapper", "roots", "quarantine">>, "persist")
cleanup_durable_revalidate == Persist("cleanup")
advance_cleanup_record_binding == Advance("cleanup", "published")
revalidate_cleanup_successor_same_store == CheckSuccessor("cleanup")
persist_active_reblit_commit_cleanup_complete == Rebind("cleanup", "CommitDecided", "CommitCleanupComplete")

ActiveReblitCommitCleanupCompleteAuthority == Capture("CommitCleanupComplete", "to_complete", StartupExact(classify_layout(startup_ns) = "Finish"))
cleanup_complete_revalidate == Ready("to_complete") \/ Persist("to_complete")
advance_to_complete == Advance("to_complete", "published")
revalidate_complete_successor_same_store == CheckSuccessor("to_complete")
persist_active_reblit_commit_cleanup_complete_to_complete == Rebind("to_complete", "CommitCleanupComplete", "Complete")

Cleanup ==
    \/ ActiveReblitCommitCleanupAuthority \/ cleanup_into_effect_authority \/ cleanup_prepare_exchange \/ attempt_cleanup_exchange_once
    \/ cleanup_reconcile \/ complete_cleanup_post_exchange \/ cleanup_durable_revalidate \/ advance_cleanup_record_binding
    \/ revalidate_cleanup_successor_same_store \/ persist_active_reblit_commit_cleanup_complete
    \/ ActiveReblitCommitCleanupCompleteAuthority \/ cleanup_complete_revalidate \/ advance_to_complete
    \/ revalidate_complete_successor_same_store \/ persist_active_reblit_commit_cleanup_complete_to_complete

-----------------------------------------------------------------------------
(* The finished record is deleted by its binding; a storage error says whether
   the record is still there. *)
Delete(effect) ==
    /\ p.step = "delete" /\ p.effect = effect
    /\ UNCHANGED <<op, row, origins, StartupNames>>
    /\ \/ ~Witnessed /\ GiveUp /\ NoFault /\ UNCHANGED <<journal, report>>
       \/ Witnessed /\ journal' = "gone" /\ StartupGoto("deleted") /\ NoFault /\ UNCHANGED report
       \/ Witnessed /\ journal' \in {"gone", journal} /\ GiveUp /\ Fault /\ report' = [durable |-> journal', actual |-> journal']

AfterDelete(effect) ==
    /\ p.step = "deleted" /\ p.effect = effect
    /\ GiveUp
    /\ report' = [durable |-> IF Witnessed THEN "none" ELSE "gone", actual |-> journal]
    /\ UNCHANGED <<op, journal, row, origins, StartupNames, spent>>

finalization_database == row = "absent"
UsrRollbackFinalizationAuthority == op = "NewState" /\ Capture("RollbackComplete", "final_new_state", StartupExact(rollback_finalization_proof(startup_ns) /\ finalization_database))
finalize_usr_rollback == Lease("final_new_state", "delete", "delete") \/ Delete("final_new_state")
revalidate_after_journal_delete == AfterDelete("final_new_state")

archived_finalization_database == row = "none"
ActivateArchivedFinalizationAuthority == op = "ActivateArchived" /\ Capture("RollbackComplete", "final_archived", StartupExact(activate_archived_finalization_proof(startup_ns) /\ archived_finalization_database))
finalize_usr_rollback_activate_archived == Lease("final_archived", "delete", "delete") \/ Delete("final_archived")
archived_revalidate_after_journal_delete == AfterDelete("final_archived")

reblit_finalization_database == row = "none"
ActiveReblitFinalizationAuthority == op = "ActiveReblit" /\ Capture("RollbackComplete", "final_reblit", StartupExact(active_reblit_finalization_proof(startup_ns) /\ reblit_finalization_database))
finalize_usr_rollback_active_reblit == Lease("final_reblit", "delete", "delete") \/ Delete("final_reblit")
reblit_revalidate_after_journal_delete == AfterDelete("final_reblit")

ActiveReblitCompleteFinalizationAuthority == Capture("Complete", "final_complete", StartupExact(classify_layout(startup_ns) = "Finish"))
finalize_active_reblit_complete == Lease("final_complete", "delete", "delete") \/ Delete("final_complete")
complete_revalidate_after_journal_delete == AfterDelete("final_complete")

Finalize ==
    \/ UsrRollbackFinalizationAuthority \/ finalize_usr_rollback \/ revalidate_after_journal_delete
    \/ ActivateArchivedFinalizationAuthority \/ finalize_usr_rollback_activate_archived \/ archived_revalidate_after_journal_delete
    \/ ActiveReblitFinalizationAuthority \/ finalize_usr_rollback_active_reblit \/ reblit_revalidate_after_journal_delete
    \/ ActiveReblitCompleteFinalizationAuthority \/ finalize_active_reblit_complete \/ complete_revalidate_after_journal_delete

-----------------------------------------------------------------------------
(* Others replace a directory by an equal one, or put the namespace into a
   shape no authority knows and back. *)
Outside ==
    /\ spent.outside < StartupMaxOutside /\ spent' = [spent EXCEPT !.outside = @ + 1]
    /\ \/ startup_ns' = [startup_ns EXCEPT !.ident = @ + 1]
       \/ startup_ns' = [startup_ns EXCEPT !.foreign = ~@]
    /\ p' = [p EXCEPT !.late = @ \/ p.step = "attempt"]
    /\ UNCHANGED <<World, startup_disk, unsynced>>

StartupKill ==
    /\ spent.crashes < MaxCrashes /\ spent' = [spent EXCEPT !.crashes = @ + 1]
    /\ p.step # "idle" /\ GiveUp
    /\ UNCHANGED <<World, StartupNames>>

(* Each part of the namespace whose directories were not all synced comes back
   as it is or as it last was on disk. *)
StartupPowerLoss ==
    /\ spent.crashes < MaxCrashes /\ spent' = [spent EXCEPT !.crashes = @ + 1]
    /\ \E kept \in SUBSET Parts :
        /\ startup_ns' = [startup_ns EXCEPT !.usr = IF "usr" \in kept THEN @ ELSE startup_disk["usr"],
                                            !.tree = IF "tree" \in kept THEN @ ELSE startup_disk["tree"],
                                            !.target = IF "target" \in kept THEN @ ELSE startup_disk["target"]]
    /\ startup_disk' = [c \in Parts |-> startup_ns'[c]]
    /\ unsynced' = [c \in Parts |-> {}]
    /\ GiveUp
    /\ UNCHANGED World

Startup ==
    \/ ReverseUsr \/ UsrRollbackCandidatePreserveAuthority \/ CandidateTarget \/ MoveNewState \/ MoveArchived \/ ExchangeReblit
    \/ Route \/ FreshDb \/ BootRepair \/ BootSync \/ Cleanup \/ Finalize

EffectNext == Startup \/ Outside \/ StartupKill \/ StartupPowerLoss

-----------------------------------------------------------------------------
(* A record past an effect means that the effect is done and that a power
   failure cannot undo it, whichever startup did it and whatever its system
   calls, syncs and journal writes reported. *)
AdvanceIsBacked == subject = "effect" =>
    /\ Reached("UsrRestored") => startup_disk["usr"] = "previous"
    /\ Reached("CandidatePreserved") => startup_disk["tree"] = "preserved"
    /\ Reached("CommitCleanupComplete") => startup_disk["tree"] = "preserved"
    /\ Reached("FreshDbInvalidated") => row = "absent"

(* The candidate is only ever inside a target that survives a power failure,
   and the fresh row is only gone when the candidate is safely preserved:
   whatever is interrupted, the candidate's tree and row can be found. *)
CandidateIsFindable == subject = "effect" =>
    /\ startup_ns.tree = "preserved" => unsynced["target"] = {} /\ startup_disk["target"] = "private"
    /\ row = "absent" => startup_disk["tree"] = "preserved" /\ startup_disk["usr"] = "previous"

(* A failed journal write is reported with the record that is really durable,
   or as unknown. *)
ReportIsTrue == subject = "effect" => (report.durable \in {"none", "unknown", report.actual})

(* The outcome in the record (Applied or AlreadySatisfied) says whether the
   startup that advanced the record did the effect itself. *)
OriginIsTrue == subject = "effect" => (\A o \in origins : (o.origin = "Applied") = o.did)

(* A rename is only issued on the namespace that was witnessed, up to a change
   between the final capture and the system call itself. *)
ActsOnWitnessed == subject = "effect" => (~p.blind)

(* No startup exchanges /usr or the wrappers a second time: what was put back
   only comes undone by a power failure before it was synced. *)
NeverUndone ==
    [][subject = "effect" =>
       ((startup_ns.usr = "previous" /\ startup_ns'.usr # "previous") \/ (startup_ns.tree = "preserved" /\ startup_ns'.tree # "preserved")
        => StartupPowerLoss)]_StartupVars

(* Startups repeated often enough finish the transition, or leave the boot
   repair unverified, unless the namespace stays foreign. *)
EveryTransitionFinishes ==
    <>[](subject = "effect" /\ ~startup_ns.foreign) => <>(subject = "effect" /\ journal = Last(Chain[op]))

-----------------------------------------------------------------------------
(***************************************************************************)
(* The one system call of a startup effect, at the level of the directory  *)
(* objects it acts on.  The subject "effect" takes the namespace an effect *)
(* compares for one value; here are the directories themselves: the        *)
(* descriptors the effect retains, the names that must still denote them,  *)
(* and the identities that are compared.  An exact witness holds the mode  *)
(* and both times of an inode.  The call itself changes some of them, so   *)
(* every family projects the namespace to an invariant that leaves out     *)
(* exactly what its own call changes:                                      *)
(*                                                                         *)
(*   reverse     exchange staging/usr with /usr                            *)
(*   new_state   rename staging/usr into the quarantine target             *)
(*   archived    rename staging/usr into the state's slot under roots      *)
(*   reblit, cleanup   exchange the staging wrapper with the reserved one  *)
(*   create, normalize   make the quarantine target, make it private       *)
(*                                                                         *)
(* A capture and a comparison of a capture are one step (Inspection        *)
(* has their inside); a comparison of the retained parents is another.     *)
(***************************************************************************)
\* disk: what the last sync of a directory made durable
\* op: the running effect
\* spent: changes by others, and faults

Families == {"reverse", "new_state", "archived", "reblit", "cleanup", "create", "normalize"}
Objects == {"root", "roots", "quarantine", "holder", "reserve", "candidate", "previous", "slot", "other"}
Trees == {"candidate", "previous"}

(* The tree the effect is about, and where its target wrapper belongs. *)
Tree == IF family = "cleanup" THEN "previous" ELSE "candidate"
StartupParked == IF family \in {"cleanup", "reverse"} THEN "previous" ELSE "candidate"
TargetAt == IF family = "archived" THEN <<"roots", "state">> ELSE <<"quarantine", "target">>

Nil == [in |-> "none", name |-> "none", mode |-> "none", mt |-> 0, ct |-> 0]
Dir(p1, name) == [in |-> p1, name |-> name, mode |-> "private", mt |-> 0, ct |-> 0]

Up(n, o) == IF o = "none" THEN "none" ELSE n[o].in
Named(n, o) == o = "root" \/ "root" \in {Up(n, o), Up(n, Up(n, o)), Up(n, Up(n, Up(n, o)))}
Lookup(n, p1, name) ==
    IF \E o \in Objects : p1 # "none" /\ n[o].in = p1 /\ n[o].name = name
    THEN CHOOSE o \in Objects : n[o].in = p1 /\ n[o].name = name
    ELSE "none"
Entries(n, d) == {o \in Objects : d # "none" /\ n[o].in = d}

(* The objects the fixed names denote. *)
View(n) ==
    LET roots == Lookup(n, "root", "roots")
        quarantine == Lookup(n, "root", "quarantine")
        staging == Lookup(n, roots, "staging")
        target == IF family = "archived" THEN Lookup(n, roots, "state") ELSE Lookup(n, quarantine, "target")
    IN  [root |-> "root", roots |-> roots, quarantine |-> quarantine, staging |-> staging, target |-> target,
         live |-> Lookup(n, "root", "usr"), staged |-> Lookup(n, staging, "usr"), kept |-> Lookup(n, target, "usr"),
         slot |-> Lookup(n, target, "slot")]

(* rename and RENAME_EXCHANGE: the times of the parents, and the change time
   of what was moved. *)
Renamed(n, o, p1, name, t) ==
    [x \in Objects |->
        CASE x = o -> [n[o] EXCEPT !.in = p1, !.name = name, !.ct = t]
          [] x # o /\ x \in {n[o].in, p1} -> [n[x] EXCEPT !.mt = t, !.ct = t]
          [] OTHER -> n[x]]
Exchanged(n, a, b, t) ==
    [x \in Objects |->
        CASE x = a -> [n[a] EXCEPT !.in = n[b].in, !.name = n[b].name, !.ct = t]
          [] x = b -> [n[b] EXCEPT !.in = n[a].in, !.name = n[a].name, !.ct = t]
          [] x \notin {a, b} /\ x \in {n[a].in, n[b].in} -> [n[x] EXCEPT !.mt = t, !.ct = t]
          [] OTHER -> n[x]]

-----------------------------------------------------------------------------
(* The identities compared.  MutableParentIdentity: a parent whose entries
   the call changes. *)
Same(n, o) == <<o, IF o = "none" THEN "none" ELSE n[o].mode>>

(* MovedUsrIdentity and ExchangedWrapperIdentity: no change time. *)
MovedIdentity(n, o) == <<Same(n, o), IF o = "none" THEN 0 ELSE n[o].mt>>

(* InodeWitness: everything; ExchangeStableInode: links and length. *)
Witness(n, o) == <<Same(n, o), IF o = "none" THEN <<0, 0>> ELSE <<n[o].mt, n[o].ct>>>>
StableInode(n, o) == <<Same(n, o), Cardinality(Entries(n, o))>>

(* WrapperFingerprint: the wrapper, its entries and the tree it holds. *)
StartupWrapper(n, o) == <<Witness(n, o), {<<n[e].name, Witness(n, e)>> : e \in Entries(n, o)}>>
Others(n, d, name) == {<<n[o].name, StartupWrapper(n, o)>> : o \in {x \in Entries(n, d) : n[x].name # name}}

(* A capture: what is below the names, in a shape the inspection accepts. *)
Captured(n) == [o \in Objects |-> IF Named(n, o) THEN n[o] ELSE Nil]
Capturable(n) ==
    LET v == View(n)
    IN  /\ v.roots # "none" /\ v.quarantine # "none" /\ v.live \in Trees
        /\ \A w \in Entries(n, v.roots) \cup Entries(n, v.quarantine) :
            /\ Lookup(n, w, "usr") \in Trees \cup {"none"}
            /\ n[w].mode = "residue" =>
                family \in {"new_state", "create", "normalize"} /\ w = v.target /\ Entries(n, w) = {}

holds_only(n, w, t) == w # "none" /\ Entries(n, w) = {t} /\ n[t].name = "usr"
is_empty(n, w) == w # "none" /\ Entries(n, w) = {}
exactly_private(n, w) == w # "none" /\ n[w].mode = "private"
-----------------------------------------------------------------------------
(* The layouts of each family, and what its call leaves alone. *)
parents_reverse_layout(n) ==
    LET v == View(n)
    IN  CASE v.live = "candidate" /\ holds_only(n, v.staging, "previous") -> "Pre"
          [] v.live = "previous" /\ holds_only(n, v.staging, "candidate") -> "Post"
          [] OTHER -> "mismatch"
reverse_invariant(n) ==
    LET v == View(n)
    IN  [parents |-> <<StableInode(n, "root"), StableInode(n, v.staging)>>,
         fixed |-> <<Witness(n, v.roots), Witness(n, v.quarantine)>>,
         trees |-> <<MovedIdentity(n, "candidate"), MovedIdentity(n, "previous")>>,
         others |-> <<Others(n, v.roots, "staging"), Others(n, v.quarantine, "")>>]

new_state_layout(n) ==
    LET v == View(n)
    IN  CASE ~exactly_private(n, v.target) -> "mismatch"
          [] holds_only(n, v.staging, Tree) /\ is_empty(n, v.target) -> "Pre"
          [] is_empty(n, v.staging) /\ holds_only(n, v.target, Tree) -> "Post"
          [] OTHER -> "mismatch"
new_state_invariant(n) ==
    LET v == View(n)
    IN  [fixed |-> <<Witness(n, "root"), Witness(n, v.roots), Witness(n, v.quarantine), Witness(n, v.live)>>,
         trees |-> <<MovedIdentity(n, Tree)>>, parents |-> <<Same(n, v.staging), Same(n, v.target)>>,
         others |-> <<Others(n, v.roots, "staging"), Others(n, v.quarantine, "target")>>]

archived_layout(n) ==
    LET v == View(n)
    IN  CASE v.slot # "slot" -> "mismatch"
          [] holds_only(n, v.staging, Tree) /\ Entries(n, v.target) = {"slot"} -> "Pre"
          [] is_empty(n, v.staging) /\ Entries(n, v.target) = {"slot", Tree} /\ v.kept = Tree -> "Post"
          [] OTHER -> "mismatch"
archived_invariant(n) ==
    LET v == View(n)
    IN  [fixed |-> <<Witness(n, "root"), Witness(n, v.roots), Witness(n, v.quarantine), Witness(n, v.live), Witness(n, v.slot)>>,
         trees |-> <<MovedIdentity(n, Tree)>>, parents |-> <<Same(n, v.staging), Same(n, v.target)>>,
         others |-> <<{x \in Others(n, v.roots, "staging") : x[1] # "state"}, Others(n, v.quarantine, "")>>]

wrapper_layout(n) ==
    LET v == View(n)
    IN  CASE holds_only(n, v.staging, Tree) /\ is_empty(n, v.target) /\ exactly_private(n, v.target) -> "Pre"
          [] holds_only(n, v.target, Tree) /\ is_empty(n, v.staging) /\ exactly_private(n, v.staging) -> "Post"
          [] OTHER -> "mismatch"

(* The wrapper with the tree, and the reserved one, wherever they are. *)
wrapper_pair(n) == LET v == View(n) IN IF wrapper_layout(n) = "Post" THEN <<v.target, v.staging>> ELSE <<v.staging, v.target>>

wrapper_invariant(n) ==
    LET v == View(n)
    IN  [fixed |-> <<Witness(n, "root"), Witness(n, v.live), Witness(n, Tree)>>, parents |-> <<Same(n, v.roots), Same(n, v.quarantine)>>,
         wrappers |-> <<MovedIdentity(n, wrapper_pair(n)[1]), MovedIdentity(n, wrapper_pair(n)[2])>>,
         others |-> <<Others(n, v.roots, "staging"), Others(n, v.quarantine, "target")>>]
reblit_layout(n) == wrapper_layout(n)
reblit_invariant(n) == wrapper_invariant(n)
cleanup_layout(n) == wrapper_layout(n)
cleanup_invariant(n) == wrapper_invariant(n)

CommonNonTarget(n) ==
    LET v == View(n)
    IN  <<Witness(n, "root"), Witness(n, v.roots), Witness(n, v.live), Others(n, v.roots, ""), Others(n, v.quarantine, "target")>>
create_layout(n) ==
    LET v == View(n)
    IN  CASE v.target = "none" -> "Pre"
          [] v.target # "none" /\ n[v.target].mode \in {"residue", "private"} /\ is_empty(n, v.target) -> "Post"
          [] OTHER -> "mismatch"
create_invariant(n) == <<Same(n, View(n).quarantine), CommonNonTarget(n)>>

normalize_layout(n) ==
    LET v == View(n)
    IN  CASE v.target = "none" -> "mismatch"
          [] v.target # "none" /\ n[v.target].mode = "residue" -> "Pre"
          [] exactly_private(n, v.target) /\ is_empty(n, v.target) -> "Post"
          [] OTHER -> "mismatch"
normalize_invariant(n) ==       \* StableResidueIdentity has no mode and no change time
    <<View(n).target, n[View(n).target].mt, Witness(n, View(n).quarantine), CommonNonTarget(n)>>

layout_startup(n) ==
    CASE family = "reverse" -> parents_reverse_layout(n) [] family = "new_state" -> new_state_layout(n)
      [] family = "archived" -> archived_layout(n) [] family = "reblit" -> reblit_layout(n)
      [] family = "cleanup" -> cleanup_layout(n) [] family = "create" -> create_layout(n) [] OTHER -> normalize_layout(n)

invariant(n) ==
    CASE family = "reverse" -> reverse_invariant(n) [] family = "new_state" -> new_state_invariant(n)
      [] family = "archived" -> archived_invariant(n) [] family = "reblit" -> reblit_invariant(n)
      [] family = "cleanup" -> cleanup_invariant(n) [] family = "create" -> create_invariant(n) [] OTHER -> normalize_invariant(n)
-----------------------------------------------------------------------------
(* The parents retained beside the capture, by the objects a view names. *)
reverse_parents(v, n) == <<StableInode(n, v.root), Witness(n, v.roots), StableInode(n, v.staging)>>
new_state_parents(v, n) == <<Witness(n, v.root), Witness(n, v.roots), Witness(n, v.quarantine), Same(n, v.staging), Same(n, v.target)>>
archived_parents(v, n) == <<Witness(n, v.root), Witness(n, v.roots), Same(n, v.staging), Same(n, v.target)>>
wrapper_parents(v, n) == <<Witness(n, v.root), Same(n, v.roots), Same(n, v.quarantine)>>
reblit_parents(v, n) == wrapper_parents(v, n)
cleanup_parents(v, n) == wrapper_parents(v, n)

(* The retained objects, and the objects the names denote now, still have the
   identity they had when they were retained. *)
reverse_revalidate(kept, n) ==
    LET id == reverse_parents(View(kept), kept) IN reverse_parents(View(kept), n) = id /\ reverse_parents(View(n), n) = id
new_state_revalidate(kept, n) ==
    LET id == new_state_parents(View(kept), kept) IN new_state_parents(View(kept), n) = id /\ new_state_parents(View(n), n) = id
archived_revalidate(kept, n) ==
    LET id == archived_parents(View(kept), kept) IN archived_parents(View(kept), n) = id /\ archived_parents(View(n), n) = id

(* The exchanged wrappers are expected at the places of the given layout. *)
WrappersAt(kept, n, expected) ==
    LET pair == wrapper_pair(kept)
        v == View(n)
        now == IF expected = "Pre" THEN <<v.staging, v.target>> ELSE <<v.target, v.staging>>
    IN  /\ \A i \in 1..2 : MovedIdentity(n, pair[i]) = MovedIdentity(kept, pair[i]) /\ now[i] = pair[i]
        /\ Witness(n, Tree) = Witness(kept, Tree) /\ Lookup(n, now[1], "usr") = Tree
reblit_revalidate(kept, n, expected) ==
    LET id == reblit_parents(View(kept), kept)
    IN  reblit_parents(View(kept), n) = id /\ reblit_parents(View(n), n) = id /\ WrappersAt(kept, n, expected)
cleanup_revalidate(kept, n, expected) ==
    LET id == cleanup_parents(View(kept), kept)
    IN  cleanup_parents(View(kept), n) = id /\ cleanup_parents(View(n), n) = id /\ WrappersAt(kept, n, expected)

revalidate(kept, n, expected) ==
    CASE family = "reverse" -> reverse_revalidate(kept, n) [] family = "new_state" -> new_state_revalidate(kept, n)
      [] family = "archived" -> archived_revalidate(kept, n) [] family = "reblit" -> reblit_revalidate(kept, n, expected)
      [] family = "cleanup" -> cleanup_revalidate(kept, n, expected) [] OTHER -> TRUE
-----------------------------------------------------------------------------
(* Where an effect starts: before its call, or after a call whose result an
   earlier startup did not make durable. *)
Placed ==
    [o \in Objects |->
        CASE o = "root" -> Dir("none", "root")
          [] o = "roots" -> Dir("root", "roots")
          [] o = "quarantine" -> Dir("root", "quarantine")
          [] o = "holder" -> Dir("roots", "staging")
          [] o = "reserve" -> (CASE family = "create" -> Nil
                                 [] family = "normalize" -> [Dir("quarantine", "target") EXCEPT !.mode = "residue"]
                                 [] OTHER -> Dir(TargetAt[1], TargetAt[2]))
          [] o \in Trees -> (IF o = StartupParked THEN Dir("holder", "usr") ELSE Dir("root", "usr"))
          [] o = "slot" -> (IF family = "archived" THEN Dir("reserve", "slot") ELSE Nil)
          [] OTHER -> Dir("none", "spare")]
DirState(n, d) == [names |-> {<<n[o].name, o>> : o \in Entries(n, d)}, mode |-> n[d].mode]

(* The call, on the retained parents: it acts on whatever has the name. *)
Call(v, n, t) ==
    CASE family = "reverse" ->
            (LET a == Lookup(n, v.root, "usr") b == Lookup(n, v.staging, "usr")
             IN  IF "none" \in {a, b} THEN n ELSE Exchanged(n, a, b, t))
      [] family \in {"new_state", "archived"} ->
            (LET a == Lookup(n, v.staging, "usr")
             IN  IF a = "none" \/ Lookup(n, v.target, "usr") # "none" THEN n ELSE Renamed(n, a, v.target, "usr", t))
      [] family \in {"reblit", "cleanup"} ->
            (LET a == Lookup(n, v.roots, "staging") b == Lookup(n, v.quarantine, "target")
             IN  IF "none" \in {a, b} THEN n ELSE Exchanged(n, a, b, t))
      [] OTHER -> [n EXCEPT ![v.target].mode = "private", ![v.target].ct = t]
mkdirat_once(v, n, t, mode) ==
    IF Lookup(n, v.quarantine, "target") # "none" THEN n
    ELSE [n EXCEPT !["reserve"] = [in |-> v.quarantine, name |-> "target", mode |-> mode, mt |-> t, ct |-> t],
                   ![v.quarantine].mt = t, ![v.quarantine].ct = t]

ParentsIdle == [step |-> "idle", sub |-> "snapshot", k |-> 1, auth |-> <<>>, kept |-> <<>>, base |-> <<>>]
End(result) == [ParentsIdle EXCEPT !.step = result]

ParentsInit ==
    /\ family \in Families
    /\ \E done \in BOOLEAN, anchored \in BOOLEAN :
        /\ done => family \notin {"create", "normalize"}
        /\ node = (IF done THEN Call(View(Placed), Placed, 1) ELSE Placed)
        /\ startup_disk = [d \in Objects |-> LET s == DirState(Placed, d)
                                             IN  IF d = "quarantine" /\ family \in {"new_state", "normalize"} /\ ~anchored
                                                 THEN [s EXCEPT !.names = {}] ELSE s]
    /\ clock = 1
    /\ op = ParentsIdle
    /\ spent = [moves |-> 0, faults |-> 0]

MayFail == spent.faults < MaxFaults /\ spent' = [spent EXCEPT !.faults = @ + 1]
Is(step, sub) == op.step = step /\ op.sub = sub
Same2 == UNCHANGED <<family, node, startup_disk, clock>>
-----------------------------------------------------------------------------
(* capture: the evidence decides whether the call is still to be made. *)
ParentsCapture ==
    /\ op.step = "idle"
    /\ NoFault /\ Same2
    /\ op' = IF ~Capturable(node) \/ layout_startup(node) = "mismatch" THEN End("refused")
             ELSE [ParentsIdle EXCEPT !.step = IF layout_startup(node) = "Pre" THEN "pre"
                                        ELSE IF family \in {"create", "normalize"} THEN "refused" ELSE "post",
                               !.auth = Captured(node), !.kept = Captured(node), !.base = Captured(node)]

(* The directories synchronized before the call, and after it. *)
parents_complete_target_durability(f) ==
    CASE f = "new_state" -> <<"target", "quarantine">>
      [] f = "archived" -> <<"tree", "staging", "target", "roots">>
      [] f = "reblit" -> <<"tree", "staging", "target", "roots", "quarantine">>
      [] OTHER -> <<>>
complete_durability(f) ==
    CASE f = "reverse" -> <<"staging", "root">>
      [] f = "new_state" -> <<"tree", "staging", "target", "quarantine">>
      [] f = "archived" -> <<"tree", "staging", "target", "roots">>
      [] f \in {"reblit", "cleanup"} -> <<"tree", "holder", "reserve", "roots", "quarantine">>
      [] f = "normalize" -> <<"target", "quarantine">>
      [] OTHER -> <<>>
Retained(role) ==
    CASE role = "tree" -> Tree
      [] role \in {"holder", "reserve"} -> wrapper_pair(op.kept)[IF role = "holder" THEN 1 ELSE 2]
      [] OTHER -> View(op.kept)[role]

ExpectedLayout == IF op.step = "pre" THEN "Pre" ELSE "Post"

(* One comparison: the capture, then the retained parents and the capture. *)
require_snapshot == Capturable(node) /\ Captured(node) = op.auth
require_parents == revalidate(op.kept, node, ExpectedLayout) /\ require_snapshot

Checked(stage) ==
    /\ op.step = stage /\ op.sub \in {"snapshot", "parents"}
    /\ Same2
    /\ \/ /\ NoFault
          /\ op' = IF op.sub = "snapshot" THEN (IF require_snapshot THEN [op EXCEPT !.sub = "parents"] ELSE End("refused"))
                   ELSE (IF require_parents THEN [op EXCEPT !.sub = "act"] ELSE End("refused"))
       \/ /\ MayFail
          /\ op' = End("refused")

(* A stage: every sync between two comparisons, then one more capture that
   must equal the first, and a last comparison. *)
Staged(stage, dirs, next) ==
    /\ Is(stage, "act")
    /\ UNCHANGED <<family, node, clock>>
    /\ \/ /\ op.k <= Len(dirs)
          /\ \/ /\ NoFault
                /\ startup_disk' = [startup_disk EXCEPT ![Retained(dirs[op.k])] = DirState(node, Retained(dirs[op.k]))]
                /\ op' = [op EXCEPT !.k = @ + 1, !.sub = "snapshot"]
             \/ /\ MayFail
                /\ UNCHANGED startup_disk
                /\ op' = End("refused")
       \/ /\ op.k = Len(dirs) + 1
          /\ NoFault /\ UNCHANGED startup_disk
          /\ op' = IF require_snapshot THEN [op EXCEPT !.k = @ + 1, !.sub = "snapshot"] ELSE End("refused")
       \/ /\ op.k = Len(dirs) + 2
          /\ NoFault /\ UNCHANGED startup_disk
          /\ op' = [op EXCEPT !.step = next, !.k = 1, !.sub = IF next = "call" THEN "act" ELSE "snapshot"]

prepare == Staged("pre", parents_complete_target_durability(family), "call")
complete == Staged("post", complete_durability(family), IF family = "normalize" THEN "done" ELSE "durable")
durable_revalidate == Staged("durable", <<>>, "done")

(* attempt_*_once: the raw answer of the call is not trusted. *)
ParentsAttempt ==
    /\ op.step = "call"
    /\ clock' = clock + 1
    /\ \/ NoFault /\ family # "create" /\ node' = Call(View(op.kept), node, clock')
       \/ NoFault /\ family = "create" /\ \E mode \in {"private", "residue"} :
              node' = mkdirat_once(View(op.kept), node, clock', mode)
       \/ MayFail /\ UNCHANGED node
    /\ op' = [op EXCEPT !.step = "called"]
    /\ UNCHANGED <<family, startup_disk>>

(* classify_fresh_namespace: a new capture says what happened. *)
classify_fresh_namespace ==
    IF ~Capturable(node) THEN "Ambiguous"
    ELSE IF Captured(node) = op.base THEN "NotApplied"
    ELSE IF layout_startup(node) = "Post" /\ invariant(node) = invariant(op.base) THEN "Applied"
    ELSE "Ambiguous"
reconcile ==
    /\ op.step = "called"
    /\ NoFault /\ Same2
    /\ op' = IF classify_fresh_namespace = "Ambiguous" THEN End("Ambiguous")
             ELSE [op EXCEPT !.step = "closing", !.auth = Captured(node)]
close_fresh_classification ==
    LET applied == op.auth # op.base
    IN  /\ op.step = "closing"
        /\ NoFault /\ Same2
        /\ op' = IF ~revalidate(op.kept, node, IF applied THEN "Post" ELSE "Pre") THEN End("Ambiguous")
                 ELSE IF ~applied THEN End("NotApplied")
                 ELSE IF family = "create" THEN End("created")
                 ELSE [op EXCEPT !.step = "post", !.k = 1, !.sub = "snapshot"]

(* Another process renames a directory to a free place, or changes a mode. *)
OutsidePlaces(o) ==
    CASE o \in Trees -> {<<"root", "usr">>, <<"holder", "usr">>, <<"reserve", "usr">>, <<"none", "spare">>}
      [] o \in {"holder", "reserve"} -> {<<"roots", "staging">>, TargetAt, <<"none", "spare">>}
      [] o \in {"roots", "quarantine"} -> {<<"root", o>>, <<"none", "spare">>}
      [] o = "slot" -> {<<"none", "spare">>}
      [] o = "other" -> {<<"holder", "usr">>, <<"holder", "else">>, <<"roots", "staging">>, <<"root", "roots">>, TargetAt, <<"none", "spare">>}
      [] OTHER -> {}
ParentsOutside ==
    /\ spent.moves < MaxMoves
    /\ op.step \notin {"idle", "refused", "Ambiguous", "NotApplied", "created", "done"}
    /\ clock' = clock + 1
    /\ \/ \E o \in Objects : \E p1 \in OutsidePlaces(o) :
            /\ node[o].mode # "none"
            /\ <<node[o].in, node[o].name>> # p1
            /\ p1[1] # "none" => Lookup(node, p1[1], p1[2]) = "none"
            /\ node' = Renamed(node, o, p1[1], p1[2], clock')
       \/ \E o \in {"holder", "reserve"} :
            /\ node[o].mode \in {"private", "shared"}
            /\ node' = [node EXCEPT ![o].mode = IF @ = "private" THEN "shared" ELSE "private", ![o].ct = clock']
    /\ spent' = [spent EXCEPT !.moves = @ + 1]
    /\ UNCHANGED <<family, startup_disk, op>>

Stopped ==
    /\ op.step \in {"refused", "Ambiguous", "NotApplied", "created", "done"}
    /\ UNCHANGED StartupVars

Run ==
    \/ ParentsCapture
    \/ \E stage \in {"pre", "post", "durable"} : Checked(stage)
    \/ prepare \/ complete \/ durable_revalidate
    \/ ParentsAttempt \/ reconcile \/ close_fresh_classification
ParentsNext == Run \/ ParentsOutside \/ Stopped
-----------------------------------------------------------------------------
(* Every directory object is somewhere, the effect is at a known step, and it
   has made its call at most once. *)
ParentsTypeOK ==
    /\ family \in Families
    /\ node \in [Objects -> [in : Objects \cup {"none"}, name : STRING, mode : {"none", "private", "shared", "residue"},
                             mt : 0..clock, ct : 0..clock]]
    /\ op.step \in {"idle", "pre", "call", "called", "closing", "post", "durable", "done", "created", "refused", "Ambiguous", "NotApplied"}
    /\ op.sub \in {"snapshot", "parents", "act"}
    /\ spent.moves <= MaxMoves /\ spent.faults <= MaxFaults
    /\ clock <= spent.moves + 2      \* one call

Placement(n) == [o \in Objects |-> <<n[o].in, n[o].name, n[o].mode>>]

(* The reconciliation of every effect: a call is only taken for applied when
   the namespace is the one it started from with exactly the directories of
   the call in their new places, whatever others renamed around the call. *)
AppliedIsTheCall == subject = "parents" =>
    (op.step \in {"closing", "post", "durable", "done"} /\ op.auth # op.base /\ family # "create" =>
        Placement(op.auth) = Placement(Call(View(op.base), op.base, 1)))

(* complete_*_durability: what an effect calls durable is on disk, by the
   directories the names denote, unless others changed it after the last
   comparison: a power loss leaves the namespace the effect had seen. *)
DurableIsOnDisk == subject = "parents" =>
    (op.step \in {"durable", "done"} =>
        \A d \in {"root", "roots", "quarantine", "holder", "reserve"} : startup_disk[d] = DirState(op.auth, d))

(* complete_target_durability: a tree is only renamed into a wrapper that a
   power loss cannot take away, under its name and with its private mode. *)
TargetIsAnchored == subject = "parents" =>
    (op.step \in {"call", "called", "closing"} /\ family \in {"new_state", "archived", "reblit"} =>
        LET v == View(op.base)
            p1 == op.base[v.target].in
        IN  /\ startup_disk[p1] = DirState(op.base, p1)
            /\ startup_disk[v.target] = DirState(op.base, v.target))

(* The identities leave out what the call itself changes: an effect that
   nobody disturbs is recognized as applied and becomes durable; it is never
   refused, by this startup or by every later one. *)
UndisturbedIsNeverRefused == subject = "parents" =>
    (op.step \in {"refused", "Ambiguous", "NotApplied"} => spent.moves + spent.faults > 0)

-----------------------------------------------------------------------------
(* A behaviour exercises one part, chosen at the start; the variables of the
   other parts are not in use. *)
StartupInit ==
    /\ subject \in Subjects
    /\ \/ subject = "effect" /\ EffectInit
          /\ family = None /\ node = None /\ clock = None
       \/ subject = "parents" /\ ParentsInit
          /\ journal = None /\ startup_ns = None /\ unsynced = None /\ row = None /\ origins = None /\ p = None /\ report = None

EffectOnly == subject = "effect" /\ UNCHANGED <<subject, family, node, clock>>
ParentsOnly == subject = "parents" /\ UNCHANGED <<subject, journal, startup_ns, unsynced, row, origins, p, report>>
StartupNext ==
    \/ EffectOnly /\ EffectNext
    \/ ParentsOnly /\ ParentsNext

StartupTypeOK ==
    /\ subject = "effect" => EffectTypeOK
    /\ subject = "parents" => ParentsTypeOK
=============================================================================
