-------------------------- MODULE StateTransitions --------------------------
(***************************************************************************)
(* The stateful transition of install, remove and activate, which runs to  *)
(* its end in one process, with its recovery.                              *)
(***************************************************************************)
EXTENDS Parts, Integers, FiniteSets

CONSTANTS
    Archived,            \* states archived at the start
    Active,              \* the state that is live at the start
    New,                 \* states that new_state may add
    MaxParking,          \* MAX_PREVIOUS_SLOT_PARKING_CANDIDATES
    Empty                \* the /usr that the first transition synthesizes

VARIABLES
    ns,          \* /usr, the wrappers under roots and the quarantine
    disk,        \* the namespaces a power failure may leave
    rows,        \* the states in the database
    boot,        \* the state whose projection the boot volume holds
    t,           \* the running transition
    last         \* how the last one ended

TransitionVars == <<subject, ns, disk, rows, boot, t, last>>

-----------------------------------------------------------------------------
(***************************************************************************)
(* The transition that new_state and activate_state run in one process and *)
(* without a journal.  A candidate /usr is staged, exchanged with the live *)
(* one, the displaced tree is archived under roots/<id>, the boot volume   *)
(* is written.  Whatever fails after the exchange is undone in reverse     *)
(* order; a failed new candidate goes to the quarantine and then loses its *)
(* row, a failed archived one goes back to its slot.                       *)
(*                                                                         *)
(* Every rename, directory sync, trigger run, boot run and transaction is  *)
(* a step and may fail.  An error after a rename is told from one before   *)
(* it by looking at the names again: the code then finishes the rest once  *)
(* more and never renames twice.  A tree is named by the state it belongs  *)
(* to; Empty is the /usr that the first transition synthesizes.            *)
(*                                                                         *)
(* `disk` holds every namespace a power failure may leave: a rename adds   *)
(* one, a sync of the directories it changed leaves one (metadata reaches  *)
(* the disk in order).  ActiveReblit of this path has no caller.           *)
(***************************************************************************)

States == Archived \cup {Active} \cup New

ASSUME ParkingAssumption == MaxParking \in Nat \ {0} /\ Active \notin Archived \cup New

Wrapper == [usr : States \cup {Empty, None}, marker : States \cup {None}]
Bare == [usr |-> None, marker |-> None]

ASSUME NamesAssumption == Empty \notin States /\ None \notin States \cup {Empty} \cup Wrapper

Idle == [step |-> "idle", origin |-> None, cand |-> None, prev |-> None, slot |-> "none", archived |-> FALSE, cleanup |-> FALSE,
         triggers |-> FALSE, booted |-> FALSE, swapped |-> FALSE, retried |-> FALSE, blocked |-> FALSE, failures |-> {}]
Steps == {"idle", "add", "identity", "prepare", "stage", "stage_marker", "stage_sync", "exchange", "exchange_sync", "triggers",
          "archive", "slot_publish", "slot_sync", "move", "move_sync", "slot_abort", "abort_sync", "boot", "retire", "retire_sync", "committed",
          "cleanup", "cleanup_sync", "restore", "restore_sync", "unslot", "unslot_sync", "reverse", "reverse_sync", "preserve",
          "quarantine_sync", "retire_failed", "retire_failed_sync", "unpark", "unpark_sync", "marker_back", "rearchive", "rearchive_sync",
          "invalidate", "repair"}

TransitionTypeOK ==
    /\ ns.live \in States \cup {Empty} /\ ns.staging \in Wrapper
    /\ ns.slot \in [States -> Wrapper \cup {None}] /\ ns.displaced \subseteq States
    /\ ns.spare \in [States -> 0..MaxParking] /\ ns.quarantine \subseteq States
    /\ ns \in disk /\ rows \subseteq States /\ boot \in States \cup {Empty, "mixed"}
    /\ t.step \in Steps /\ (t.step = "idle") = (t = Idle)
    /\ last.result \in {"none", "committed", "refused", "unprepared", "preserved", "restored", "recovery_failed", "killed"}

(* An installed system, or one whose first state is still to come. *)
TransitionInit ==
    /\ \E first \in BOOLEAN :
         /\ ns = [live |-> IF first THEN Empty ELSE Active, staging |-> Bare,
                  slot |-> [s \in States |-> IF s \in Archived /\ ~first THEN [usr |-> s, marker |-> None] ELSE None],
                  displaced |-> {}, spare |-> [s \in States |-> 0], quarantine |-> {}]
         /\ rows = IF first THEN {} ELSE Archived \cup {Active}
    /\ disk = {ns} /\ boot = ns.live
    /\ t = Idle /\ last = [result |-> "none", t |-> Idle, boot |-> boot]

-----------------------------------------------------------------------------
Goto(step) == t' = [t EXCEPT !.step = step, !.retried = FALSE]
Retry(step) == ~t.retried /\ t' = [t EXCEPT !.step = step, !.retried = TRUE]
Rename(new) == ns' = new /\ disk' = disk \cup {new} /\ UNCHANGED <<rows, boot, last>>
Sync == disk' = {ns} /\ UNCHANGED <<ns, rows, boot, last>>
Still == UNCHANGED <<ns, disk, rows, boot, last>>
EndWith(result) ==
    /\ t' = Idle /\ last' = [result |-> result, t |-> [t EXCEPT !.step = "idle"], boot |-> last.boot]
    /\ UNCHANGED <<ns, disk, rows, boot>>

(* The reversal starts where the forward steps stopped. *)
RecoverAt(r1) == IF r1.cleanup THEN "cleanup" ELSE IF r1.archived THEN "restore" ELSE "reverse"
recover_swapped_candidate(r1) == t' = [r1 EXCEPT !.step = RecoverAt(r1), !.retried = FALSE, !.swapped = TRUE] /\ Still
preserve_unswapped_candidate == Goto("preserve") /\ Still

(* A recovery step that failed is recorded and ends the recovery. *)
stateful_recovery_error(failure) ==
    /\ t' = Idle
    /\ last' = [result |-> "recovery_failed", t |-> [t EXCEPT !.step = "idle", !.failures = @ \cup {failure}], boot |-> last.boot]
    /\ UNCHANGED <<ns, disk, rows, boot>>

-----------------------------------------------------------------------------
(* new_state: materialize_stateful_candidate fills the fixed staging wrapper,
   which must be empty; then the row is added. *)
materialize_stateful_candidate(c) ==
    /\ t = Idle /\ c \notin rows \cup ns.quarantine
    /\ ns.staging = Bare
    /\ t' = [Idle EXCEPT !.step = "add", !.origin = "Fresh", !.cand = c, !.prev = ns.live, !.blocked = ns.live # Empty /\ ns.slot[ns.live] # None]
    /\ last' = [result |-> "none", t |-> Idle, boot |-> boot]
    /\ ns' = [ns EXCEPT !.staging.usr = c] /\ disk' = disk \cup {ns'}
    /\ UNCHANGED <<rows, boot>>

new_state ==
    /\ t.step = "add"
    /\ rows' = rows \cup {t.cand}
    /\ Goto("identity")
    /\ UNCHANGED <<ns, disk, boot, last>>

(* StatefulTreeIdentity::prepare seals the candidate on disk; an error up to
   here leaves the candidate in staging. *)
prepare_candidate ==
    /\ t.step = "identity"
    /\ \/ Goto(IF t.origin = "Fresh" THEN "prepare" ELSE "stage") /\ Sync
       \/ EndWith("unprepared")

AddFails == t.step = "add" /\ EndWith("unprepared")

(* Metadata, root links and transaction triggers. *)
apply_stateful_blit_with_capability ==
    /\ t.step = "prepare"
    /\ Goto("exchange") \/ Goto("preserve")
    /\ Still

(* activate_state: an archived tree under its own name, another live one. *)
activate_state(c) ==
    /\ t = Idle /\ c \in rows /\ ns.live \notin {c, Empty}
    /\ ns.slot[c] # None /\ ns.slot[c].usr = c /\ ns.staging = Bare
    /\ t' = [Idle EXCEPT !.step = "identity", !.origin = "Archived", !.cand = c, !.prev = ns.live, !.blocked = ns.live # Empty /\ ns.slot[ns.live] # None]
    /\ last' = [result |-> "none", t |-> Idle, boot |-> boot]
    /\ ns' = [ns EXCEPT !.slot[c].marker = c] /\ disk' = disk \cup {ns'}
    /\ UNCHANGED <<rows, boot>>

(* The wrappers roots/<id> and roots/staging are exchanged; the slot marker
   moves to the wrapper that is now roots/<id>. *)
stage_archived_candidate ==
    /\ t.step = "stage"
    /\ \/ Goto("stage_marker") /\ Rename([ns EXCEPT !.staging = ns.slot[t.cand], !.slot[t.cand] = ns.staging])
       \/ EndWith("refused")

ensure_slot_marker_location ==
    /\ t.step = "stage_marker"
    /\ t' = [t EXCEPT !.step = "stage_sync"]
    /\ Rename([ns EXCEPT !.staging.marker = None, !.slot[t.cand].marker = t.cand])

finish_move ==
    /\ t.step = "stage_sync"
    /\ Goto("exchange") /\ Sync

(* The exchange already happened: only its rest is tried again, once. *)
finish_applied_archived_candidate_stage ==
    /\ t.step \in {"stage_marker", "stage_sync"}
    /\ IF t.retried THEN Goto("preserve") ELSE Retry(t.step)
    /\ Still

-----------------------------------------------------------------------------
(* exchange_forward_validated: both names are checked, exchanged, observed and
   synced; an error before the exchange undoes nothing, one after it all. *)
exchange_live_and_staged ==
    /\ t.step = "exchange"
    /\ \/ Goto("exchange_sync") /\ Rename([ns EXCEPT !.live = ns.staging.usr, !.staging.usr = ns.live])
       \/ preserve_unswapped_candidate

finish_exchange ==
    /\ t.step = "exchange_sync"
    /\ \/ Goto("triggers") /\ Sync
       \/ recover_swapped_candidate(t)

(* The live root links are published, then the system triggers run unless
   they are skipped; only a failure of the run itself marks them incomplete. *)
AfterTriggers == IF t.prev = Empty THEN "boot" ELSE "archive"
apply_triggers ==
    /\ t.step = "triggers"
    /\ \/ Goto(AfterTriggers) /\ Still
       \/ recover_swapped_candidate(t)
       \/ recover_swapped_candidate([t EXCEPT !.triggers = TRUE])

(* create_previous_archive_attempt: the parked wrapper that an earlier
   activation of this state left, or a private directory under a free parking
   name; never when roots/<id> exists. *)
create_previous_archive_attempt ==
    /\ t.step = "archive"
    /\ ns.slot[t.prev] = None
    /\ \/ /\ t.prev \in ns.displaced
          /\ t' = [t EXCEPT !.step = "slot_publish", !.slot = "reused", !.retried = FALSE]
          /\ Still
       \/ /\ t.prev \notin ns.displaced /\ ns.spare[t.prev] < MaxParking
          /\ t' = [t EXCEPT !.step = "slot_publish", !.slot = "created", !.retried = FALSE]
          /\ Rename([ns EXCEPT !.spare[t.prev] = @ + 1])

ArchiveRefused == t.step = "archive" /\ recover_swapped_candidate([t EXCEPT !.cleanup = TRUE])

Published ==
    IF t.slot = "reused" THEN [ns EXCEPT !.displaced = @ \ {t.prev}, !.slot[t.prev] = [Bare EXCEPT !.marker = t.prev]]
    ELSE [ns EXCEPT !.spare[t.prev] = @ - 1, !.slot[t.prev] = Bare]
Parked ==
    IF t.slot = "reused" THEN [ns EXCEPT !.displaced = @ \cup {t.prev}, !.slot[t.prev] = None]
    ELSE [ns EXCEPT !.spare[t.prev] = @ + 1, !.slot[t.prev] = None]

finish_previous_archive_slot_creation ==
    \/ t.step = "slot_publish" /\ Goto("slot_sync") /\ Rename(Published)
    \/ t.step = "slot_sync" /\ Goto("move") /\ Sync

(* move_previous, direction Archive: the displaced tree enters its slot. *)
archive_previous ==
    /\ t.step = "move"
    /\ t' = [t EXCEPT !.step = "move_sync", !.archived = TRUE, !.retried = FALSE]
    /\ Rename([ns EXCEPT !.staging.usr = None, !.slot[t.prev].usr = t.prev])

finish_previous_move ==
    /\ t.step = "move_sync"
    /\ Goto("boot") /\ Sync

(* finish_applied_previous_archive: once; then the recovery looks for the
   tree in the archive. *)
finish_applied_previous_archive ==
    /\ t.step = "move_sync"
    /\ \/ Retry("move_sync") /\ Still
       \/ t.retried /\ recover_swapped_candidate(t)

(* reconcile_previous_pre_move_failure: not applied, so the slot is parked
   again, here and, if that fails, once more by the recovery. *)
reconcile_previous_pre_move_failure ==
    /\ t.step \in {"slot_publish", "slot_sync", "move"}
    /\ t' = [t EXCEPT !.step = "slot_abort", !.cleanup = TRUE, !.retried = FALSE]
    /\ Still

finish_not_applied_previous_archive ==
    \/ /\ t.step = "slot_abort"
       /\ IF ns.slot[t.prev] = None THEN Goto("abort_sync") /\ Still ELSE Goto("abort_sync") /\ Rename(Parked)
    \/ /\ t.step = "abort_sync"
       /\ t' = [t EXCEPT !.step = RecoverAt([t EXCEPT !.cleanup = FALSE]), !.slot = "none", !.swapped = TRUE] /\ Sync
    \/ t.step \in {"slot_abort", "abort_sync"} /\ recover_swapped_candidate(t)

(* boot::synchronize of the candidate, unless it is skipped. *)
AfterBoot == IF t.origin = "Archived" THEN "retire" ELSE "committed"
synchronize ==
    /\ t.step = "boot"
    /\ \/ /\ t' = [t EXCEPT !.step = AfterBoot, !.booted = TRUE] /\ boot' = t.cand
          /\ UNCHANGED <<ns, disk, rows, last>>
       \/ t.origin = "Archived" /\ Goto(AfterBoot) /\ Still
       \/ recover_swapped_candidate(t)
       \/ /\ boot' \in {boot, "mixed", t.cand}
          /\ t' = [t EXCEPT !.step = RecoverAt(t), !.booted = TRUE, !.swapped = TRUE, !.retried = FALSE]
          /\ UNCHANGED <<ns, disk, rows, last>>

(* retire_displaced_archived_candidate_slot: the empty wrapper that took the
   candidate's name is parked for the day the candidate is archived. *)
retire_displaced_archived_candidate_slot ==
    \/ t.step = "retire" /\ Goto("retire_sync") /\ Rename([ns EXCEPT !.slot[t.cand] = None, !.displaced = @ \cup {t.cand}])
    \/ t.step = "retire_sync" /\ Goto("committed") /\ Sync
    \/ t.step \in {"retire", "retire_sync"} /\ recover_swapped_candidate(t)

commit_stateful_staging == t.step = "committed" /\ EndWith("committed")

-----------------------------------------------------------------------------
(* recover_swapped_candidate: the archive slot of an attempt that moved no
   tree; a failure is recorded and the reversal goes on. *)
AfterCleanup == IF t.archived THEN "restore" ELSE "reverse"
previous_archive_cleanup ==
    \/ /\ t.step = "cleanup"
       /\ IF t.slot = "none" THEN Goto(AfterCleanup) /\ Still
          ELSE Goto("cleanup_sync") /\ IF ns.slot[t.prev] = None THEN Still ELSE Rename(Parked)
    \/ t.step = "cleanup_sync" /\ t' = [t EXCEPT !.step = AfterCleanup, !.slot = "none"] /\ Sync
    \/ /\ t.step \in {"cleanup", "cleanup_sync"} /\ t.slot # "none"
       /\ t' = [t EXCEPT !.step = AfterCleanup, !.failures = @ \cup {"cleanup"}] /\ Still

(* restore_previous: the tree leaves its slot, then the slot is parked. *)
restore_previous_to_staging ==
    \/ t.step = "restore" /\ Goto("restore_sync") /\ Rename([ns EXCEPT !.slot[t.prev].usr = None, !.staging.usr = t.prev])
    \/ t.step = "restore_sync" /\ t' = [t EXCEPT !.step = "unslot"] /\ Sync
    \/ t.step = "unslot" /\ t' = [t EXCEPT !.step = "unslot_sync"] /\ IF ns.slot[t.prev] = None THEN Still ELSE Rename(Parked)
    \/ t.step = "unslot_sync" /\ t' = [t EXCEPT !.step = "reverse", !.slot = "none", !.archived = FALSE, !.retried = FALSE] /\ Sync

(* A failure before the move ends the recovery; one after it is tried again
   from the syncs, once. *)
finish_applied_previous_restore ==
    \/ t.step = "restore" /\ stateful_recovery_error("restore")
    \/ /\ t.step \in {"restore_sync", "unslot", "unslot_sync"}
       /\ IF t.retried THEN stateful_recovery_error("restore") ELSE Retry("restore_sync") /\ Still

(* exchange_staging_and_live_usr: a second exchange would undo the recovery,
   so only the syncs are tried again. *)
exchange_staging_and_live_usr ==
    \/ t.step = "reverse" /\ Goto("reverse_sync") /\ Rename([ns EXCEPT !.live = ns.staging.usr, !.staging.usr = ns.live])
    \/ t.step = "reverse_sync" /\ Goto("preserve") /\ Sync

\* Mutant: the exchange itself is tried again.
finish_applied_reverse_exchanges ==
    \/ t.step = "reverse" /\ stateful_recovery_error("reverse")
    \/ t.step = "reverse_sync" /\ Retry("reverse") /\ Still

finish_applied_reverse ==
    \/ t.step = "reverse" /\ stateful_recovery_error("reverse")
    \/ /\ t.step = "reverse_sync"
       /\ IF t.retried THEN stateful_recovery_error("reverse") ELSE Retry("reverse_sync") /\ Still

-----------------------------------------------------------------------------
Quarantines == t.origin = "Fresh" \/ t.triggers
AfterPreserve == IF t.origin = "Fresh" THEN "invalidate" ELSE "repair"
PreserveFails == t' = [t EXCEPT !.step = "repair", !.failures = @ \cup {"preserve"}] /\ Still

(* quarantine_candidate: a private slot is created and synced, the tree moves
   into it and everything is synced; called again it resumes. *)
quarantine_candidate ==
    /\ Quarantines
    /\ \/ /\ t.step = "preserve"
          /\ t' = [t EXCEPT !.step = "quarantine_sync"]
          /\ IF t.cand \in ns.quarantine THEN Still
             ELSE Rename([ns EXCEPT !.quarantine = @ \cup {t.cand}, !.staging.usr = None])
       \/ /\ t.step = "quarantine_sync"
          /\ t' = [t EXCEPT !.step = IF t.origin = "Fresh" THEN AfterPreserve ELSE "retire_failed"]
          /\ Sync

(* A quarantined archived candidate also gives up its displaced wrapper. *)
RetireFailed ==
    \/ /\ t.step = "retire_failed"
       /\ t' = [t EXCEPT !.step = "retire_failed_sync"]
       /\ IF t.cand \in ns.displaced THEN Still ELSE Rename([ns EXCEPT !.slot[t.cand] = None, !.displaced = @ \cup {t.cand}])
    \/ t.step = "retire_failed_sync" /\ Goto(AfterPreserve) /\ Sync

(* recover_failed_candidate: one retry of a quarantine; no row is removed for
   a candidate that was not preserved. *)
recover_failed_candidate ==
    /\ t.step \in {"preserve", "quarantine_sync", "retire_failed", "retire_failed_sync"} /\ Quarantines
    /\ IF t.retried THEN PreserveFails ELSE Retry("preserve") /\ Still

(* rearchive_archived_candidate: the displaced wrapper takes the name back if
   it was parked, the marker returns, the wrappers are exchanged again. *)
rearchive_archived_candidate ==
    /\ ~Quarantines
    /\ \/ /\ t.step = "preserve"
          /\ IF t.cand \in ns.displaced
             THEN t' = [t EXCEPT !.step = "unpark_sync"] /\ Rename([ns EXCEPT !.displaced = @ \ {t.cand}, !.slot[t.cand] = [Bare EXCEPT !.marker = t.cand]])
             ELSE t' = [t EXCEPT !.step = "marker_back"] /\ Still
       \/ t.step = "unpark_sync" /\ t' = [t EXCEPT !.step = "marker_back"] /\ Sync
       \/ /\ t.step = "marker_back"
          /\ t' = [t EXCEPT !.step = "rearchive"]
          /\ IF ns.staging.marker = t.cand THEN Still ELSE Rename([ns EXCEPT !.staging.marker = t.cand, !.slot[t.cand].marker = None])
       \/ t.step = "rearchive" /\ Goto("rearchive_sync") /\ Rename([ns EXCEPT !.slot[t.cand] = ns.staging, !.staging = ns.slot[t.cand]])
       \/ t.step = "rearchive_sync" /\ Goto("repair") /\ Sync

(* An error after a prerequisite rename is tried again once, one after the
   exchange finishes the syncs once, one before both is final. *)
RearchiveFails ==
    /\ ~Quarantines
    /\ \/ t.step = "preserve" /\ PreserveFails
       \/ t.step \in {"unpark_sync", "marker_back", "rearchive"} /\ IF t.retried THEN PreserveFails ELSE Retry("preserve") /\ Still
       \/ t.step = "rearchive_sync" /\ IF t.retried THEN PreserveFails ELSE Retry("rearchive_sync") /\ Still

(* invalidate_fresh_candidate: the quarantine is synced and checked again,
   then the row is removed. *)
invalidate_fresh_candidate ==
    /\ t.step = "invalidate"
    /\ \/ Goto("repair") /\ rows' = rows \ {t.cand} /\ disk' = {ns} /\ UNCHANGED <<ns, boot, last>>
       \/ t' = [t EXCEPT !.step = "repair", !.failures = @ \cup {"invalidate"}] /\ Still

(* The boot volume of the restored state is written again, and reported as
   unverified whatever the result. *)
legacy_boot_repair ==
    /\ t.step = "repair" /\ t.booted
    /\ boot' \in IF t.prev = Empty THEN {boot} ELSE {boot, "mixed", t.prev}
    /\ t' = [t EXCEPT !.booted = FALSE, !.failures = @ \cup {"boot"}]
    /\ UNCHANGED <<ns, disk, rows, last>>

Recovered ==
    /\ t.step = "repair" /\ ~t.booted
    /\ EndWith(IF t.failures # {} THEN "recovery_failed" ELSE IF t.swapped THEN "restored" ELSE "preserved")

-----------------------------------------------------------------------------
Kill ==
    /\ t # Idle
    /\ EndWith("killed")

PowerLoss ==
    /\ \E d \in disk : ns' = d /\ disk' = {d}
    /\ t' = Idle /\ last' = [result |-> "killed", t |-> Idle, boot |-> boot]
    /\ UNCHANGED <<rows, boot>>

Begin == \E c \in States : (c \in New /\ materialize_stateful_candidate(c)) \/ activate_state(c)

Forward ==
    \/ new_state \/ AddFails \/ prepare_candidate \/ apply_stateful_blit_with_capability
    \/ stage_archived_candidate \/ ensure_slot_marker_location \/ finish_move \/ finish_applied_archived_candidate_stage
    \/ exchange_live_and_staged \/ finish_exchange \/ apply_triggers
    \/ create_previous_archive_attempt \/ ArchiveRefused \/ finish_previous_archive_slot_creation
    \/ archive_previous \/ finish_previous_move \/ finish_applied_previous_archive
    \/ reconcile_previous_pre_move_failure \/ finish_not_applied_previous_archive
    \/ synchronize \/ retire_displaced_archived_candidate_slot \/ commit_stateful_staging

Recovery ==
    \/ previous_archive_cleanup \/ restore_previous_to_staging \/ finish_applied_previous_restore
    \/ exchange_staging_and_live_usr \/ finish_applied_reverse
    \/ quarantine_candidate \/ RetireFailed \/ recover_failed_candidate
    \/ rearchive_archived_candidate \/ RearchiveFails \/ invalidate_fresh_candidate
    \/ legacy_boot_repair \/ Recovered

TransitionNext == Begin \/ Forward \/ Recovery \/ Kill \/ PowerLoss

-----------------------------------------------------------------------------
(* Whatever namespace survives, the live tree belongs to a state with a row:
   commit_stateful_staging and its recovery never leave /usr to a state that
   the database no longer knows. *)
LiveHasRow == subject = "transition" => (\A d \in disk : d.live \in rows \cup {Empty})

(* A transition that reports a complete end left exactly that, and durably:
   committed is the candidate live, the previous tree in its slot and an empty
   staging; restored and preserved are the previous tree live, an empty
   staging, the boot volume untouched, no new slot under the previous state's
   name (it would block every later archive), and the candidate in quarantine
   without a row (new), in quarantine (its triggers were interrupted) or back in its
   slot with its marker. *)
EndIsWhole == subject = "transition" =>
    (LET c == last.t.cand
        p == last.t.prev
    IN  /\ last.result = "committed" =>
             /\ ns.live = c /\ ns.slot[c] = None /\ c \in rows /\ disk = {ns}
             /\ p # Empty => ns.staging = Bare /\ ns.slot[p].usr = p
        /\ last.result \in {"restored", "preserved"} =>
             /\ ns.live = p /\ ns.staging = Bare /\ disk = {ns} /\ boot = last.boot
             /\ p # Empty /\ ~last.t.blocked => ns.slot[p] = None
             /\ IF last.t.origin = "Fresh" THEN c \in ns.quarantine /\ c \notin rows
                ELSE IF last.t.triggers THEN c \in ns.quarantine /\ ns.slot[c] = None
                ELSE ns.slot[c] = [usr |-> c, marker |-> c])

(* recover_failed_candidate never deletes the only database correlation of a
   candidate that is not durably preserved: when a row goes, every namespace
   that may survive has the tree in quarantine. *)
RowGoesLast == [][subject = "transition" => (\A s \in rows \ rows' : \A d \in disk' : s \in d.quarantine)]_TransitionVars

(* No state has its tree under two names, and none that was ever archived or
   active loses it, in any namespace that may survive: the renames and the
   syncs between them are ordered so.  (new_state adds the row before the tree
   is sealed, so a new state may be left with a row and no tree.) *)
Names(d, s) ==
    {<<"slot", n>> : n \in {n \in States : d.slot[n] # None /\ d.slot[n].usr = s}}
    \cup {<<x, s>> : x \in {x \in {"live", "staging", "quarantine"} :
            CASE x = "live" -> d.live = s [] x = "staging" -> d.staging.usr = s [] OTHER -> s \in d.quarantine}}
OneTreeEach == subject = "transition" =>
    (\A d \in disk : \A s \in rows :
        /\ Cardinality(Names(d, s)) <= 1
        /\ s \notin New \/ d.live = s \/ ns.live = s => Names(d, s) # {})

(* Every transition that is not killed ends: each part that is tried again is
   tried once. *)
EveryTransitionEnds == (subject = "transition" /\ (t # Idle)) ~> (subject = "transition" => (t = Idle))
=============================================================================
