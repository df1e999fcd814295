----------------------------- MODULE Container ------------------------------
(***************************************************************************)
(* The container of a build: the start, the supervision and the end of the  *)
(* contained process, and the control group leaf that limits it.            *)
(***************************************************************************)
EXTENDS Parts, Naturals, Sequences, SequencesExt, FiniteSets

CONSTANTS
    Modes,               \* the activation paths: "cgroup", "legacy"
    ContainerMaxFaults,  \* bound on failing calls
    ContainerMaxOutside, \* bound on processes of others in the leaf and kills by the kernel
    ContainerMaxKills,   \* bound on deaths of the supervisor
    ContainerNames,      \* unpredictable leaf names
    MAX_RETIRED_CGROUPS, \* dying descendants a cleanup tolerates
    LEAF_CREATE_ATTEMPTS,
    MaxLeaves,           \* bound on groups ever made
    MaxCgroupFaults  \* bounds on failing calls and changes by others

VARIABLES
    inputs,      \* what the caller asks for
    sup,         \* the supervisor
    child,       \* the cloned process
    leaf,        \* the cgroup leaf: does it exist, who is in it
    sock,        \* the packet socket between the two
    mask,        \* the supervisor's signal mask
    sigint,      \* the supervisor's SIGINT disposition
    unready,     \* ghost: the supervisor died after the release and before the child could notice
    spent,
    container_root,  \* the delegated root: enabled controllers, lock, dying descendants, members of the supervisor's group
    groups,      \* the groups beside the supervisor's, by name
    held,        \* what the caller holds: nothing, the root, a leaf or a recovery
    since,       \* ghost: what others changed in the leaf after it was last verified
    ghost  \* the groups of others a removal hit, and whether a name moved where no check can see it

ContainerVars == <<subject, inputs, sup, child, leaf, sock, mask, sigint, unready, spent, container_root, groups, op, held,
                   since, ghost>>

-----------------------------------------------------------------------------
(***************************************************************************)
(* One activation of a container: the supervisor prepares, clones a child, *)
(* maps its identities, releases it with one packet, waits, and takes the  *)
(* cgroup leaf down; the child confines itself and runs the payload.       *)
(* Supervisor and child are two straight-line programs that interleave.    *)
(* A supervisor step is <<the call, what its failure unwinds>>: "prepared" *)
(* has no child yet, "masked" has every signal blocked, "spawned" has a    *)
(* child and a blocked mask, "started" has a child, "result" has reaped    *)
(* it.  The legacy path clones without a leaf and waits by number; the     *)
(* cgroup path clones into the leaf and waits by pidfd, within a timeout.  *)
(* What a leaf is made of, and its probes, are in a section below.         *)
(***************************************************************************)

Inputs == [mode : Modes, anchored : BOOLEAN, exposes : {"nothing", "root", "sys", "bind"}, alone : BOOLEAN, sigchld : {"waitable", "ignored"}, ignore : BOOLEAN]
Cgroup == inputs.mode = "cgroup"

-----------------------------------------------------------------------------
(* The supervisor's program. *)
Unwinding(how, acts) == [i \in 1..Len(acts) |-> <<acts[i], how>>]
Only(condition, acts) == IF condition THEN acts ELSE <<>>

Preparation(in) ==
    Unwinding("prepared",
        <<"authenticate_anchored_inputs">> \o
        Only(in.mode = "cgroup", <<"require_atomic_cgroup_policy", "require_atomic_cgroup_bind_policy">>) \o
        <<"prepare_private_device_capability">> \o Only(in.mode = "legacy", <<"CloneStack">>) \o <<"SyncSocket">>)

SpawnIntoCgroup ==
    Unwinding("prepared", <<"placement", "block_all">>) \o
    Unwinding("masked", <<"validated_caller_identity", "require_single_threaded_process", "require_waitable_sigchld_disposition", "clone3_into_cgroup">>) \o
    Unwinding("spawned", <<"restore_mask">>)

SpawnLegacy ==
    Unwinding("prepared", <<"block_all">>) \o
    Unwinding("masked", <<"require_single_threaded_process", "require_waitable_sigchld_disposition", "validated_caller_identity", "clone">>) \o
    Unwinding("spawned", <<"restore_mask">>)

idmap == <<"ensure_unchanged_caller_credentials", "write_uid_map", "write_gid_map", "verify_maps">>

\* Mutant: the child is released before its identities are mapped.
Supervision_early(in) ==
    Unwinding("started", <<"close_child_endpoint", "send_continue">> \o idmap \o
        Only(in.mode = "cgroup", <<"require_sole_member">>) \o Only(in.ignore, <<"install_sigint">>) \o <<"wait">>) \o
    Unwinding("result", Only(in.ignore, <<"restore_sigint">>) \o <<"status">>)

Supervision(in) ==
    Unwinding("started", <<"close_child_endpoint">> \o idmap \o
        Only(in.mode = "cgroup", <<"require_sole_member">>) \o Only(in.ignore, <<"install_sigint">>) \o <<"send_continue", "wait">>) \o
    Unwinding("result", Only(in.ignore, <<"restore_sigint">>) \o <<"status">>)

kill_and_remove(in) == Unwinding("leaf", Only(in.mode = "cgroup", <<"kill_leaf", "wait_until_empty", "remove_authenticated", "probe_cleanup_baseline">>))

finalize_started_cgroup(in) == kill_and_remove(in) \o Unwinding("retry", Only(in.mode = "cgroup", <<"retry_child_cleanup", "reap_child">>))

Return == <<<<"return", "none">>>>

run_internal(in) ==
    Preparation(in) \o (IF in.mode = "cgroup" THEN SpawnIntoCgroup ELSE SpawnLegacy) \o Supervision(in) \o finalize_started_cgroup(in) \o Return

-----------------------------------------------------------------------------
(* What a failure unwinds. *)
cleanup_unstarted_cgroup(in) == Unwinding("leaf", Only(in.mode = "cgroup", <<"remove_unstarted", "probe_cleanup_baseline">>))

cleanup_after_failure(in) == IF in.mode = "cgroup" THEN Unwinding("child", <<"kill_child", "reap_child">>) ELSE Unwinding("none", <<"abort_child">>)

(* A guard whose restore failed tries once more when it is dropped. *)
Restored == Unwinding("none", <<"restore_after_failure">>)
DropMask == Unwinding("none", <<"drop_mask">>)
DropSigint == Unwinding("none", <<"drop_sigint">>)

\* Mutant: a failure before there is a child cleans up after one.
Unwound_reaps(in, how) ==
    CASE how = "prepared" -> cleanup_after_failure(in) \o cleanup_unstarted_cgroup(in) \o Return
      [] how = "masked" -> Restored \o DropMask \o cleanup_unstarted_cgroup(in) \o Return
      [] how = "spawned" -> cleanup_after_failure(in) \o DropMask \o cleanup_unstarted_cgroup(in) \o Return
      [] how = "started" -> cleanup_after_failure(in) \o DropSigint \o finalize_started_cgroup(in) \o Return
      [] how = "result" -> DropSigint \o finalize_started_cgroup(in) \o Return
Unwound(in, how) ==
    CASE how = "prepared" -> cleanup_unstarted_cgroup(in) \o Return
      [] how = "masked" -> Restored \o DropMask \o cleanup_unstarted_cgroup(in) \o Return
      [] how = "spawned" -> cleanup_after_failure(in) \o DropMask \o cleanup_unstarted_cgroup(in) \o Return
      [] how = "started" -> cleanup_after_failure(in) \o DropSigint \o finalize_started_cgroup(in) \o Return
      [] how = "result" -> DropSigint \o finalize_started_cgroup(in) \o Return

-----------------------------------------------------------------------------
(* The child's program. *)
Confinement == <<"isolate_payload_credentials", "setup", "validate_payload_standard_fds", "sanitize_payload_fds", "restrict_payload_scheduler", "drop_all_payload_capabilities", "install_payload_filter">>

enter == <<"set_pdeathsig", "read_continue">> \o Confinement \o <<"restore_child_mask", "payload">>

child_exit_code(in) == Only(in.mode = "cgroup", <<"close_inherited_cgroup_descriptors">>) \o <<"close_supervisor_endpoint">> \o enter \o <<"exit">>

-----------------------------------------------------------------------------
NoChild == [life |-> "none", todo |-> <<>>, done |-> {}, maps |-> {}, code |-> "none"]
Live == child.life = "alive"

ActivationInit ==
    /\ inputs \in Inputs
    /\ inputs.mode = "legacy" => inputs.exposes = "nothing"    \* only the cgroup policy reads it
    /\ ~inputs.anchored => inputs.exposes \in {"nothing", "sys"}
    /\ sup = [life |-> "running", todo |-> run_internal(inputs), err |-> "none", kept |-> {}, released |-> FALSE]
    /\ child = NoChild
    /\ leaf = [exists |-> inputs.mode = "cgroup", members |-> {}]
    /\ sock = [open |-> FALSE, copy |-> FALSE, continue |-> FALSE, report |-> FALSE]
    /\ mask = "own"
    /\ sigint = "own"
    /\ unready = FALSE
    /\ spent = [faults |-> 0, outside |-> 0, kills |-> 0]

ContainerAt(act) == sup.life = "running" /\ sup.todo[1][1] = act
How == sup.todo[1][2]
Next_ == [sup EXCEPT !.todo = Tail(@)]
ContainerMayFail == spent.faults < ContainerMaxFaults /\ spent' = [spent EXCEPT !.faults = @ + 1]
ContainerNoFault == UNCHANGED spent

(* The first error is the one returned. *)
ContainerNoted(error) == IF sup.err = "none" THEN error ELSE sup.err
ContainerFails == sup' = [sup EXCEPT !.todo = Unwound(inputs, How), !.err = ContainerNoted("failure")]

(* Once the leaf is lost to the cleanup, the rest of it is skipped. *)
LeafKept(then) == [sup EXCEPT !.todo = then, !.err = ContainerNoted("failure"), !.kept = @ \cup {"leaf"}]

-----------------------------------------------------------------------------
(* The supervisor: preparation. *)
Call(act, allowed) ==
    /\ ContainerAt(act)
    /\ \/ allowed /\ sup' = Next_ /\ ContainerNoFault
       \/ ~allowed /\ ContainerFails /\ ContainerNoFault
       \/ allowed /\ ContainerFails /\ ContainerMayFail
    /\ UNCHANGED <<inputs, child, leaf, sock, mask, sigint, unready>>

authenticate_anchored_inputs == Call("authenticate_anchored_inputs", TRUE)
prepare_private_device_capability == Call("prepare_private_device_capability", TRUE)
CloneStack == Call("CloneStack", TRUE)
validated_caller_identity == Call("validated_caller_identity", TRUE)
require_single_threaded_process == Call("require_single_threaded_process", inputs.alone)
require_waitable_sigchld_disposition == Call("require_waitable_sigchld_disposition", inputs.sigchld = "waitable")
ensure_unchanged_caller_credentials == Call("ensure_unchanged_caller_credentials", TRUE)

require_atomic_cgroup_policy == Call("require_atomic_cgroup_policy", inputs.anchored /\ inputs.exposes \notin {"root", "sys"})

require_atomic_cgroup_bind_policy == Call("require_atomic_cgroup_bind_policy", inputs.exposes # "bind")

SyncSocket ==
    /\ ContainerAt("SyncSocket")
    /\ \/ sup' = Next_ /\ sock' = [sock EXCEPT !.open = TRUE, !.copy = TRUE] /\ ContainerNoFault
       \/ ContainerFails /\ ContainerMayFail /\ UNCHANGED sock
    /\ UNCHANGED <<inputs, child, leaf, mask, sigint, unready>>

(* The ready probe requires an empty leaf. *)
placement == Call("placement", leaf.members = {})

block_all ==
    /\ ContainerAt("block_all")
    /\ \/ sup' = Next_ /\ mask' = "blocked" /\ ContainerNoFault
       \/ ContainerFails /\ ContainerMayFail /\ UNCHANGED mask
    /\ UNCHANGED <<inputs, child, leaf, sock, sigint, unready>>

Spawned == child' = [NoChild EXCEPT !.life = "alive", !.todo = child_exit_code(inputs)]

(* A child whose pidfd is unusable is killed and reaped before the error. *)
clone3_into_cgroup ==
    /\ ContainerAt("clone3_into_cgroup")
    /\ \/ sup' = Next_ /\ Spawned /\ leaf' = [leaf EXCEPT !.members = @ \cup {"child"}] /\ ContainerNoFault
       \/ ContainerFails /\ ContainerMayFail /\ UNCHANGED <<child, leaf>>
       \/ ContainerFails /\ ContainerMayFail /\ child' = [NoChild EXCEPT !.life = "reaped", !.code = "signal"] /\ UNCHANGED leaf
    /\ UNCHANGED <<inputs, sock, mask, sigint, unready>>

clone ==
    /\ ContainerAt("clone")
    /\ \/ sup' = Next_ /\ Spawned /\ ContainerNoFault
       \/ ContainerFails /\ ContainerMayFail /\ UNCHANGED child
    /\ UNCHANGED <<inputs, leaf, sock, mask, sigint, unready>>

restore_mask ==
    /\ ContainerAt("restore_mask")
    /\ \/ sup' = Next_ /\ mask' = "own" /\ ContainerNoFault
       \/ ContainerFails /\ ContainerMayFail /\ UNCHANGED mask
    /\ UNCHANGED <<inputs, child, leaf, sock, sigint, unready>>

restore_after_failure ==
    /\ ContainerAt("restore_after_failure")
    /\ sup' = Next_
    /\ \/ mask' = "own" /\ ContainerNoFault
       \/ UNCHANGED mask /\ ContainerMayFail
    /\ UNCHANGED <<inputs, child, leaf, sock, sigint, unready>>

drop_mask ==
    /\ ContainerAt("drop_mask")
    /\ sup' = Next_
    /\ \/ mask' = "own" /\ ContainerNoFault
       \/ mask = "blocked" /\ mask' = "lost" /\ ContainerMayFail
    /\ UNCHANGED <<inputs, child, leaf, sock, sigint, unready>>

-----------------------------------------------------------------------------
(* The supervisor: the child. *)
close_child_endpoint ==
    /\ ContainerAt("close_child_endpoint")
    /\ sock' = [sock EXCEPT !.copy = FALSE]
    /\ \/ sup' = Next_ /\ ContainerNoFault
       \/ ContainerFails /\ ContainerMayFail
    /\ UNCHANGED <<inputs, child, leaf, mask, sigint, unready>>

(* A map of a child that has died is written or refused. *)
WriteMap(act, map) ==
    /\ ContainerAt(act)
    /\ \/ sup' = Next_ /\ child' = [child EXCEPT !.maps = @ \cup {map}] /\ ContainerNoFault
       \/ ~Live /\ ContainerFails /\ UNCHANGED child /\ ContainerNoFault
       \/ Live /\ ContainerFails /\ UNCHANGED child /\ ContainerMayFail
    /\ UNCHANGED <<inputs, leaf, sock, mask, sigint, unready>>

write_uid_map == WriteMap("write_uid_map", "uid")

(* A direct write that is not permitted goes through the setuid helper. *)
write_gid_map ==
    \/ WriteMap("write_gid_map", "gid")
    \/ /\ ContainerAt("write_gid_map")
       /\ sup' = [sup EXCEPT !.todo = <<<<"map_gid_with_helper", "started">>>> \o Tail(@)]
       /\ UNCHANGED <<inputs, child, leaf, sock, mask, sigint, unready, spent>>

map_gid_with_helper == WriteMap("map_gid_with_helper", "gid")

verify_maps ==
    /\ ContainerAt("verify_maps")
    /\ \/ child.maps = {"uid", "gid"} /\ sup' = Next_ /\ ContainerNoFault
       \/ ContainerFails /\ ContainerMayFail
    /\ UNCHANGED <<inputs, child, leaf, sock, mask, sigint, unready>>

require_sole_member == Call("require_sole_member", leaf.members = {"child"})

install_sigint ==
    /\ ContainerAt("install_sigint")
    /\ \/ sup' = Next_ /\ sigint' = "ignored" /\ ContainerNoFault
       \/ ContainerFails /\ ContainerMayFail /\ UNCHANGED sigint
    /\ UNCHANGED <<inputs, child, leaf, sock, mask, unready>>

(* A packet needs a reader: the child's endpoint is gone with the child. *)
send_continue ==
    /\ ContainerAt("send_continue")
    /\ \/ child.life \in {"alive", "dying"} /\ sup' = [Next_ EXCEPT !.released = TRUE] /\ sock' = [sock EXCEPT !.continue = TRUE] /\ ContainerNoFault
       \/ child.life \notin {"alive", "dying"} /\ ContainerFails /\ UNCHANGED sock /\ ContainerNoFault
       \/ ContainerFails /\ UNCHANGED sock /\ ContainerMayFail
    /\ UNCHANGED <<inputs, child, leaf, mask, sigint, unready>>

wait ==
    /\ ContainerAt("wait")
    /\ \/ child.life = "zombie" /\ sup' = Next_ /\ child' = [child EXCEPT !.life = "reaped"] /\ ContainerNoFault
       \/ ContainerFails /\ UNCHANGED child /\ ContainerMayFail
    /\ UNCHANGED <<inputs, leaf, sock, mask, sigint, unready>>

restore_sigint ==
    /\ ContainerAt("restore_sigint")
    /\ \/ sup' = Next_ /\ sigint' = "own" /\ ContainerNoFault
       \/ ContainerFails /\ UNCHANGED sigint /\ ContainerMayFail
    /\ UNCHANGED <<inputs, child, leaf, sock, mask, unready>>

drop_sigint ==
    /\ ContainerAt("drop_sigint")
    /\ sup' = Next_
    /\ \/ sigint' = "own" /\ ContainerNoFault
       \/ sigint = "ignored" /\ sigint' = "lost" /\ ContainerMayFail
    /\ UNCHANGED <<inputs, child, leaf, sock, mask, unready>>

(* A failing child explains itself in the packet it left, if it could. *)
status ==
    /\ ContainerAt("status")
    /\ \/ sup' = [Next_ EXCEPT !.err = CASE child.code = "ok" -> ContainerNoted("none")
                                         [] child.code = "signal" -> ContainerNoted("signaled")
                                         [] child.code = "error" -> ContainerNoted(IF sock.report THEN "child" ELSE "unexplained")] /\ ContainerNoFault
       \/ child.code = "error" /\ sup' = [Next_ EXCEPT !.err = ContainerNoted("failure")] /\ ContainerMayFail
    /\ UNCHANGED <<inputs, child, leaf, sock, mask, sigint, unready>>

-----------------------------------------------------------------------------
(* The supervisor: cleanup.  SIGKILL leaves a process dying. *)
Killed(c) == IF c.life = "alive" THEN [c EXCEPT !.life = "dying", !.todo = <<>>] ELSE c
KeepPidfd == sup' = [Next_ EXCEPT !.kept = @ \cup {"pidfd"}]

(* By number, and without a bound on the wait. *)
abort_child ==
    /\ ContainerAt("abort_child")
    /\ IF child.life \in {"zombie", "reaped"}
         THEN sup' = Next_ /\ child' = [child EXCEPT !.life = "reaped"]
         ELSE child' = Killed(child) /\ UNCHANGED sup
    /\ UNCHANGED <<inputs, leaf, sock, mask, sigint, unready, spent>>

(* A signal that cannot be sent is forgiven only to a child that has already ended. *)
cleanup_pidfd_child ==
    \/ sup' = Next_ /\ child' = Killed(child) /\ ContainerNoFault
    \/ /\ ContainerMayFail
       /\ IF child.life \in {"zombie", "reaped"}
            THEN sup' = [sup EXCEPT !.todo = Tail(Tail(@)), !.kept = @ \ {"pidfd"}] /\ child' = [child EXCEPT !.life = "reaped"]
            ELSE sup' = [sup EXCEPT !.todo = Tail(Tail(@)), !.kept = @ \cup {"pidfd"}] /\ UNCHANGED child

kill_child ==
    /\ ContainerAt("kill_child")
    /\ cleanup_pidfd_child
    /\ UNCHANGED <<inputs, leaf, sock, mask, sigint, unready>>

(* The reap is polled until it times out. *)
wait_for_pidfd_reap ==
    /\ ContainerAt("reap_child")
    /\ \/ /\ child.life \in {"zombie", "reaped"}
          /\ sup' = [Next_ EXCEPT !.kept = @ \ {"pidfd"}]
          /\ child' = [child EXCEPT !.life = "reaped"]
          /\ ContainerNoFault
       \/ child.life = "dying" /\ KeepPidfd /\ UNCHANGED child /\ ContainerNoFault
       \/ child.life = "zombie" /\ KeepPidfd /\ UNCHANGED child /\ ContainerMayFail
    /\ UNCHANGED <<inputs, leaf, sock, mask, sigint, unready>>

(* A leaf taken down cleanly lets a kept pidfd be tried again. *)
retry_child_cleanup_after_cgroup ==
    /\ ContainerAt("retry_child_cleanup")
    /\ IF "pidfd" \in sup.kept /\ "leaf" \notin sup.kept
         THEN cleanup_pidfd_child
         ELSE sup' = [sup EXCEPT !.todo = Tail(Tail(@))] /\ UNCHANGED <<child, spent>>
    /\ UNCHANGED <<inputs, leaf, sock, mask, sigint, unready>>

-----------------------------------------------------------------------------
(* The supervisor: the leaf.  A failed kill is noted and the drain awaited. *)
kill_leaf ==
    /\ ContainerAt("kill_leaf")
    /\ \/ /\ sup' = Next_ /\ ContainerNoFault
          /\ child' = IF "child" \in leaf.members THEN Killed(child) ELSE child
          /\ leaf' = [leaf EXCEPT !.members = @ \ {"other"}]
       \/ sup' = LeafKept(Tail(sup.todo)) /\ UNCHANGED <<child, leaf>> /\ ContainerMayFail
    /\ UNCHANGED <<inputs, sock, mask, sigint, unready>>

wait_until_empty ==
    /\ ContainerAt("wait_until_empty")
    /\ \/ leaf.members = {} /\ sup' = Next_ /\ ContainerNoFault
       \/ leaf.members # {} /\ sup' = LeafKept(Return) /\ ContainerNoFault
       \/ leaf.members = {} /\ sup' = LeafKept(Return) /\ ContainerMayFail
    /\ UNCHANGED <<inputs, child, leaf, sock, mask, sigint, unready>>

ContainerRemoving ==
    /\ \/ leaf.members = {} /\ sup' = Next_ /\ leaf' = [leaf EXCEPT !.exists = FALSE] /\ ContainerNoFault
       \/ leaf.members # {} /\ sup' = LeafKept(Return) /\ UNCHANGED leaf /\ ContainerNoFault
       \/ leaf.members = {} /\ sup' = LeafKept(Return) /\ UNCHANGED leaf /\ ContainerMayFail
    /\ UNCHANGED <<inputs, child, sock, mask, sigint, unready>>

remove_authenticated == ContainerAt("remove_authenticated") /\ ContainerRemoving

remove_unstarted == ContainerAt("remove_unstarted") /\ ContainerRemoving

probe_cleanup_baseline ==
    /\ ContainerAt("probe_cleanup_baseline")
    /\ \/ sup' = Next_ /\ ContainerNoFault
       \/ sup' = LeafKept(Return) /\ ContainerMayFail
    /\ UNCHANGED <<inputs, child, leaf, sock, mask, sigint, unready>>

(* The socket and the guards go with the frame. *)
return ==
    /\ ContainerAt("return")
    /\ sup' = [Next_ EXCEPT !.life = "returned"]
    /\ sock' = [sock EXCEPT !.open = FALSE]
    /\ UNCHANGED <<inputs, child, leaf, mask, sigint, unready, spent>>

-----------------------------------------------------------------------------
(* The child.  Its descendants share its PID namespace and end with it. *)
ChildAt(act) == Live /\ child.todo[1] = act
ContainerEnded(c, code) == [c EXCEPT !.life = "zombie", !.todo = <<>>, !.code = code]
LeavesLeaf == leaf' = [leaf EXCEPT !.members = @ \ {"child"}]
ChildNext == child' = [child EXCEPT !.todo = Tail(@), !.done = @ \cup {child.todo[1]}]

(* The error is sent without waiting; a packet that does not go out is lost. *)
report_child_error ==
    /\ child' = ContainerEnded(child, "error")
    /\ LeavesLeaf
    /\ \/ sock' = [sock EXCEPT !.report = sock.open]
       \/ UNCHANGED sock

ChildCall(act) ==
    /\ ChildAt(act)
    /\ \/ ChildNext /\ ContainerNoFault /\ UNCHANGED <<leaf, sock>>
       \/ report_child_error /\ ContainerMayFail
    /\ UNCHANGED <<inputs, sup, mask, sigint, unready>>

close_inherited_cgroup_descriptors == ChildCall("close_inherited_cgroup_descriptors")
close_sync_endpoint == ChildCall("close_supervisor_endpoint")
set_pdeathsig == ChildCall("set_pdeathsig")
isolate_payload_credentials == ChildCall("isolate_payload_credentials")
setup == ChildCall("setup")
validate_payload_standard_fds == ChildCall("validate_payload_standard_fds")
sanitize_payload_fds == ChildCall("sanitize_payload_fds")
restrict_payload_scheduler == ChildCall("restrict_payload_scheduler")
drop_all_payload_capabilities == ChildCall("drop_all_payload_capabilities")
install_payload_filter == ChildCall("install_payload_filter")
restore_child_mask == ChildCall("restore_child_mask")

payload ==
    /\ ChildAt("payload")
    /\ ChildNext
    /\ UNCHANGED <<inputs, sup, leaf, sock, mask, sigint, unready, spent>>

(* The read ends with the packet or, once no supervisor holds the socket, with nothing. *)
read_continue ==
    /\ ChildAt("read_continue")
    /\ \/ sock.continue /\ ChildNext /\ sock' = [sock EXCEPT !.continue = FALSE] /\ UNCHANGED leaf /\ ContainerNoFault
       \/ ~sock.continue /\ ~sock.open /\ report_child_error /\ ContainerNoFault
       \/ report_child_error /\ ContainerMayFail
    /\ UNCHANGED <<inputs, sup, mask, sigint, unready>>

(* The payload returns: its error is reported like one of the setup. *)
exit ==
    /\ ChildAt("exit")
    /\ \/ child' = ContainerEnded(child, "ok") /\ LeavesLeaf /\ UNCHANGED sock
       \/ report_child_error
    /\ UNCHANGED <<inputs, sup, mask, sigint, unready, spent>>

(* The kernel finishes a killed process. *)
Dies ==
    /\ child.life = "dying"
    /\ child' = ContainerEnded(child, "signal")
    /\ LeavesLeaf
    /\ UNCHANGED <<inputs, sup, sock, mask, sigint, unready, spent>>

-----------------------------------------------------------------------------
(* Others: the kernel or an operator kills the child, a process joins the leaf. *)
ContainerOutside ==
    /\ spent.outside < ContainerMaxOutside
    /\ spent' = [spent EXCEPT !.outside = @ + 1]
    /\ \/ Live /\ child' = Killed(child) /\ UNCHANGED leaf
       \/ leaf.exists /\ leaf' = [leaf EXCEPT !.members = @ \cup {"other"}] /\ UNCHANGED child
    /\ UNCHANGED <<inputs, sup, sock, mask, sigint, unready>>

(* The supervisor dies; its child hears of it if it has asked to, and init reaps it. *)
ContainerKill ==
    /\ spent.kills < ContainerMaxKills /\ sup.life = "running"
    /\ spent' = [spent EXCEPT !.kills = @ + 1]
    /\ sup' = [sup EXCEPT !.life = "dead"]
    /\ sock' = [sock EXCEPT !.open = FALSE]
    /\ child' = IF "set_pdeathsig" \in child.done THEN Killed(child) ELSE child
    /\ unready' = sock.continue
    /\ mask' = "own" /\ sigint' = "own"
    /\ UNCHANGED <<inputs, leaf>>

SupervisorStep ==
    \/ authenticate_anchored_inputs \/ prepare_private_device_capability \/ CloneStack \/ validated_caller_identity
    \/ require_single_threaded_process \/ require_waitable_sigchld_disposition \/ ensure_unchanged_caller_credentials
    \/ require_atomic_cgroup_policy \/ require_atomic_cgroup_bind_policy \/ SyncSocket \/ placement \/ block_all
    \/ clone3_into_cgroup \/ clone \/ restore_mask \/ restore_after_failure \/ drop_mask
    \/ close_child_endpoint \/ write_uid_map \/ write_gid_map \/ map_gid_with_helper \/ verify_maps
    \/ require_sole_member \/ install_sigint \/ send_continue \/ wait \/ restore_sigint \/ drop_sigint \/ status
    \/ abort_child \/ kill_child \/ wait_for_pidfd_reap \/ retry_child_cleanup_after_cgroup
    \/ kill_leaf \/ wait_until_empty \/ remove_authenticated \/ remove_unstarted \/ probe_cleanup_baseline \/ return

ChildProcess ==
    \/ close_inherited_cgroup_descriptors \/ close_sync_endpoint \/ set_pdeathsig \/ read_continue
    \/ isolate_payload_credentials \/ setup \/ validate_payload_standard_fds \/ sanitize_payload_fds \/ restrict_payload_scheduler
    \/ drop_all_payload_capabilities \/ install_payload_filter \/ restore_child_mask \/ payload \/ exit \/ Dies

ActivationNext == SupervisorStep \/ ChildProcess \/ ContainerOutside \/ ContainerKill

(* Both processes are scheduled, a payload ends, and no call has to fail. *)

-----------------------------------------------------------------------------
Returned == sup.life = "returned"

(* The variables hold the values the code gives them. *)
ActivationTypeOK ==
    /\ inputs \in Inputs
    /\ sup.life \in {"running", "returned", "dead"} /\ sup.err \in {"none", "failure", "child", "signaled", "unexplained"}
    /\ sup.kept \subseteq {"pidfd", "leaf"}
    /\ child.life \in {"none", "alive", "dying", "zombie", "reaped"} /\ child.code \in {"none", "ok", "error", "signal"}
    /\ child.maps \subseteq {"uid", "gid"}
    /\ leaf.members \subseteq {"child", "other"}
    /\ mask \in {"own", "blocked", "lost"} /\ sigint \in {"own", "ignored", "lost"}

(* A payload runs only in a child the supervisor released after mapping   *)
(* both identities, behind every step of the confinement and, when a leaf *)
(* was asked for, inside the leaf under a root and binds that do not      *)
(* expose the cgroup file system: whatever failed, died or raced before   *)
(* (enter, run_internal).                                                 *)
PayloadConfined == subject = "activation" =>
    ("payload" \in child.done =>
        /\ sup.released
        /\ child.maps = {"uid", "gid"}
        /\ ToSet(Confinement) \cup {"restore_child_mask"} \subseteq child.done
        /\ Cgroup => inputs.anchored /\ inputs.exposes = "nothing"
        /\ Cgroup /\ Live => leaf.exists /\ "child" \in leaf.members)

(* When the activation returns, its child has been reaped, or the error   *)
(* carries the pidfd that still designates it                             *)
(* (ChildLifecycle::cleanup_after_failure, ChildPidfdQuarantine).         *)
ChildAccounted == subject = "activation" =>
    (Returned => child.life \in {"none", "reaped"} \/ (Cgroup /\ "pidfd" \in sup.kept /\ sup.err # "none"))

(* When the activation returns, its leaf has been removed, or the error   *)
(* carries the leaf (cleanup_unstarted_cgroup, finalize_started_cgroup).  *)
LeafAccounted == subject = "activation" =>
    (Returned => ~leaf.exists \/ ("leaf" \in sup.kept /\ sup.err # "none"))

(* A returning activation leaves the caller's signal mask and SIGINT      *)
(* disposition as they were; only two failing restores in a row can lose  *)
(* them, and then an error is returned (BlockedSignalMask,                *)
(* SignalOverride).                                                       *)
CallerStateRestored == subject = "activation" =>
    (Returned => \A held1 \in {mask, sigint} : held1 = "own" \/ (held1 = "lost" /\ sup.err # "none"))

(* An activation that returns success has run the payload to its          *)
(* successful end, and nothing of it is left                              *)
(* (run_internal, finalize_started_cgroup).                               *)
SuccessMeansDone == subject = "activation" =>
    (Returned /\ sup.err = "none" => "payload" \in child.done /\ child.code = "ok" /\ child.life = "reaped" /\ ~leaf.exists)

(* A payload that outlives its supervisor was released by a packet the    *)
(* child had not yet read when the supervisor died: from the read on, the *)
(* death signal is armed (enter).                                         *)
OrphanWasUnready == subject = "activation" => (sup.life = "dead" /\ Live /\ "payload" \in child.done => unready)

(* Every activation comes to an end, whatever fails: no wait of the       *)
(* supervisor is for a child that waits for the supervisor                *)
(* (run_internal, cleanup_pidfd_child, wait_until_empty).                 *)
EveryRunReturns == <>(subject = "activation" => (sup.life # "running"))

-----------------------------------------------------------------------------
(***************************************************************************)
(* The cgroup leaf of an activation, from the delegated root to its        *)
(* removal.  The supervisor lives alone in a fixed subgroup of the root,   *)
(* which it locks; it enables the controllers, makes one leaf, limits it,  *)
(* hands it to the activation, and takes it down again.  A removed cgroup  *)
(* stays with the kernel as a dying descendant for as long as it likes.    *)
(* Every probe is a sequence of reads; others may act between two reads.   *)
(* A step is <<the call, its arguments>>; "how" says what a failure of the *)
(* running operation unwinds.                                              *)
(***************************************************************************)

MAX_RETIRED_CGROUPS_AT_ADMISSION == MAX_RETIRED_CGROUPS - 1

Required == {"cpu", "memory", "pids"}
Controls == <<"pids.max", "memory.max", "memory.swap.max", "memory.oom.group", "cgroup.max.depth", "cgroup.max.descendants", "cpu.max.burst", "cpu.max">>

Group(id, by) == [id |-> id, by |-> by, members |-> {}, frozen |-> FALSE, set |-> {}]
Existing == {n \in ContainerNames : groups[n] # None}
NothingHeld == [kind |-> "nothing", name |-> None, id |-> None, active |-> FALSE, dropClean |-> FALSE]
ContainerIdle == [name |-> "idle", todo |-> <<>>, how |-> "none", tries |-> 0, enabled |-> {}, err |-> FALSE, last |-> "none"]

CgroupInit ==
    /\ \E enabled \in SUBSET Required, dying \in {0, MAX_RETIRED_CGROUPS_AT_ADMISSION} :
         container_root = [enabled |-> enabled, lock |-> "free", dying |-> dying, supervisor |-> {"self"}]
    /\ groups = [n \in ContainerNames |-> None]
    /\ op = ContainerIdle
    /\ held = NothingHeld
    /\ since = {}
    /\ ghost = [harmed |-> {}, late |-> FALSE]
    /\ spent = [faults |-> 0, outside |-> 0, leaves |-> 0]

-----------------------------------------------------------------------------
(* The probes, as sequences of reads. *)
require_descendant_topology(n, dying) == <<<<"descendants", n, dying>>>>
probe_root_authority_pre_enable == <<<<"root_pre">>>>
probe_root_authority == probe_root_authority_pre_enable \o <<<<"controllers">>>>
probe_supervisor == <<<<"supervisor">>>>
probe_leaf == <<<<"leaf_witness">>, <<"leaf_members", {}>>, <<"leaf_events", FALSE>>, <<"leaf_witness">>>>
probe_activated_leaf == <<<<"leaf_witness">>, <<"leaf_members", {"child"}>>, <<"leaf_events", TRUE>>, <<"leaf_witness">>>>

Framed(authority, n, dying, inner) ==
    authority \o require_descendant_topology(n, dying) \o probe_supervisor \o inner \o require_descendant_topology(n, dying)

probe_pre_enable_baseline == Framed(probe_root_authority_pre_enable, 1, MAX_RETIRED_CGROUPS_AT_ADMISSION, <<>>)
probe_baseline == Framed(probe_root_authority, 1, MAX_RETIRED_CGROUPS_AT_ADMISSION, <<>>)

probe_ready == Framed(probe_root_authority, 2, MAX_RETIRED_CGROUPS_AT_ADMISSION, probe_leaf)
probe_activated == Framed(probe_root_authority, 2, MAX_RETIRED_CGROUPS_AT_ADMISSION, probe_activated_leaf)

cgroup_probe_cleanup_baseline == Framed(probe_root_authority, 1, MAX_RETIRED_CGROUPS, <<>>)

-----------------------------------------------------------------------------
(* The operations. *)
open ==
    Framed(probe_root_authority_pre_enable, 1, MAX_RETIRED_CGROUPS_AT_ADMISSION, <<>>) \o probe_pre_enable_baseline \o
    <<<<"enable">>, <<"enabled">>>> \o probe_baseline

require_empty_for_configuration == <<<<"leaf_events", FALSE>>>>
Each(act, controls) == [i \in 1..Len(controls) |-> <<act, controls[i]>>]

configure == require_empty_for_configuration \o Each("write", Controls) \o require_empty_for_configuration \o Each("verify", Controls) \o require_empty_for_configuration

create_leaf == probe_baseline \o <<<<"mkdir">>, <<"pin">>, <<"witness">>, <<"armed">>>> \o configure \o probe_ready \o <<<<"created">>>>

remove_named_authenticated == <<<<"reopen">>, <<"unlink">>>>
cgroup_remove_authenticated == probe_ready \o remove_named_authenticated
Retired == <<<<"how", "retired">>>> \o cgroup_probe_cleanup_baseline

cgroup_remove_unstarted == require_empty_for_configuration \o cgroup_remove_authenticated \o cgroup_probe_cleanup_baseline
cleanup == <<<<"kill">>, <<"drain">>>> \o cgroup_remove_authenticated \o cgroup_probe_cleanup_baseline
retry_remove == <<<<"repin">>>> \o remove_named_authenticated \o cgroup_probe_cleanup_baseline

rollback == <<<<"how", "provisional">>, <<"repin">>>> \o remove_named_authenticated \o Retired
configure_rollback == <<<<"how", "unconfigured">>>> \o cgroup_remove_authenticated \o Retired

-----------------------------------------------------------------------------
Busy == op.name # "idle"
CgroupAt(act) == Busy /\ op.todo # <<>> /\ op.todo[1][1] = act
Arg == op.todo[1][2]
ContainerAdvance == [op EXCEPT !.todo = Tail(@)]
Continue == op' = ContainerAdvance
CgroupMayFail == spent.faults < MaxCgroupFaults /\ spent' = [spent EXCEPT !.faults = @ + 1]
Unlocked == [container_root EXCEPT !.lock = "free"]
CgroupEnded(failed) == op' = [ContainerIdle EXCEPT !.err = failed, !.last = op.name]

(* What the failure of a step leads to. *)
CgroupFails ==
    CASE op.how = "root" -> CgroupEnded(TRUE) /\ held' = NothingHeld /\ container_root' = Unlocked
      [] op.how = "provision" -> op' = [op EXCEPT !.todo = rollback, !.err = TRUE] /\ UNCHANGED <<held, container_root>>
      [] op.how = "configure" -> op' = [op EXCEPT !.todo = configure_rollback, !.err = TRUE] /\ UNCHANGED <<held, container_root>>
      [] op.how \in {"provisional", "unconfigured"} -> CgroupEnded(TRUE) /\ held' = [held EXCEPT !.kind = "recovery"] /\ UNCHANGED container_root
      [] op.how = "held" -> CgroupEnded(TRUE) /\ UNCHANGED <<held, container_root>>
      [] op.how \in {"retired", "drop"} -> CgroupEnded(TRUE) /\ held' = NothingHeld /\ container_root' = Unlocked

(* A read passes when what it requires holds, and may fail on its own. *)
Verifies(act, required, what) ==
    /\ CgroupAt(act)
    /\ \/ required /\ Continue /\ ContainerNoFault /\ since' = since \ what /\ UNCHANGED <<held, container_root>>
       \/ ~required /\ CgroupFails /\ ContainerNoFault /\ UNCHANGED since
       \/ required /\ CgroupFails /\ CgroupMayFail /\ UNCHANGED since
    /\ UNCHANGED <<groups, ghost>>

ContainerReads(act, required) == Verifies(act, required, {})

Leaf == groups[held.name]
Named == held.name # None /\ Leaf # None
Mine == Named /\ Leaf.id = held.id

-----------------------------------------------------------------------------
(* The steps of the probes. *)
acquire_exclusive_delegation ==
    /\ CgroupAt("root_pre")
    /\ \/ container_root.lock # "other" /\ Continue /\ container_root' = [container_root EXCEPT !.lock = "self"] /\ ContainerNoFault /\ UNCHANGED held
       \/ container_root.lock = "other" /\ CgroupFails /\ ContainerNoFault
       \/ container_root.lock # "other" /\ CgroupFails /\ CgroupMayFail
    /\ UNCHANGED <<groups, since, ghost>>

require_controllers == ContainerReads("controllers", Required \subseteq container_root.enabled)

validate_descendant_topology == CgroupAt("descendants") /\ ContainerReads("descendants", Cardinality(Existing) + 1 = Arg /\ container_root.dying <= op.todo[1][3])

require_exact_supervisor_membership == ContainerReads("supervisor", container_root.supervisor = {"self"})

probe_leaf_witness == Verifies("leaf_witness", Mine, {"name"})

(* The descriptor of the leaf reads the leaf itself, not what bears its name. *)
require_exact_leaf_membership == CgroupAt("leaf_members") /\ Verifies("leaf_members", Mine /\ Leaf.members = Arg, {"members"})
require_events == CgroupAt("leaf_events") /\ Verifies("leaf_events", Mine /\ ~Leaf.frozen /\ (Leaf.members # {}) = Arg, {"members", "frozen"})

-----------------------------------------------------------------------------
(* Opening the root. *)
enable_required_controllers ==
    /\ CgroupAt("enable")
    /\ \/ /\ op' = [ContainerAdvance EXCEPT !.enabled = container_root.enabled \cup Required]
          /\ container_root' = [container_root EXCEPT !.enabled = @ \cup Required]
          /\ ContainerNoFault /\ UNCHANGED held
       \/ CgroupFails /\ CgroupMayFail
    /\ UNCHANGED <<groups, since, ghost>>

require_exact_controller_set == ContainerReads("enabled", container_root.enabled = op.enabled)

-----------------------------------------------------------------------------
(* Making the leaf.  Another's directory of the same name is not touched. *)
create_unique_leaf_directory ==
    /\ CgroupAt("mkdir")
    /\ \/ \E n \in ContainerNames :
            \/ /\ groups[n] = None /\ spent.leaves < MaxLeaves
               /\ groups' = [groups EXCEPT ![n] = Group(spent.leaves + 1, "self")]
               /\ spent' = [spent EXCEPT !.leaves = @ + 1]
               /\ held' = [kind |-> "provisional", name |-> n, id |-> None, active |-> TRUE, dropClean |-> FALSE]
               /\ op' = [ContainerAdvance EXCEPT !.how = "provision"]
               /\ UNCHANGED container_root
            \/ /\ groups[n] # None /\ op.tries + 1 < LEAF_CREATE_ATTEMPTS
               /\ op' = [op EXCEPT !.tries = @ + 1]
               /\ UNCHANGED <<groups, held, container_root, spent>>
            \/ /\ groups[n] # None /\ op.tries + 1 = LEAF_CREATE_ATTEMPTS
               /\ CgroupFails /\ ContainerNoFault /\ UNCHANGED groups
       \/ CgroupFails /\ CgroupMayFail /\ UNCHANGED groups
    /\ UNCHANGED <<since, ghost>>

pin == ContainerReads("pin", Named)

(* The witness is of what bears the name now; the root's lock keeps cooperating processes away from it. *)
Witness ==
    /\ \/ /\ Named /\ Continue /\ held' = [held EXCEPT !.id = IF @ = None THEN Leaf.id ELSE @] /\ UNCHANGED container_root /\ ContainerNoFault
       \/ ~Named /\ CgroupFails /\ ContainerNoFault
       \/ Named /\ CgroupFails /\ CgroupMayFail
    /\ UNCHANGED <<groups, since, ghost>>

authenticate == CgroupAt("witness") /\ Witness
repin == CgroupAt("repin") /\ (IF held.id = None THEN Witness ELSE ContainerReads("repin", TRUE))

disarm ==
    /\ CgroupAt("armed")
    /\ op' = [ContainerAdvance EXCEPT !.how = "configure"]
    /\ held' = [held EXCEPT !.kind = "leaf", !.dropClean = TRUE]
    /\ UNCHANGED <<container_root, groups, since, ghost, spent>>

write_control ==
    /\ CgroupAt("write")
    /\ \/ Mine /\ Continue /\ groups' = [groups EXCEPT ![held.name].set = @ \cup {Arg}] /\ since' = since \ {Arg} /\ ContainerNoFault /\ UNCHANGED <<held, container_root>>
       \/ ~Mine /\ CgroupFails /\ ContainerNoFault /\ UNCHANGED <<groups, since>>
       \/ Mine /\ CgroupFails /\ CgroupMayFail /\ UNCHANGED <<groups, since>>
    /\ UNCHANGED ghost

verify_control == CgroupAt("verify") /\ Verifies("verify", Mine /\ Arg \in Leaf.set, {Arg})

handed_out ==
    /\ CgroupAt("created")
    /\ CgroupEnded(FALSE)
    /\ UNCHANGED <<container_root, groups, held, since, ghost, spent>>

-----------------------------------------------------------------------------
(* Taking it down. *)
Phase ==
    /\ CgroupAt("how")
    /\ op' = [ContainerAdvance EXCEPT !.how = Arg]
    /\ held' = IF Arg = "unconfigured" THEN [held EXCEPT !.dropClean = FALSE] ELSE held
    /\ UNCHANGED <<container_root, groups, since, ghost, spent>>

(* A kill that fails is noted and the drain still awaited. *)
kill ==
    /\ CgroupAt("kill")
    /\ \/ /\ groups' = IF Mine THEN [groups EXCEPT ![held.name].members = {}] ELSE groups
          /\ Continue /\ ContainerNoFault
       \/ op' = [ContainerAdvance EXCEPT !.err = TRUE] /\ UNCHANGED groups /\ CgroupMayFail
    /\ UNCHANGED <<container_root, held, since, ghost>>

cgroup_wait_until_empty == ContainerReads("drain", ~Mine \/ Leaf.members = {})

reopen == ContainerReads("reopen", Mine)

(* The kernel refuses a populated group; the name may have been moved since it was reopened. *)
unlink ==
    /\ CgroupAt("unlink")
    /\ \/ /\ Named /\ Leaf.members = {}
          /\ Continue
          /\ groups' = [groups EXCEPT ![held.name] = None]
          /\ container_root' = [container_root EXCEPT !.dying = @ + 1]
          /\ held' = [held EXCEPT !.active = FALSE]
          /\ ghost' = [ghost EXCEPT !.harmed = IF Leaf.by = "self" THEN @ ELSE @ \cup {Leaf.id}]
          /\ ContainerNoFault
       \/ (~Named \/ Leaf.members # {}) /\ CgroupFails /\ ContainerNoFault /\ UNCHANGED <<groups, ghost>>
       \/ Named /\ CgroupFails /\ CgroupMayFail /\ UNCHANGED <<groups, ghost>>
    /\ UNCHANGED since

(* An operation that has run out of steps returns; the root goes with a leaf that is gone. *)
Returns ==
    /\ Busy /\ op.todo = <<>>
    /\ CgroupEnded(op.err)
    /\ IF op.how \in {"retired", "drop"} \/ (held.kind \in {"leaf", "recovery"} /\ ~held.active /\ ~op.err)
         THEN held' = NothingHeld /\ container_root' = Unlocked
         ELSE UNCHANGED <<held, container_root>>
    /\ UNCHANGED <<groups, since, ghost, spent>>

-----------------------------------------------------------------------------
(* The caller. *)
ContainerStart(name, kind, todo, how) ==
    /\ ~Busy /\ held.kind = kind
    /\ op' = [ContainerIdle EXCEPT !.name = name, !.todo = todo, !.how = how]
    /\ UNCHANGED <<container_root, groups, held, since, ghost, spent>>

DelegatedCgroupRoot_open ==
    /\ ~Busy /\ held.kind = "nothing"
    /\ op' = [ContainerIdle EXCEPT !.name = "open", !.todo = open, !.how = "root"]
    /\ held' = [NothingHeld EXCEPT !.kind = "root"]
    /\ since' = {}
    /\ UNCHANGED <<container_root, groups, ghost, spent>>

DelegatedCgroupRoot_create_leaf == ContainerStart("create_leaf", "root", create_leaf, "root")
CgroupLeaf_placement == held.active /\ ContainerStart("placement", "leaf", probe_ready, "held")
CgroupLeaf_require_sole_member == held.active /\ ContainerStart("require_sole_member", "leaf", probe_activated, "held")

(* An explicit removal ends the leaf's own cleanup on drop. *)
CgroupRemoving(name, todo) ==
    /\ ~Busy /\ held.kind = "leaf"
    /\ op' = [ContainerIdle EXCEPT !.name = name, !.todo = IF held.active THEN todo ELSE cgroup_probe_cleanup_baseline, !.how = "held"]
    /\ held' = [held EXCEPT !.dropClean = FALSE]
    /\ UNCHANGED <<container_root, groups, since, ghost, spent>>

CgroupLeaf_kill_and_remove == CgroupRemoving("kill_and_remove", cleanup)
CgroupLeaf_remove_unstarted == CgroupRemoving("remove_unstarted", cgroup_remove_unstarted)
CgroupRecovery_retry_remove == ContainerStart("retry_remove", "recovery", IF held.active THEN retry_remove ELSE cgroup_probe_cleanup_baseline, "held")

(* Dropping a leaf kills it, and removes it only if it is empty by then.  Dropping a recovery does nothing. *)
CgroupLeaf_drop ==
    /\ ~Busy /\ held.kind \in {"leaf", "recovery", "root"}
    /\ IF held.kind = "leaf" /\ held.active /\ held.dropClean
         THEN op' = [ContainerIdle EXCEPT !.name = "drop", !.todo = <<<<"kill">>, <<"leaf_events", FALSE>>>> \o cgroup_remove_authenticated, !.how = "drop"] /\ UNCHANGED <<held, container_root>>
         ELSE op' = ContainerIdle /\ held' = NothingHeld /\ container_root' = Unlocked
    /\ UNCHANGED <<groups, since, ghost, spent>>

(* The activation's child enters the leaf, and leaves it. *)
Child ==
    /\ ~Busy /\ held.kind = "leaf" /\ held.active /\ Mine
    /\ \/ Leaf.members = {} /\ groups' = [groups EXCEPT ![held.name].members = {"child"}]
       \/ "child" \in Leaf.members /\ groups' = [groups EXCEPT ![held.name].members = @ \ {"child"}]
    /\ UNCHANGED <<container_root, op, held, since, ghost, spent>>

-----------------------------------------------------------------------------
(* The kernel reclaims a dying group. *)
Reclaim ==
    /\ container_root.dying > 0
    /\ container_root' = [container_root EXCEPT !.dying = @ - 1]
    /\ UNCHANGED <<groups, op, held, since, ghost, spent>>

(* Others, who keep to the lock or not. *)
Changed(n, g, kind) ==
    /\ groups' = [groups EXCEPT ![n] = g]
    /\ since' = IF n = held.name THEN since \cup {kind} ELSE since
    /\ UNCHANGED container_root

OutsideChange ==
    \/ \E n \in Existing :
         \/ Changed(n, [groups[n] EXCEPT !.members = @ \cup {"other"}], "members")
         \/ Changed(n, [groups[n] EXCEPT !.frozen = ~@], "frozen")
         \/ \E c \in groups[n].set : Changed(n, [groups[n] EXCEPT !.set = @ \ {c}], c)
         \/ groups[n].members = {} /\ Changed(n, Group(100 + spent.outside, "other"), "name")
    \/ \E n \in ContainerNames \ Existing : Changed(n, Group(100 + spent.outside, "other"), "name")
    \/ /\ \/ container_root.lock = "free" /\ container_root' = [container_root EXCEPT !.lock = "other"]
          \/ container_root' = [container_root EXCEPT !.supervisor = {"self", "other"}]
          \/ container_root' = [container_root EXCEPT !.enabled = {}]
       /\ UNCHANGED <<groups, since>>

(* A name that moves before it is witnessed, or after it is reopened, is out of the checks' reach. *)
CgroupOutside ==
    /\ spent.outside < ContainerMaxOutside
    /\ spent' = [spent EXCEPT !.outside = @ + 1]
    /\ OutsideChange
    /\ ghost' = [ghost EXCEPT !.late = @ \/ (held.name # None /\ (held.id = None \/ CgroupAt("unlink")) /\ groups[held.name] # groups'[held.name])]
    /\ UNCHANGED <<op, held>>

-----------------------------------------------------------------------------
Probes ==
    \/ acquire_exclusive_delegation \/ require_controllers \/ validate_descendant_topology \/ require_exact_supervisor_membership
    \/ probe_leaf_witness \/ require_exact_leaf_membership \/ require_events

ContainerCreation ==
    \/ enable_required_controllers \/ require_exact_controller_set \/ create_unique_leaf_directory \/ pin \/ authenticate \/ disarm
    \/ write_control \/ verify_control \/ handed_out

Removal == repin \/ Phase \/ kill \/ cgroup_wait_until_empty \/ reopen \/ unlink \/ Returns

Caller ==
    \/ DelegatedCgroupRoot_open \/ DelegatedCgroupRoot_create_leaf \/ CgroupLeaf_placement \/ CgroupLeaf_require_sole_member
    \/ CgroupLeaf_kill_and_remove \/ CgroupLeaf_remove_unstarted \/ CgroupRecovery_retry_remove \/ CgroupLeaf_drop \/ Child

CgroupNext == Probes \/ ContainerCreation \/ Removal \/ Caller \/ Reclaim \/ CgroupOutside

-----------------------------------------------------------------------------
(* The variables hold the values the code gives them. *)
CgroupTypeOK ==
    /\ container_root.enabled \subseteq Required /\ container_root.lock \in {"free", "self", "other"} /\ container_root.dying \in Nat
    /\ held.kind \in {"nothing", "root", "provisional", "leaf", "recovery"} /\ held.name \in ContainerNames \cup {None}
    /\ op.how \in {"none", "root", "provision", "provisional", "configure", "unconfigured", "held", "retired", "drop"}
    /\ \A n \in Existing : groups[n].set \subseteq ToSet(Controls)

(* The leaf that create_leaf hands out is the group it made, empty,       *)
(* unfrozen and with every limit in force, but for what others changed    *)
(* after the code had written or verified it                              *)
(* (configure, configure_created_leaf, probe_ready).                      *)
HandedOutLimited == subject = "cgroup" =>
    (CgroupAt("created") =>
        /\ Named \/ "name" \in since
        /\ Mine => ToSet(Controls) \ since \subseteq Leaf.set
        /\ Mine /\ Leaf.members # {} => "members" \in since
        /\ Mine /\ Leaf.frozen => "frozen" \in since)

(* A leaf the code made stays in somebody's hands for as long as it       *)
(* exists: the running operation's, the leaf's, or those of the recovery  *)
(* an error carries.  Only a drop lets it go (rollback_after,             *)
(* configure_created_leaf, CgroupRecovery).                               *)
LeafInHand ==
    [][subject = "cgroup" =>
       (\A n \in Existing :
         groups[n].by = "self" /\ held.name = n /\ groups'[n] # None /\ groups'[n].id = groups[n].id =>
             held'.name = n \/ op.name = "drop" \/ ~Busy)]_ContainerVars

(* A removal hits only the group the code made: a group of others falls   *)
(* only if it took the name before the name could be witnessed, or        *)
(* between the last look and the removal (remove_named_authenticated).    *)
OnlyOwnRemoved == subject = "cgroup" => (ghost.harmed # {} => ghost.late)

(* Admission keeps one slot for the dying group of the leaf it admits:    *)
(* while no call fails and nobody interferes, every leaf that was handed  *)
(* out can be taken down, however slowly the kernel reclaims              *)
(* (MAX_RETIRED_CGROUPS_AT_ADMISSION, probe_cleanup_baseline).            *)
AdmissionReservesSlot == subject = "cgroup" =>
    (spent.faults = 0 /\ spent.outside = 0 /\ ~Busy /\ op.last = "kill_and_remove" => ~op.err)

-----------------------------------------------------------------------------
(* A behaviour exercises one part, chosen at the start; the variables of the
   other parts are not in use. *)
ContainerInit ==
    /\ subject \in Subjects
    /\ \/ subject = "activation" /\ ActivationInit
          /\ container_root = None /\ groups = None /\ op = None /\ held = None /\ since = None /\ ghost = None
       \/ subject = "cgroup" /\ CgroupInit
          /\ inputs = None /\ sup = None /\ child = None /\ leaf = None /\ sock = None /\ mask = None /\ sigint = None /\ unready = None

ActivationOnly == subject = "activation" /\ UNCHANGED <<subject, container_root, groups, op, held, since, ghost>>
CgroupOnly == subject = "cgroup" /\ UNCHANGED <<subject, inputs, sup, child, leaf, sock, mask, sigint, unready>>
ContainerNext ==
    \/ ActivationOnly /\ ActivationNext
    \/ CgroupOnly /\ CgroupNext

ContainerTypeOK ==
    /\ subject = "activation" => ActivationTypeOK
    /\ subject = "cgroup" => CgroupTypeOK
=============================================================================
