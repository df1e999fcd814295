----------------------------- MODULE GitSources -----------------------------
(***************************************************************************)
(* Git sources of a build: the mirror of a remote in the cache of mason,    *)
(* and the checkout of a locked commit that is shared with a build.         *)
(***************************************************************************)
EXTENDS Parts, Integers, FiniteSets, Sequences

CONSTANTS
    Processes,
    MaxTip,              \* bound on the commits of the remote
    TagAt,               \* the commit an annotated tag names
    Submodules,          \* the commits with gitlinks
    MaxOps, MaxFaults, MaxKills,
    MaxOutside

VARIABLES
    remote,      \* the newest commit of the remote
    mirror,      \* [tip, origin: is it this URL's, config: is it canonical, torn], or None
    marker,      \* does the marker of a running mutation exist
    disk,        \* [mirror, marker, same: is it the directory the live name shows]
    lock, ops, faults, kills,
    tree,        \* [names, root, file, link]: the directory 1; a node is [id, data, mode, time, ver]
    at,          \* [staging, final]: the directories the two names show
    quarantined, \* the directory in the quarantine
    synced,      \* is the final name on disk
    outside,
    shown,       \* since the last digest began: was the exact tree under the final name
    other  \* did another's directory take the final name: "no", "early", or "late" for between check and move

GitVars == <<subject, remote, mirror, marker, disk, lock, op, ops, faults, kills, tree, at, quarantined, synced,
             outside, shown, other>>

-----------------------------------------------------------------------------
(***************************************************************************)
(* mason's cache of Git mirrors, one per URL.  `store' answers a pinned     *)
(* revision from the mirror and asks the remote only when it must;          *)
(* `resolve' always fetches.  A fetch changes the mirror in place, under a  *)
(* durable marker that makes the mirror ineligible until the fetch is       *)
(* committed; a mirror that cannot be used is removed and cloned again.     *)
(*                                                                         *)
(* The processes exclude each other with a lock on the mirror's lock file.  *)
(* Any call may fail, a process may be killed, the machine may lose power.  *)
(* The history of the remote is 1..tip, `branch' its newest commit; a       *)
(* mirror that is torn by an interrupted fetch or removal may answer a      *)
(* query or not.  The names of the cache directory reach the disk together  *)
(* and in order; git makes what it fetched durable.                         *)
(***************************************************************************)

Cache == <<mirror, marker, disk>>

Revs == [kind : {"branch", "tag"}, at : {TagAt}] \cup [kind : {"commit"}, at : 1..MaxTip]
Torn == {"fetch", "removal"}
Mirrors == [tip : 1..MaxTip, origin : BOOLEAN, config : BOOLEAN, torn : SUBSET Torn]
Idle == [kind |-> "none", rev |-> None, stage |-> "idle", mutation |-> FALSE, after |-> "none", since |-> 0, resolved |-> None, outcome |-> "none"]
Failed(o) == [Idle EXCEPT !.outcome = "failed"]

NoFault == UNCHANGED faults
MayFail == faults < MaxFaults /\ faults' = faults + 1
At(p, s) == op[p].stage = s
Set(p, o) == op' = [op EXCEPT ![p] = o]
To(p, s) == Set(p, [op[p] EXCEPT !.stage = s])
Kept == UNCHANGED <<remote, lock, ops, kills>>
Ends(p, o) == Set(p, o) /\ lock' = None /\ UNCHANGED <<remote, ops, kills>>

-----------------------------------------------------------------------------
(* What git answers. *)
peel_commit(m, rev) ==
    IF rev.kind = "branch" THEN m.tip
    ELSE IF rev.at <= m.tip THEN rev.at ELSE None
Answers(m, rev) == {peel_commit(m, rev)} \cup (IF m.torn = {} THEN {} ELSE {None})
\* cat-file -t names the type of the object itself, so an annotated tag is no commit; a missing object fails.
has_commit(rev) == rev.kind # "tag"
contains_gitlinks(commit) == commit \in Submodules

Reclone(o) == [o EXCEPT !.stage = "rmtree", !.after = "clone"]
Purge(o) == [o EXCEPT !.stage = "rmtree", !.after = "fail"]
Unless(o) == IF o.mutation THEN Purge(o) ELSE Failed(o)

\* The content of the mirror changes: the directory on disk is the same one, or an older.
Change(m) == mirror' = m /\ disk' = [disk EXCEPT !.mirror = IF disk.same THEN m ELSE @]
SyncParent(m, k) == disk' = [mirror |-> m, marker |-> k, same |-> TRUE]

-----------------------------------------------------------------------------
call(p) ==
    /\ At(p, "idle") /\ ops < MaxOps
    /\ \E kind \in {"store", "resolve"}, rev \in Revs :
           Set(p, [Idle EXCEPT !.kind = kind, !.rev = rev, !.stage = "lock", !.since = remote])
    /\ ops' = ops + 1 /\ UNCHANGED <<remote, mirror, marker, disk, lock, faults, kills>>

acquire_cache_lock(p) ==
    /\ At(p, "lock")
    /\ \/ lock = None /\ lock' = p /\ To(p, "stored")
       \/ lock # None /\ UNCHANGED lock /\ Set(p, Failed(op[p]))
    /\ UNCHANGED <<Cache, remote, ops, faults, kills>>

Incomplete == marker

incomplete_cache(p) == At(p, "stored") /\ Incomplete /\ Set(p, Reclone(op[p])) /\ NoFault /\ Kept /\ UNCHANGED Cache

inspect_private_mirror_config(m) == m.origin

write_canonical_mirror_config(m) == [m EXCEPT !.config = TRUE]

\* The mirror is opened, its origin compared, its configuration rewritten and made private.
open_private_mirror(p) ==
    /\ At(p, "stored") /\ ~Incomplete /\ mirror # None
    /\ inspect_private_mirror_config(mirror)
    /\ Change(write_canonical_mirror_config(mirror)) /\ To(p, "query")
    /\ NoFault /\ Kept /\ UNCHANGED marker

\* No mirror, a torn one, one of another origin, or a failing command: cloned again.
open_fails(p) ==
    /\ At(p, "stored") /\ ~Incomplete
    /\ \/ mirror = None /\ NoFault
       \/ mirror # None /\ (~inspect_private_mirror_config(mirror) \/ mirror.torn # {}) /\ NoFault
       \/ MayFail
    /\ Set(p, Reclone(op[p])) /\ Kept /\ UNCHANGED Cache

\* has_commit and peel_commit of stored_locked, and what the caller does with the answer.
stored_locked(p) ==
    /\ At(p, "query")
    /\ \E found \in Answers(mirror, op[p].rev) :
           IF found = None THEN Set(p, Reclone(op[p]))
           ELSE To(p, IF op[p].kind = "resolve" \/ ~has_commit(op[p].rev) THEN "mark" ELSE "peel")
    /\ NoFault /\ Kept /\ UNCHANGED Cache
query_fails(p) == At(p, "query") /\ MayFail /\ Set(p, Reclone(op[p])) /\ Kept /\ UNCHANGED Cache

-----------------------------------------------------------------------------
(* The fetch, under its marker. *)
begin_cache_mutation(p) ==
    /\ At(p, "mark")
    /\ marker' = TRUE /\ SyncParent(mirror, TRUE) /\ UNCHANGED mirror
    /\ Set(p, [op[p] EXCEPT !.stage = "fetch", !.mutation = TRUE]) /\ NoFault /\ Kept
\* The marker may have been created, and may be on disk, when its write fails.
begin_fails(p) ==
    /\ At(p, "mark") /\ MayFail
    /\ marker' \in BOOLEAN /\ UNCHANGED mirror
    /\ disk' \in {disk, [mirror |-> mirror, marker |-> marker', same |-> TRUE]}
    /\ Ends(p, Failed(op[p]))

fetch(p) ==
    /\ At(p, "fetch")
    /\ Change([write_canonical_mirror_config(mirror) EXCEPT !.torn = @ \cup {"fetch"}]) /\ UNCHANGED marker
    /\ To(p, "fetching") /\ NoFault /\ Kept
fetched(p) ==
    /\ At(p, "fetching")
    /\ Change([mirror EXCEPT !.torn = @ \ {"fetch"}, !.tip = remote]) /\ UNCHANGED marker
    /\ To(p, "peel") /\ NoFault /\ Kept
(* Mutant: the mirror of a failed fetch is kept for the next build. *)
fetch_fails_kept(p) == At(p, "fetching") /\ MayFail /\ marker' = FALSE /\ UNCHANGED <<mirror, disk>> /\ Ends(p, Failed(op[p]))
fetch_fails(p) == op[p].stage \in {"fetch", "fetching"} /\ MayFail /\ Set(p, Purge(op[p])) /\ Kept /\ UNCHANGED Cache

-----------------------------------------------------------------------------
(* The revision is peeled and its tree audited; the fetch is committed. *)
resolve_revision(p) ==
    /\ At(p, "peel")
    /\ \E found \in Answers(mirror, op[p].rev) :
           IF found # None THEN Set(p, [op[p] EXCEPT !.resolved = found, !.stage = "links"]) /\ UNCHANGED lock
           ELSE Set(p, Unless(op[p])) /\ lock' = IF op[p].mutation THEN lock ELSE None
    /\ NoFault /\ UNCHANGED <<Cache, remote, ops, kills>>
Done(p) == Set(p, [Idle EXCEPT !.kind = op[p].kind, !.rev = op[p].rev, !.since = op[p].since, !.resolved = op[p].resolved, !.outcome = "ok"])
reject_gitlinks(p) ==
    /\ At(p, "links")
    /\ IF contains_gitlinks(op[p].resolved) THEN Set(p, Unless(op[p])) /\ lock' = IF op[p].mutation THEN lock ELSE None
       ELSE IF op[p].mutation THEN To(p, "commit") /\ UNCHANGED lock ELSE Done(p) /\ lock' = None
    /\ NoFault /\ UNCHANGED <<Cache, remote, ops, kills>>
audit_fails(p) ==
    /\ op[p].stage \in {"peel", "links"} /\ MayFail
    /\ Set(p, Unless(op[p])) /\ lock' = IF op[p].mutation THEN lock ELSE None
    /\ UNCHANGED <<Cache, remote, ops, kills>>

commit(p) == At(p, "commit") /\ marker' = FALSE /\ To(p, "synced") /\ NoFault /\ Kept /\ UNCHANGED <<mirror, disk>>
committed(p) ==
    /\ At(p, "synced")
    /\ SyncParent(mirror, marker) /\ Done(p) /\ lock' = None
    /\ NoFault /\ UNCHANGED <<mirror, marker, remote, ops, kills>>
\* The marker is written again when the directory cannot be synchronized, and the mirror is removed.
commit_fails(p) ==
    /\ \/ At(p, "commit") /\ UNCHANGED Cache
       \/ /\ At(p, "synced") /\ UNCHANGED mirror
          /\ marker' \in BOOLEAN
          /\ disk' \in {disk, [mirror |-> mirror, marker |-> marker', same |-> TRUE]}
    /\ MayFail /\ Set(p, Purge(op[p])) /\ Kept

-----------------------------------------------------------------------------
(* remove_locked: the tree first, its marker after it. *)
After(p) == IF op[p].after = "clone" THEN To(p, "clone") /\ UNCHANGED lock ELSE Set(p, Failed(op[p])) /\ lock' = None
remove_dir_all(p) ==
    \/ /\ At(p, "rmtree") /\ NoFault /\ Kept /\ UNCHANGED marker
       /\ IF mirror = None THEN To(p, "rmmark") /\ UNCHANGED <<mirror, disk>>
          ELSE To(p, "removing") /\ Change([mirror EXCEPT !.torn = @ \cup {"removal"}])
    \/ /\ At(p, "removing") /\ NoFault /\ Kept /\ UNCHANGED marker
       /\ mirror' = None /\ To(p, "rmmark")
       /\ disk' = [disk EXCEPT !.same = FALSE, !.mirror = IF @ = None THEN None ELSE [@ EXCEPT !.torn = @ \cup {"removal"}]]
remove_locked(p) ==
    \/ /\ At(p, "rmmark")
       /\ IF marker THEN marker' = FALSE /\ To(p, "rmsync") /\ UNCHANGED lock ELSE UNCHANGED marker /\ After(p)
       /\ NoFault /\ UNCHANGED <<mirror, disk, remote, ops, kills>>
    \/ At(p, "rmsync") /\ SyncParent(mirror, marker) /\ After(p) /\ NoFault /\ UNCHANGED <<mirror, marker, remote, ops, kills>>
remove_fails(p) ==
    /\ op[p].stage \in {"removing", "rmmark", "rmsync"} /\ MayFail
    /\ Ends(p, Failed(op[p])) /\ UNCHANGED Cache

-----------------------------------------------------------------------------
(* The clone goes to a private sibling and is renamed to the mirror's name. *)
clone_mirror(p) == At(p, "clone") /\ Set(p, [op[p] EXCEPT !.stage = "install", !.resolved = remote]) /\ NoFault /\ Kept /\ UNCHANGED Cache
install_mirror(p) ==
    /\ At(p, "install") /\ mirror = None
    /\ mirror' = [tip |-> op[p].resolved, origin |-> TRUE, config |-> TRUE, torn |-> {}]
    /\ disk' = [disk EXCEPT !.same = FALSE]
    /\ Set(p, [op[p] EXCEPT !.stage = "peel", !.resolved = None]) /\ NoFault /\ Kept /\ UNCHANGED marker
\* A clone that fails is removed, from the staging name or from the final one.
clone_fails(p) == op[p].stage \in {"clone", "install"} /\ MayFail /\ Ends(p, Failed(op[p])) /\ UNCHANGED Cache

-----------------------------------------------------------------------------
(* The environment. *)
RemoteAdvances == remote < MaxTip /\ remote' = remote + 1 /\ UNCHANGED <<Cache, lock, op, ops, faults, kills>>
Kill(p) ==
    /\ op[p].stage # "idle" /\ kills < MaxKills /\ kills' = kills + 1
    /\ Set(p, Idle) /\ lock' = IF lock = p THEN None ELSE lock
    /\ UNCHANGED <<Cache, remote, ops, faults>>
PowerLoss ==
    /\ kills < MaxKills /\ kills' = kills + 1
    /\ op' = [p \in Processes |-> Idle] /\ lock' = None
    /\ \E m \in {<<mirror, marker>>, <<disk.mirror, disk.marker>>} :
           mirror' = m[1] /\ marker' = m[2] /\ SyncParent(m[1], m[2])
    /\ UNCHANGED <<remote, ops, faults>>

MirrorInit ==
    /\ remote = 2 /\ lock = None /\ ops = 0 /\ faults = 0 /\ kills = 0
    /\ \/ mirror = None
       \/ \E tip \in 1..2, origin \in BOOLEAN : mirror = [tip |-> tip, origin |-> origin, config |-> FALSE, torn |-> {}]
    /\ marker = FALSE /\ disk = [mirror |-> mirror, marker |-> FALSE, same |-> TRUE]
    /\ op = [p \in Processes |-> Idle]

Stored(p) == incomplete_cache(p) \/ open_private_mirror(p) \/ open_fails(p) \/ stored_locked(p) \/ query_fails(p)
Fetching(p) == begin_cache_mutation(p) \/ begin_fails(p) \/ fetch(p) \/ fetched(p) \/ fetch_fails(p)
Committing(p) == resolve_revision(p) \/ reject_gitlinks(p) \/ audit_fails(p) \/ commit(p) \/ committed(p) \/ commit_fails(p)
Removing(p) == remove_dir_all(p) \/ remove_locked(p) \/ remove_fails(p)
Cloning(p) == clone_mirror(p) \/ install_mirror(p) \/ clone_fails(p)
Step(p) == call(p) \/ acquire_cache_lock(p) \/ Stored(p) \/ Fetching(p) \/ Committing(p) \/ Removing(p) \/ Cloning(p) \/ Kill(p)

MirrorNext == (\E p \in Processes : Step(p)) \/ RemoteAdvances \/ PowerLoss

-----------------------------------------------------------------------------
MirrorTypeOK ==
    /\ remote \in 1..MaxTip /\ mirror \in Mirrors \cup {None} /\ marker \in BOOLEAN
    /\ disk \in [mirror : Mirrors \cup {None}, marker : BOOLEAN, same : BOOLEAN]
    /\ lock \in Processes \cup {None}
    /\ \A p \in Processes : op[p].resolved \in 1..MaxTip \cup {None} /\ (op[p].stage \notin {"idle", "lock"} <=> lock = p)

(* A mirror a fetch was interrupted in is never eligible: whatever fails and
   whenever a process is killed or the machine loses power, its marker exists,
   among the live names and on disk (git.rs, begin_cache_mutation, commit and
   remove_locked). *)
TornIsMarked == subject = "mirror" =>
    /\ mirror # None /\ "fetch" \in mirror.torn => marker
    /\ disk.mirror # None /\ "fetch" \in disk.mirror.torn => disk.marker

(* A call that returns a stored revision returns one the mirror of this URL
   really has: no fetch of it is incomplete, its configuration is canonical,
   its tree has no gitlinks, and a pinned commit is answered by itself
   (git.rs, store and resolve). *)
StoredIsWhole ==
    [][subject = "mirror" =>
       (\A p \in Processes : op'[p].outcome = "ok" /\ op[p].outcome # "ok" =>
           /\ mirror' # None /\ mirror'.origin /\ mirror'.config /\ "fetch" \notin mirror'.torn /\ ~marker'
           /\ op'[p].resolved <= mirror'.tip /\ op'[p].resolved \notin Submodules
           /\ (op'[p].rev.kind # "branch" => op'[p].resolved = op'[p].rev.at))]_GitVars

(* A refresh of a moving reference answers with a commit no older than the
   remote's newest one when the call began (git.rs, resolve: "must instead
   fetch an existing mirror so branches and tags can advance"). *)
ResolvedIsFresh == subject = "mirror" =>
    (\A p \in Processes :
        op[p].outcome = "ok" /\ op[p].kind = "resolve" /\ op[p].rev.kind = "branch" => op[p].resolved >= op[p].since)

-----------------------------------------------------------------------------
(***************************************************************************)
(* mason shares a locked Git source with a build: the commit is checked out *)
(* into a private staging directory, the Git administration is removed, the *)
(* tree is normalized, scanned and hashed until it is stable, and its       *)
(* digest is compared with the lock.  Then the directory is renamed to its  *)
(* final name without replacement, synchronized, and verified again there.  *)
(* A directory that fails this last check is moved to a quarantine.         *)
(*                                                                         *)
(* The tree has a file and a symbolic link beneath its root.  A node's      *)
(* change counter stands for its change time, `time' for its access and     *)
(* modification times; reading the target of a link touches its access      *)
(* time.  Another process may change the tree and the names between any two *)
(* steps; any call may fail (a passed deadline is such a failure).          *)
(* Directory 1 is the checkout, 9 another's, 0 none.                        *)
(***************************************************************************)

Parts == <<"root", "file", "link">>
Entries == {"root", "file", "link"}
Names == {"file", "link"}
Act(act) == op.todo # <<>> /\ op.todo[1][1] = act
Part == op.todo[1][3]
Steps(act, k, parts) == [i \in 1..Len(parts) |-> <<act, k, parts[i]>>]
One(act, k) == <<<<act, k, "tree">>>>

-----------------------------------------------------------------------------
(* The programs.  A scan is one step per directory or entry. *)
scan(k) == Steps("scan", k, Parts)
normalize(k) == Steps("normalize", k, <<"link", "file", "root">>)
hash(k) == Steps("hash", k, <<"file", "link">>)
remove_git_administration == One("collect", 0) \o One("remove", 0) \o One("collect", 1)
normalize_and_hash_with ==
    scan(1) \o One("audited", 1) \o normalize(1) \o scan(2) \o One("same", 2) \o normalize(2) \o scan(3) \o One("same", 3)
    \o hash(3) \o One("digest", 3) \o scan(4) \o One("same", 4) \o hash(4) \o One("digest", 4)
    \o scan(5) \o One("stable", 5) \o One("sealed", 5)
verify_installed_with_access ==
    One("retarget", 6) \o scan(6) \o One("normalized", 6) \o hash(6) \o One("digest", 6)
    \o scan(7) \o One("stable", 7) \o hash(7) \o One("digest", 7) \o scan(8) \o One("stable", 8) \o One("verified", 8)
share_with_parent == remove_git_administration \o normalize_and_hash_with \o One("expected", 5) \o One("install", 5) \o One("installed", 5)

Empty == [names |-> {}, root |-> None, file |-> None, link |-> None]
Start == [todo |-> share_with_parent, prev |-> Empty, cur |-> Empty, sum |-> <<>>, digest |-> None, outcome |-> "none"]
Ended(outcome) == [Start EXCEPT !.todo = <<>>, !.outcome = outcome]
Advance(o) == [o EXCEPT !.todo = Tail(@)]
\* A failure before the installation only drops the staging directory; after it, the checkout is rejected.
Fail(o) ==
    IF o.outcome = "installed" THEN [Start EXCEPT !.todo = One("quarantine", 0) \o One("reserve", 0) \o One("move", 0) \o One("moved", 0) \o One("kept", 0), !.outcome = "rejecting"]
    ELSE Ended(IF o.outcome = "rejecting" THEN "stuck" ELSE "failed")

\* Directory 1 is still what the name in use shows.
InPlace == IF op.outcome = "installed" THEN at.final = 1 ELSE at.staging = 1
Present(e) == e = "root" \/ e \in tree.names

-----------------------------------------------------------------------------
(* Looking at the tree. *)
MetadataStamp(n) == [mode |-> n.mode, time |-> n.time, ver |-> n.ver]
Kind(e, n) == IF e = "link" THEN n.data ELSE "same"
require_same_tree(a, b) == a.names = b.names /\ \A e \in Entries : (a[e] = None) = (b[e] = None) /\ (a[e] # None => a[e].id = b[e].id /\ a[e].kind = b[e].kind)
require_stable_tree(a, b) == require_same_tree(a, b) /\ \A e \in Entries : a[e] # None => a[e].stamp = b[e].stamp
require_normalized_mode(e, n) == e = "link" \/ n.mode = "norm"
verify_normalized_tree(s) == \A e \in Entries : s[e] # None => s[e].stamp.time = "epoch"
require_handle_matches(e, n, want) == want # None /\ n.id = want.id /\ Kind(e, n) = want.kind
Reads(k) == k \in {1, 2}  \* the scans that are given no earlier one, and so read the targets of the links

classify_handle(e, k) == e = "link" /\ (Reads(k) \/ op.prev.link = None \/ op.prev.link.id # tree.link.id)

inspect_entry(e, k) == [id |-> tree[e].id, kind |-> Kind(e, tree[e]), stamp |-> MetadataStamp(tree[e])]
Touched(e, k) == IF classify_handle(e, k) THEN [tree EXCEPT ![e].time = "now"] ELSE tree
scan_tree ==
    /\ Act("scan")
    /\ LET e == Part  k == op.todo[1][2] IN
       IF ~Present(e) THEN op' = Advance(op) /\ UNCHANGED tree
       ELSE IF k > 1 /\ ~require_normalized_mode(e, tree[e]) THEN op' = Fail(op) /\ UNCHANGED tree
       ELSE /\ op' = Advance([op EXCEPT !.cur[e] = inspect_entry(e, k), !.cur.names = IF e = "root" THEN tree.names ELSE @])
            /\ tree' = Touched(e, k)
    /\ NoFault /\ UNCHANGED <<at, quarantined, synced>>

Compared(ok) == op' = IF ok THEN Advance([op EXCEPT !.prev = op.cur, !.cur = Empty, !.sum = <<>>]) ELSE Fail(op)
compare_scans ==
    /\ \/ Act("audited") /\ Compared(TRUE)
       \/ Act("same") /\ Compared(require_same_tree(op.prev, op.cur) /\ (op.todo[1][2] = 4 => require_stable_tree(op.prev, op.cur)))
       \/ Act("stable") /\ Compared(require_stable_tree(op.prev, op.cur))
       \/ Act("normalized") /\ Compared(verify_normalized_tree(op.cur))
    /\ NoFault /\ UNCHANGED <<tree, at, quarantined, synced>>

normalize_entries ==
    /\ Act("normalize")
    /\ LET e == Part  want == op.prev[e] IN
       IF want = None THEN op' = Advance(op) /\ UNCHANGED tree
       ELSE IF ~Present(e) \/ ~require_handle_matches(e, tree[e], want) THEN op' = Fail(op) /\ UNCHANGED tree
       ELSE /\ tree' = [tree EXCEPT ![e].mode = "norm", ![e].time = "epoch", ![e].ver = @ + 1]
            /\ op' = Advance(op)
    /\ NoFault /\ UNCHANGED <<at, quarantined, synced>>

\* What has been hashed so far; the link's target is the scan's.
hash_tree ==
    /\ Act("hash")
    /\ LET e == Part  want == op.prev[e] IN
       op' = IF want = None THEN Advance(op)
             ELSE IF ~Present(e) \/ ~require_handle_matches(e, tree[e], want) \/ ~require_normalized_mode(e, tree[e]) THEN Fail(op)
             ELSE Advance([op EXCEPT !.sum = Append(@, IF e = "link" THEN want.kind ELSE tree[e].data)])
    /\ NoFault /\ UNCHANGED <<tree, at, quarantined, synced>>
Digest == [names |-> op.prev.names, sum |-> op.sum]
Expected == [names |-> Names, sum |-> <<"a", "t">>]
confirm_digest ==
    /\ Act("digest")
    /\ op' = IF op.todo[1][2] = 3 \/ Digest = op.digest THEN Advance([op EXCEPT !.digest = Digest, !.sum = <<>>]) ELSE Fail(op)
    /\ NoFault /\ UNCHANGED <<tree, at, quarantined, synced>>

-----------------------------------------------------------------------------
(* The Git administration. *)
\* The first pass notes what it found; the second must find nothing.
collect_git_administration ==
    /\ Act("collect")
    /\ LET found == tree.names \cap {"git"} IN
       op' = IF op.todo[1][2] = 0 THEN Advance([op EXCEPT !.prev.names = found])
             ELSE IF found # {} \/ ~InPlace THEN Fail(op) ELSE Advance([op EXCEPT !.prev = Empty])
    /\ NoFault /\ UNCHANGED <<tree, at, quarantined, synced>>
remove_admin_candidates ==
    /\ Act("remove") /\ op' = Advance(op)
    /\ tree' = IF op.prev.names # {} THEN [tree EXCEPT !.names = @ \ op.prev.names, !.root.ver = @ + 1, !.root.time = "now"] ELSE tree
    /\ NoFault /\ UNCHANGED <<at, quarantined, synced>>

-----------------------------------------------------------------------------
(* Sealing, installing and verifying. *)
require_path_identity ==
    /\ Act("sealed") \/ Act("verified")
    /\ op' = IF ~InPlace \/ ~verify_normalized_tree(op.prev) THEN Fail(op)
             ELSE IF Act("verified") THEN Ended("ok") ELSE Advance(op)
    /\ NoFault /\ UNCHANGED <<tree, at, quarantined, synced>>
digest_expected ==
    /\ Act("expected")
    /\ op' = IF op.digest = Expected THEN Advance(op) ELSE Fail(op)
    /\ NoFault /\ UNCHANGED <<tree, at, quarantined, synced>>

renameat_noreplace(n) == n = 0
install_with_parent ==
    /\ Act("install")
    /\ IF at.staging = 0 \/ ~renameat_noreplace(at.final) THEN op' = Fail(op) /\ UNCHANGED at
       ELSE at' = [staging |-> 0, final |-> at.staging] /\ op' = Advance(op)
    /\ NoFault /\ UNCHANGED <<tree, quarantined, synced>>
\* The installed name is compared with the staged directory, and its parent is synchronized.
installed ==
    /\ Act("installed")
    /\ IF at.final # 1 THEN op' = Fail(op) /\ UNCHANGED synced
       ELSE synced' = TRUE /\ op' = [op EXCEPT !.todo = verify_installed_with_access, !.outcome = "installed"]
    /\ NoFault /\ UNCHANGED <<tree, at, quarantined>>
retarget == Act("retarget") /\ op' = (IF InPlace THEN Advance(op) ELSE Fail(op)) /\ NoFault /\ UNCHANGED <<tree, at, quarantined, synced>>

\* The name must show the installed directory when the quarantine begins.
(* Mutant: whatever is under the final name is quarantined. *)
quarantine_any == Act("quarantine") /\ op' = Advance(op) /\ NoFault /\ UNCHANGED <<tree, at, quarantined, synced>>
quarantine ==
    /\ Act("quarantine") /\ op' = (IF at.final = 1 THEN Advance(op) ELSE Fail(op))
    /\ NoFault /\ UNCHANGED <<tree, at, quarantined, synced>>
create_quarantine_directory == Act("reserve") /\ op' = Advance(op) /\ NoFault /\ UNCHANGED <<tree, at, quarantined, synced>>
\* The rename takes what the name shows by then; a failed one removes the empty quarantine.
quarantine_move ==
    /\ Act("move")
    /\ IF at.final = 0 THEN op' = Fail(op) /\ UNCHANGED <<at, quarantined>>
       ELSE at' = [at EXCEPT !.final = 0] /\ quarantined' = at.final /\ op' = Advance(op)
    /\ NoFault /\ UNCHANGED <<tree, synced>>
quarantine_identity ==
    /\ Act("moved") /\ op' = (IF quarantined = 1 THEN Advance(op) ELSE Fail(op))
    /\ NoFault /\ UNCHANGED <<tree, at, quarantined, synced>>
quarantine_synced == Act("kept") /\ op' = Ended("rejected") /\ synced' = FALSE /\ NoFault /\ UNCHANGED <<tree, at, quarantined>>

Failing == op.todo # <<>> /\ MayFail /\ op' = Fail(op) /\ UNCHANGED <<tree, at, quarantined, synced>>

-----------------------------------------------------------------------------
(* The other process. *)
Edited(e, d, t) == [tree EXCEPT ![e].data = d, ![e].time = t, ![e].ver = @ + 1]
Outside ==
    /\ op.todo # <<>> /\ outside < MaxOutside /\ outside' = outside + 1
    /\ \/ \E t \in {"now", tree.file.time}, d \in {"a", "b"} : tree' = Edited("file", d, t) /\ UNCHANGED <<at, other>>
       \/ tree' = [tree EXCEPT !.file.mode = "raw", !.file.ver = @ + 1] /\ UNCHANGED <<at, other>>
       \/ tree' = [tree EXCEPT !.link = [@ EXCEPT !.id = @ + 1, !.data = "u", !.ver = @ + 1], !.root.ver = @ + 1] /\ UNCHANGED <<at, other>>
       \/ \E n \in {"git", "x"} \ tree.names : tree' = [tree EXCEPT !.names = @ \cup {n}, !.root.ver = @ + 1] /\ UNCHANGED <<at, other>>
       \/ "file" \in tree.names /\ tree' = [tree EXCEPT !.names = @ \ {"file"}, !.root.ver = @ + 1] /\ UNCHANGED <<at, other>>
       \/ at.final = 1 /\ at' = [at EXCEPT !.final = 0] /\ UNCHANGED <<tree, other>>
       \/ at.staging = 1 /\ at' = [at EXCEPT !.staging = 0] /\ UNCHANGED <<tree, other>>
       \/ at' = [at EXCEPT !.final = 9] /\ other' = (IF Act("reserve") \/ Act("move") THEN "late" ELSE "early") /\ UNCHANGED tree
    /\ UNCHANGED <<quarantined, synced, op, faults>>

-----------------------------------------------------------------------------
Exact == at.final = 1 /\ tree.names = Names /\ tree.file.data = "a" /\ tree.link.data = "t"
         /\ \A e \in Entries : tree[e].time = "epoch" /\ require_normalized_mode(e, tree[e])
Watching == op.todo # <<>> /\ op.outcome = "installed" /\ (op.todo[1][2] = 8 \/ (op.todo[1][2] = 7 /\ op.todo[1][1] \in {"hash", "digest"}))
Watch == shown' = (shown \/ (Watching /\ Exact))

CheckoutStep ==
    \/ scan_tree \/ compare_scans \/ normalize_entries \/ hash_tree \/ confirm_digest
    \/ collect_git_administration \/ remove_admin_candidates \/ require_path_identity \/ digest_expected
    \/ install_with_parent \/ installed \/ retarget \/ quarantine \/ create_quarantine_directory \/ quarantine_move \/ quarantine_identity
    \/ quarantine_synced \/ Failing
CheckoutNext == (CheckoutStep /\ UNCHANGED <<outside, other>> /\ Watch) \/ (Outside /\ Watch)

CheckoutInit ==
    /\ \E d \in {"a", "b"}, g \in BOOLEAN :
           tree = [names |-> Names \cup (IF g THEN {"git"} ELSE {}),
                   root |-> [id |-> 1, data |-> "d", mode |-> "raw", time |-> "now", ver |-> 0],
                   file |-> [id |-> 2, data |-> d, mode |-> "raw", time |-> "now", ver |-> 0],
                   link |-> [id |-> 3, data |-> "t", mode |-> "norm", time |-> "now", ver |-> 0]]
    /\ at \in [staging : {1}, final : {0, 9}] /\ other = (IF at.final = 9 THEN "early" ELSE "no")
    /\ quarantined = 0 /\ synced = FALSE /\ op = Start /\ outside = 0 /\ faults = 0 /\ shown = FALSE

-----------------------------------------------------------------------------
CheckoutTypeOK ==
    /\ tree.names \subseteq Names \cup {"git", "x"} /\ at \in [staging : {0, 1}, final : {0, 1, 9}]
    /\ op.outcome \in {"none", "installed", "ok", "failed", "rejecting", "rejected", "stuck"} /\ synced \in BOOLEAN
    /\ Cardinality({x \in {"s", "f", "q"} : (x = "s" /\ at.staging = 1) \/ (x = "f" /\ at.final = 1) \/ (x = "q" /\ quarantined = 1)}) <= 1

(* A source that is reported as shared was, while its last digest was taken,
   exactly the locked tree under its final name: the names, the contents and
   the target, normalized modes and times, nothing else beside them, and no
   Git administration (share_with_parent, verify_installed_with_access). *)
SharedWasExact == subject = "checkout" => (op.outcome = "ok" => shown /\ synced)

(* A checkout whose verification failed and that is reported as quarantined is
   in the quarantine, whatever took its name meanwhile.  A checkout still
   under the final name after an error means that the quarantine, or the
   synchronization after the rename, failed (share_with_parent, quarantine). *)
RejectedIsMovedAway == subject = "checkout" =>
    /\ op.outcome = "rejected" => quarantined = 1 /\ at.final # 1
    /\ op.outcome \in {"stuck", "failed"} /\ at.final = 1 => faults > 0

(* Another's directory under the final name is neither replaced by the rename
   nor moved by the quarantine, unless it took the name between the
   quarantine's check and its rename (install_with_parent, quarantine:
   "A public-name replacement is not ours to move"). *)
OthersKept == [][subject = "checkout" => (at.final = 9 /\ other = "early" => at'.final = 9)]_GitVars

(* Without interference and failures, a checkout of the locked content is
   shared: no scan of the verification disturbs what the next one compares
   (normalize_and_hash_with: "every remaining scan can reuse an unchanged
   symlink inode's immutable target bytes"). *)
UndisturbedIsShared ==
    (subject = "checkout" /\ tree.file.data = "a" /\ op.todo # <<>> /\ outside = 0 /\ faults = 0 /\ at.final = 0)
        ~> (subject = "checkout" => op.outcome = "ok" \/ outside > 0 \/ faults > 0)

-----------------------------------------------------------------------------
(* A behaviour exercises one part, chosen at the start; the variables of the
   other parts are not in use. *)
GitInit ==
    /\ subject \in Subjects
    /\ \/ subject = "mirror" /\ MirrorInit
          /\ tree = None /\ at = None /\ quarantined = None /\ synced = None /\ outside = None /\ shown = None /\ other = None
       \/ subject = "checkout" /\ CheckoutInit
          /\ remote = None /\ mirror = None /\ marker = None /\ disk = None /\ lock = None /\ ops = None /\ kills = None

MirrorOnly == subject = "mirror" /\ UNCHANGED <<subject, tree, at, quarantined, synced, outside, shown, other>>
CheckoutOnly == subject = "checkout" /\ UNCHANGED <<subject, remote, mirror, marker, disk, lock, ops, kills>>
GitNext ==
    \/ MirrorOnly /\ MirrorNext
    \/ CheckoutOnly /\ CheckoutNext

GitTypeOK ==
    /\ subject = "mirror" => MirrorTypeOK
    /\ subject = "checkout" => CheckoutTypeOK
=============================================================================
