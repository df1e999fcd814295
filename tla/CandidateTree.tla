--------------------------- MODULE CandidateTree ----------------------------
(***************************************************************************)
(* The tree of a candidate state on its way to /usr: the marker that        *)
(* identifies it, the inventory that is sealed and compared, the metadata   *)
(* written into it, and the publication of its state id.                    *)
(***************************************************************************)
EXTENDS Parts, Integers, FiniteSets, Sequences

CONSTANTS
    Tasks,               \* callers of the store on one tree
    MaxInode,            \* bound on the marker files ever created
    MaxFaults,           \* bound on kills, failed calls and power failures
    MaxMoves,            \* bound on changes by others
    MaxInventoryFaults,  \* bound on failing calls
    MaxEntries,          \* limits.entries
    MaxDepth,            \* limits.depth
    MaxOutside,          \* bounds the changes by others
    Rebindable,          \* the names others may bind
    Writable,            \* the files others may write
    Starts,              \* what /usr/lib may be at first: "absent", "plain", "decorated"
    MaxStateidOutside, MaxStateidFaults  \* bound the changes by others and the failing calls

VARIABLES
    ns,          \* usr: the inode named .cast-tree-id; slot: the inode linked in the wrapper; at: the wrapper's name
    disk,        \* what each of the three directories may hold after a power failure
    file,        \* the contents of each inode: "free", "torn" or "sealed"
    synced,      \* the inodes whose contents are durable
    stale,       \* the name .cast-tree-id.tmp of an older version exists
    task,        \* the running calls
    promised,    \* the tokens returned to a caller so far
    faults,
    node,        \* every inode: its place, kind, content and change time
    clock,       \* the latest change time
    walk,        \* the walk in progress: open directories and the inventory so far
    ghost,       \* the tree at the end of a first walk; inodes changed since the seal
    spent,       \* changes by others, and faults
    lib,         \* the directory named lib, 0 when there is none
    private,     \* the directory under the private name
    names,       \* directory -> name -> inode
    changes,
    together,    \* were the two files in place at one moment of the last check
    at,          \* name -> inode
    durable,     \* the names are on disk as they are
    true  \* the outcomes that held at some moment since the last look at the names began

CandidateVars == <<subject, ns, disk, file, synced, stale, task, promised, faults, node, clock, op, walk, ghost,
                   spent, lib, private, names, changes, together, at, durable, true>>

-----------------------------------------------------------------------------
(***************************************************************************)
(* The permanent identity of a /usr tree: the file .cast-tree-id, sealed   *)
(* with a random token, and its one authorised second hard link, the state *)
(* slot marker in the state's wrapper under roots/.  A marker is written   *)
(* into an unnamed file and linked in place; callers that race adopt the   *)
(* winner.  A tree whose marker has two links is only usable once the slot *)
(* link was found in the state's own wrapper, at its name or parked.       *)
(*                                                                         *)
(* Inodes stand for tokens (a token is drawn once per inode).  `disk` is,  *)
(* for each directory, the set of contents a power failure may leave: a    *)
(* link or rename adds one, a directory sync leaves one.                   *)
(***************************************************************************)

Inode == 1..MaxInode
NoTask == [step |-> "out", kind |-> "strict", temp |-> 0, held |-> 0, links |-> 0, auth |-> FALSE, retried |-> FALSE, why |-> "none"]

Steps == {"out", "load", "write", "frame", "seal", "publish", "link", "linked", "reload", "racing", "sync_file", "sync_usr", "revalidate", "unauthorized",
          "held", "slot_sync", "park", "park_rename", "park_observe", "park_finish", "parked"}
Whys == {"none", "TemporaryPresent", "UnsafeMarker", "MarkerChanged", "MissingAuthorizedStateSlotLink", "InvalidAuthorizedLinkCount",
         "Missing", "Ambiguous", "Io"}

MarkerTypeOK ==
    /\ ns \in [usr : 0..MaxInode, slot : 0..MaxInode, at : {"canonical", "parked"}]
    /\ \A d \in DOMAIN disk : ns[d] \in disk[d]
    /\ file \in [Inode -> {"free", "torn", "sealed"}] /\ synced \subseteq Inode /\ stale \in BOOLEAN
    /\ \A t \in Tasks : /\ task[t].step \in Steps /\ task[t].kind \in {"strict", "transition", "recovery"} /\ task[t].why \in Whys
                        /\ task[t].temp \in 0..MaxInode /\ task[t].held \in 0..MaxInode /\ task[t].links \in 0..2
                        /\ (task[t].why # "none" => task[t].step = "out")
    /\ promised \subseteq Inode /\ faults \in 0..MaxFaults

MarkerInit ==
    /\ ns = [usr |-> 0, slot |-> 0, at |-> "canonical"]
    /\ disk = [usr |-> {0}, slot |-> {0}, at |-> {"canonical"}]
    /\ file = [i \in Inode |-> "free"] /\ synced = {} /\ stale \in BOOLEAN
    /\ task = [t \in Tasks |-> NoTask] /\ promised = {} /\ faults = 0

-----------------------------------------------------------------------------
Nlink(i) == Cardinality({d \in {"usr", "slot"} : ns[d] = i})
Set(t, r) == task' = [task EXCEPT ![t] = r]
Goto(t, step) == Set(t, [task[t] EXCEPT !.step = step])
Fail(t, why) == Set(t, [NoTask EXCEPT !.why = why])
Names == UNCHANGED <<ns, disk>>
Files == UNCHANGED <<file, synced>>
Env == UNCHANGED <<stale, faults>>
SyncDir(d) == disk' = [disk EXCEPT ![d] = {ns[d]}] /\ UNCHANGED ns
SyncFile(i) == synced' = synced \cup {i} /\ UNCHANGED file
Name(d, v) == ns' = [ns EXCEPT ![d] = v] /\ disk' = [disk EXCEPT ![d] = @ \cup {v}]

(* decode_marker: the magic, the length and the checksum of the frame. *)
decode_marker(i) == file[i] = "sealed"

(* load_canonical_with_links: "none", a retained marker, or an error. *)
load_canonical_with_links(links) ==
    CASE ns.usr = 0 -> "none"
      [] ns.usr # 0 /\ (Nlink(ns.usr) # links \/ ~decode_marker(ns.usr)) -> "UnsafeMarker"
      [] OTHER -> "ok"

(* load_canonical_for_transition also takes a marker with two links. *)
load_canonical_for_transition ==
    IF ns.usr # 0 /\ Nlink(ns.usr) \in {1, 2} THEN load_canonical_with_links(Nlink(ns.usr)) ELSE load_canonical_with_links(1)

load_canonical(kind) == IF kind = "strict" THEN load_canonical_with_links(1) ELSE load_canonical_for_transition
Retain(r, step) == [r EXCEPT !.step = step, !.held = ns.usr, !.links = Nlink(ns.usr), !.auth = Nlink(ns.usr) = 1]

needs_slot_link_authorization(r) == r.links = 2 /\ ~r.auth

(* revalidate: the retained file and the name still agree, with the number of
   links this marker was authorised for. *)
revalidate(r) == ~needs_slot_link_authorization(r) /\ ~stale /\ Nlink(r.held) = r.links /\ ns.usr = r.held /\ decode_marker(r.held)

(* adopt_or_create_before_journal, its variant for a transition, and
   read_for_transition_recovery, which only reads. *)
adopt_or_create_before_journal(t) ==
    /\ task[t].step = "out"
    /\ \E kind \in {"strict", "transition"} : Set(t, [NoTask EXCEPT !.step = "load", !.kind = kind])
    /\ SyncDir("usr") /\ Files /\ Env /\ UNCHANGED promised

read_for_transition_recovery(t) ==
    /\ task[t].step = "out" /\ ns.usr # 0
    /\ LET r == Retain([NoTask EXCEPT !.kind = "recovery"], "unauthorized") IN
       IF stale THEN Fail(t, "TemporaryPresent")
       ELSE IF load_canonical_for_transition # "ok" THEN Fail(t, "UnsafeMarker")
       ELSE Set(t, IF needs_slot_link_authorization(r) THEN r ELSE [r EXCEPT !.step = "revalidate"])
    /\ Names /\ Files /\ Env /\ UNCHANGED promised

(* The canonical marker is adopted, a missing one created. *)
Load(t) ==
    /\ task[t].step = "load"
    /\ LET got == load_canonical(task[t].kind) IN
       IF got = "UnsafeMarker" THEN Fail(t, got)
       ELSE IF stale THEN Fail(t, "TemporaryPresent")
       ELSE IF got = "ok" THEN Set(t, Retain(task[t], "sync_file"))
       ELSE Goto(t, "write")
    /\ Names /\ Files /\ Env /\ UNCHANGED promised

(* create_anonymous_temporary: an unnamed, empty file; at the bound on inodes
   it cannot be created. *)
create_anonymous_temporary(t) ==
    /\ task[t].step = "write" /\ Names /\ Env /\ UNCHANGED <<synced, promised>>
    /\ IF \A i \in Inode : file[i] # "free" THEN Fail(t, "Io") /\ UNCHANGED file
       ELSE \E i \in {j \in Inode : file[j] = "free"} :
            /\ Set(t, [task[t] EXCEPT !.step = "frame", !.temp = i])
            /\ file' = [file EXCEPT ![i] = "torn"]

(* write_all_at: the frame is whole, and not yet on disk. *)
write_all_at(t) ==
    /\ task[t].step = "frame"
    /\ file' = [file EXCEPT ![task[t].temp] = "sealed"] /\ Goto(t, "seal")
    /\ Names /\ Env /\ UNCHANGED <<synced, promised>>

(* write_complete_temporary: sync, seal, sync, and read back. *)
write_complete_temporary(t) ==
    /\ task[t].step = "seal"
    /\ SyncFile(task[t].temp) /\ Goto(t, "publish")
    /\ Names /\ Env /\ UNCHANGED promised

(* publish_temporary: a racing canonical marker is adopted, before the link
   and when the link finds the name taken. *)
publish_temporary(t) ==
    /\ task[t].step = "publish"
    /\ LET got == load_canonical_with_links(1) IN
       IF got = "ok" THEN Goto(t, "racing")
       ELSE IF got = "UnsafeMarker" THEN Fail(t, got)
       ELSE IF stale THEN Fail(t, "TemporaryPresent")
       ELSE Goto(t, "link")
    /\ Names /\ Files /\ Env /\ UNCHANGED promised

link_path_descriptor_noreplace(t) ==
    /\ task[t].step = "link"
    /\ IF ns.usr # 0 THEN Names /\ Goto(t, "racing") ELSE Name("usr", task[t].temp) /\ Goto(t, "linked")
    /\ Files /\ Env /\ UNCHANGED promised

publish_sync(t) ==
    /\ task[t].step = "linked"
    /\ SyncFile(task[t].temp) /\ SyncDir("usr") /\ Goto(t, "reload")
    /\ Env /\ UNCHANGED promised

publish_verify(t) ==
    /\ task[t].step = "reload"
    /\ LET got == load_canonical_with_links(1) IN
       IF got = "UnsafeMarker" THEN Fail(t, got) /\ UNCHANGED promised
       ELSE IF ns.usr # task[t].temp THEN Fail(t, "MarkerChanged") /\ UNCHANGED promised
       ELSE IF stale THEN Fail(t, "TemporaryPresent") /\ UNCHANGED promised
       ELSE Set(t, Retain(task[t], "held")) /\ promised' = promised \cup {ns.usr}
    /\ SyncDir("usr") /\ Files /\ Env

adopt_racing_canonical(t) ==
    /\ task[t].step = "racing"
    /\ IF load_canonical_with_links(1) # "ok" THEN Fail(t, "MarkerChanged")
       ELSE IF stale THEN Fail(t, "TemporaryPresent")
       ELSE Set(t, Retain(task[t], "sync_file"))
    /\ Names /\ Files /\ Env /\ UNCHANGED promised

(* The end of every adoption: sync the marker and its directory, and look
   again unless the second link is still to be authorised. *)
adopt_sync_file(t) ==
    /\ task[t].step = "sync_file" /\ SyncFile(task[t].held) /\ Goto(t, "sync_usr")
    /\ Names /\ Env /\ UNCHANGED promised

\* Mutant: an adopted marker's directory is not synced.
adopt_sync_usr_missing(t) ==
    /\ task[t].step = "sync_usr" /\ Names
    /\ Goto(t, IF needs_slot_link_authorization(task[t]) THEN "unauthorized" ELSE "revalidate")
    /\ Files /\ Env /\ UNCHANGED promised

adopt_sync_usr(t) ==
    /\ task[t].step = "sync_usr" /\ SyncDir("usr")
    /\ Goto(t, IF needs_slot_link_authorization(task[t]) THEN "unauthorized" ELSE "revalidate")
    /\ Files /\ Env /\ UNCHANGED promised

Return(t, r) ==
    /\ Set(t, [r EXCEPT !.step = "held"])
    /\ promised' = IF r.kind = "recovery" THEN promised ELSE promised \cup {r.held}

adopt_revalidate(t) ==
    /\ task[t].step = "revalidate"
    /\ IF revalidate(task[t]) THEN Return(t, task[t]) ELSE (Fail(t, "MarkerChanged") /\ UNCHANGED promised)
    /\ Names /\ Files /\ Env

-----------------------------------------------------------------------------
(* The state's name and the parking names are opened in turn; a wrapper
   counts when its slot marker is this inode. *)
inspect_recovery_wrapper(t) == ns.at \in {"canonical", "parked"} /\ ns.slot = task[t].held

(* authorize_recovered_slot_link: find the wrapper, make marker and wrapper
   durable again, authorise, and look again. *)
authorize_recovered_slot_link(t) ==
    /\ task[t].step = "unauthorized" /\ task[t].kind # "recovery"
    /\ IF inspect_recovery_wrapper(t)
       THEN LET r == [task[t] EXCEPT !.auth = TRUE] IN
            /\ SyncFile(r.held) /\ SyncDir("slot")
            /\ IF revalidate(r) THEN Return(t, r) ELSE Fail(t, "MarkerChanged") /\ UNCHANGED promised
       ELSE Fail(t, "MissingAuthorizedStateSlotLink") /\ Files /\ Names /\ UNCHANGED promised
    /\ Env

(* RetainedArchivedStateIdentity::retain: a reader of the archive wants the
   slot link beside the tree, at the state's own name. *)
retain(t) ==
    /\ task[t].step = "unauthorized" /\ task[t].kind = "recovery"
    /\ LET r == [task[t] EXCEPT !.auth = TRUE] IN
       IF ns.at = "canonical" /\ ns.slot = r.held /\ revalidate(r) THEN Return(t, r) ELSE Fail(t, "Missing") /\ UNCHANGED promised
    /\ Names /\ Files /\ Env

(* RetainedStateSlotMarker::prepare on the state's own wrapper: an existing
   slot link must be this marker's, a missing one is linked. *)
link_state_slot_noreplace(t) ==
    /\ task[t].step = "held" /\ task[t].kind # "recovery" /\ ns.at = "canonical" /\ ns.slot = 0
    /\ IF ~revalidate(task[t]) THEN Fail(t, "MarkerChanged") /\ Names
       ELSE IF task[t].links # 1 THEN Fail(t, "InvalidAuthorizedLinkCount") /\ Names
       ELSE Name("slot", task[t].held) /\ Set(t, [task[t] EXCEPT !.step = "slot_sync", !.links = 2, !.auth = TRUE])
    /\ Files /\ Env /\ UNCHANGED promised

require_authorized_slot_link(t) ==
    /\ task[t].step = "held" /\ task[t].kind # "recovery" /\ ns.at = "canonical" /\ ns.slot # 0
    /\ IF task[t].links # 2 THEN Fail(t, "InvalidAuthorizedLinkCount")
       ELSE IF ns.slot # task[t].held THEN Fail(t, "MarkerChanged")
       ELSE Goto(t, "slot_sync")
    /\ Names /\ Files /\ Env /\ UNCHANGED promised

prepare_slot_sync(t) ==
    /\ task[t].step = "slot_sync"
    /\ SyncFile(task[t].held) /\ SyncDir("slot")
    /\ IF revalidate(task[t]) /\ ns.slot = task[t].held THEN Goto(t, "held") ELSE Fail(t, "MarkerChanged")
    /\ Env /\ UNCHANGED promised

-----------------------------------------------------------------------------
(* Parking the wrapper of the active previous state: one retry of a failure
   that is not ambiguous. *)
base(t) == ns.slot = task[t].held /\ revalidate(task[t])

Retry(t, why) == IF task[t].retried THEN Fail(t, why) ELSE Set(t, [task[t] EXCEPT !.step = "park", !.retried = TRUE])

park_active_previous_state_slot(t) ==
    /\ \/ task[t].step = "held" /\ task[t].kind # "recovery" /\ task[t].links = 2 /\ task[t].auth
       \/ task[t].step = "park"
    /\ IF ~base(t) THEN Fail(t, "Ambiguous") /\ Names /\ Files
       ELSE IF ns.at = "parked" THEN Goto(t, "park_finish") /\ Names /\ Files
       ELSE SyncFile(task[t].held) /\ disk' = [disk EXCEPT !.slot = {ns.slot}, !.at = {ns.at}] /\ UNCHANGED ns /\ Goto(t, "park_rename")
    /\ Env /\ UNCHANGED promised

(* The rename is issued once; it may fail. *)
park_rename(t) ==
    /\ task[t].step = "park_rename"
    /\ IF ~base(t) THEN Fail(t, "Ambiguous") /\ Names /\ UNCHANGED faults
       ELSE \/ Name("at", "parked") /\ Goto(t, "park_observe") /\ UNCHANGED faults
            \/ faults < MaxFaults /\ faults' = faults + 1 /\ Names /\ Goto(t, "park_observe")
    /\ Files /\ UNCHANGED <<stale, promised>>

(* What the rename did is read off the names. *)
active_previous_slot_location(t) ==
    /\ task[t].step = "park_observe"
    /\ IF ns.at = "parked" THEN Goto(t, "park_finish") ELSE Retry(t, "Io")
    /\ Names /\ Files /\ Env /\ UNCHANGED promised

finish_active_previous_slot_parking(t) ==
    /\ task[t].step = "park_finish"
    /\ \/ /\ base(t) /\ SyncFile(task[t].held) /\ Goto(t, "parked") /\ UNCHANGED <<ns, faults>>
          /\ disk' = [disk EXCEPT !.slot = {ns.slot}, !.at = {ns.at}]
       \/ /\ ~base(t) \/ faults < MaxFaults
          /\ faults' = IF base(t) THEN faults + 1 ELSE faults
          /\ Names /\ Files /\ Retry(t, "Io")
    /\ UNCHANGED <<stale, promised>>

-----------------------------------------------------------------------------
Done(t) ==
    /\ task[t].step \in {"held", "parked"} /\ Set(t, NoTask)
    /\ Names /\ Files /\ Env /\ UNCHANGED promised

(* A killed or failed call leaves the names; its unnamed file goes. *)
Kill(t) ==
    /\ faults < MaxFaults /\ faults' = faults + 1 /\ task[t].step # "out" /\ Fail(t, "Io")
    /\ Names /\ Files /\ UNCHANGED <<stale, promised>>

PowerLoss ==
    /\ faults < MaxFaults /\ faults' = faults + 1
    /\ ns' \in [usr : disk.usr, slot : disk.slot, at : disk.at]
    /\ disk' = [d \in DOMAIN disk |-> {ns'[d]}]
    /\ file' \in {f \in [Inode -> {"free", "torn", "sealed"}] : \A i \in Inode : f[i] = file[i] \/ (i \notin synced /\ file[i] = "sealed" /\ f[i] = "torn")}
    /\ synced' = Inode /\ task' = [t \in Tasks |-> NoTask]
    /\ UNCHANGED <<stale, promised>>

Step(t) ==
    \/ Load(t) \/ create_anonymous_temporary(t) \/ write_all_at(t) \/ write_complete_temporary(t) \/ publish_temporary(t) \/ link_path_descriptor_noreplace(t)
    \/ publish_sync(t) \/ publish_verify(t) \/ adopt_racing_canonical(t) \/ adopt_sync_file(t) \/ adopt_sync_usr(t) \/ adopt_revalidate(t)
    \/ authorize_recovered_slot_link(t) \/ retain(t) \/ prepare_slot_sync(t) \/ park_rename(t) \/ active_previous_slot_location(t)
    \/ finish_active_previous_slot_parking(t)
    \/ (task[t].step = "park" /\ park_active_previous_state_slot(t))

MarkerNext ==
    \/ \E t \in Tasks :
        \/ adopt_or_create_before_journal(t) \/ read_for_transition_recovery(t) \/ Step(t) \/ Done(t) \/ Kill(t)
        \/ link_state_slot_noreplace(t) \/ require_authorized_slot_link(t) \/ park_active_previous_state_slot(t)
    \/ PowerLoss

-----------------------------------------------------------------------------
(* A tree never has two identities, and the one a caller may journal is
   durable: every namespace a power failure can leave names the marker that was
   returned, also when the caller adopted the marker of another call that had
   not synced it yet, and across races, kills and power failures. *)
TokenIsPermanent == subject = "marker" => (\A i \in promised : disk.usr = {i} /\ i \in synced)

(* The canonical name never shows a torn marker, not even after a power failure
   at any point of the publication. *)
NeverTorn == subject = "marker" => (\A i \in disk.usr \ {0} : i \in synced /\ decode_marker(i))

(* A marker used with two links has the second one in its own wrapper, durably;
   and a parked wrapper is parked durably. *)
AuthorizedLinkIsDurable == subject = "marker" =>
    (\A t \in Tasks : /\ task[t].step \in {"held", "parked"} /\ task[t].links = 2
                         => task[t].auth /\ ns.slot = task[t].held /\ (task[t].kind # "recovery" => disk.slot = {task[t].held})
                      /\ task[t].step = "parked" => disk.at = {"parked"})

(* No sequence of interrupted links and parkings strands a tree: the second
   link of a marker is found again by every later transition. *)
NeverStranded == subject = "marker" => (\A t \in Tasks : task[t].why # "MissingAuthorizedStateSlotLink")

-----------------------------------------------------------------------------
(***************************************************************************)
(* The durability proof of a candidate tree before it is journaled         *)
(* (prejournal_inventory): a walk by retained descriptors records every    *)
(* inode; each of them is synchronized from the leaves up, reached again   *)
(* by name from the retained root; the file system is synchronized; and a  *)
(* second walk must give the same inventory.  The tree marker is then      *)
(* published, which changes only the root, and two more walks around the   *)
(* synchronization of the marker must find the sealed tree and the marker. *)
(*                                                                         *)
(* The visit of an inode is one step: its change time is compared before   *)
(* and after it is read.  Others may change the tree between any two       *)
(* steps.  The walk is a stack of open directories, as in the code.        *)
(***************************************************************************)
\* disk: what of an inode a power loss leaves

Inodes == {"root", "d", "f", "l", "x", "m"}
InventoryNames == <<"d", "f", "l", "m", "x">>                 \* in the order of the sort
Marker == "m"

InventoryInode(p, name, kind) == [in |-> p, name |-> name, kind |-> kind, data |-> 1, links |-> 1, ct |-> 0]
Gone(kind) == InventoryInode("none", "none", kind)
Tree(marked) ==
    [o \in Inodes |->
        CASE o = "root" -> InventoryInode("none", "root", "Directory")
          [] o = "d" -> InventoryInode("root", "d", "Directory")
          [] o = "f" -> InventoryInode("d", "f", "Regular")
          [] o = "l" -> InventoryInode("root", "l", "Symlink")
          [] o = "x" -> Gone("Regular")
          [] OTHER -> IF marked THEN InventoryInode("root", Marker, "Regular") ELSE Gone("Regular")]

Entries(n, d) == {o \in Inodes : n[o].in = d}
Lookup(n, d, name) ==
    IF \E o \in Entries(n, d) : n[o].name = name THEN CHOOSE o \in Entries(n, d) : n[o].name = name ELSE "none"
Reachable(n) == {"root"} \cup Entries(n, "root") \cup UNION {Entries(n, o) : o \in Entries(n, "root")}
Truth(n) == {<<o, n[o].in, n[o].name, n[o].data>> : o \in Reachable(n) \ {"root", Marker}}
Image(n, o) == [data |-> n[o].data, names |-> {<<n[e].name, e>> : e \in Entries(n, o)}]

NoWalk == [frames |-> <<>>, nodes |-> <<>>, marker |-> <<>>, entries |-> 0]
NoInventory == [nodes |-> <<>>, marker |-> <<>>]
Idle == [step |-> "idle", k |-> 0, base |-> NoInventory, after |-> NoInventory, policy |-> "Classify"]
Refuse == /\ op' = [Idle EXCEPT !.step = "refused"] /\ walk' = NoWalk

InventoryInit ==
    /\ \E marked \in BOOLEAN, existing \in BOOLEAN :
        /\ existing => marked
        /\ node = Tree(marked)
        /\ op = [Idle EXCEPT !.policy = IF existing THEN "MustBePresent" ELSE "Classify"]
    /\ disk = [o \in Inodes |-> [data |-> 0, names |-> {}]]
    /\ clock = 0
    /\ walk = NoWalk
    /\ ghost = [mid |-> {}, touched |-> {}]
    /\ spent = [moves |-> 0, faults |-> 0]

NoFault == UNCHANGED spent
MayFail == spent.faults < MaxInventoryFaults /\ spent' = [spent EXCEPT !.faults = @ + 1]
World == UNCHANGED <<node, clock>>
-----------------------------------------------------------------------------
(* What a walk records of an inode; the names of a directory are sorted. *)
MetadataWitness(o) == [inode |-> o, kind |-> node[o].kind, links |-> node[o].links, ct |-> node[o].ct]

directory_names(d) == SelectSeq(InventoryNames, LAMBDA name : Lookup(node, d, name) # "none")
Children(d) == SelectSeq(directory_names(d), LAMBDA name : d # "root" \/ name # Marker)
Payload(o) ==
    [children |-> IF node[o].kind = "Directory" THEN Children(o) ELSE <<>>,
     data |-> IF node[o].kind = "Directory" THEN 0 ELSE node[o].data]
Node(o, parent, name, depth) ==
    [parent |-> parent, name |-> name, depth |-> depth, meta |-> MetadataWitness(o), payload |-> Payload(o)]

(* The entries of every listed directory count against the limits. *)
NamespaceCounter(entries, names1, depth) == (names1 # <<>> => depth <= MaxDepth) /\ entries + Len(names1) <= MaxEntries

inspect_marker ==
    LET m == Lookup(node, "root", Marker) IN IF m = "none" THEN <<>> ELSE <<MetadataWitness(m)>>
UnsafeMarker ==
    LET m == Lookup(node, "root", Marker) IN m # "none" /\ (node[m].kind # "Regular" \/ node[m].links \notin {1, 2})

(* collect_inventory: the root and the marker, then one entry per step. *)
WalkSteps == {"walk1", "walk2", "walk3", "walk4"}
collect_root ==
    /\ op.step \in WalkSteps /\ walk = NoWalk
    /\ UNCHANGED <<disk, ghost>> /\ World
    /\ \/ /\ NoFault
          /\ IF \/ ~NamespaceCounter(0, Children("root"), 1) \/ UnsafeMarker
                \/ op.policy = "MustBePresent" /\ inspect_marker = <<>>
             THEN Refuse
             ELSE /\ walk' = [frames |-> <<[inode |-> "root", node |-> 1, next |-> 1, depth |-> 0]>>,
                              nodes |-> <<Node("root", 0, "", 0)>>, marker |-> inspect_marker,
                              entries |-> Len(Children("root"))]
                  /\ UNCHANGED op
       \/ MayFail /\ Refuse

Top == walk.frames[Len(walk.frames)]
Listed == walk.nodes[Top.node].payload.children
collect_entry ==
    /\ op.step \in WalkSteps /\ walk.frames # <<>> /\ Top.next <= Len(Listed)
    /\ NoFault
    /\ UNCHANGED <<disk, ghost>> /\ World
    /\ LET name == Listed[Top.next]
           o == Lookup(node, Top.inode, name)
           directory == o # "none" /\ node[o].kind = "Directory"
           n == Len(walk.nodes) + 1
           depth == Top.depth + 1
           advanced == [walk.frames EXCEPT ![Len(walk.frames)].next = @ + 1]
       IN  IF \/ o = "none"
              \/ ~directory /\ node[o].links # 1
              \/ \E i \in 1..Len(walk.nodes) : walk.nodes[i].meta.inode = o
              \/ directory /\ ~NamespaceCounter(walk.entries, Children(o), depth + 1)
           THEN Refuse
           ELSE /\ walk' = [walk EXCEPT
                                !.nodes = Append(@, Node(o, Top.node, name, depth)),
                                !.entries = @ + Len(Payload(o).children),
                                !.frames = IF directory THEN Append(advanced, [inode |-> o, node |-> n, next |-> 1, depth |-> depth])
                                           ELSE advanced]
                /\ UNCHANGED op
collect_pop ==
    /\ op.step \in WalkSteps /\ Len(walk.frames) > 1 /\ Top.next > Len(Listed)
    /\ walk' = [walk EXCEPT !.frames = SubSeq(@, 1, Len(@) - 1)]
    /\ UNCHANGED <<disk, op, ghost>> /\ World /\ NoFault
Collected == op.step \in WalkSteps /\ Len(walk.frames) = 1 /\ Top.next > Len(Listed)
Inventory == [nodes |-> walk.nodes, marker |-> walk.marker]

(* require_exact and require_marker_delta: the root may have been changed by
   the publication of the marker, nothing else. *)
require_exact(expected, actual) == expected = actual
Publishable(r) == [r EXCEPT !.meta.ct = 0]

require_marker_delta(expected, actual) ==
    /\ Len(expected.nodes) = Len(actual.nodes)
    /\ \A i \in 1..Len(expected.nodes) :
        IF i = 1 /\ expected.marker = <<>> THEN Publishable(expected.nodes[i]) = Publishable(actual.nodes[i])
        ELSE expected.nodes[i] = actual.nodes[i]
    /\ IF expected.marker = <<>> THEN actual.marker # <<>> /\ actual.marker[1].links = 1 ELSE actual.marker = expected.marker
-----------------------------------------------------------------------------
(* seal, seal_existing_marked_candidate: two walks around the barrier. *)
seal ==
    /\ op.step = "idle"
    /\ op' = [op EXCEPT !.step = "walk1"]
    /\ UNCHANGED <<disk, walk, ghost>> /\ World /\ NoFault
baseline ==
    /\ op.step = "walk1" /\ Collected
    /\ op' = [op EXCEPT !.step = "sync", !.base = Inventory, !.k = Len(walk.nodes)]
    /\ walk' = NoWalk
    /\ ghost' = [ghost EXCEPT !.mid = Truth(node)]
    /\ UNCHANGED disk /\ World /\ NoFault

(* open_inventory_node: every component by name, each with its witness. *)
open_inventory_node(inv, k) ==
    /\ MetadataWitness("root") = inv.nodes[1].meta
    /\ \A i \in 2..k : (i = k \/ inv.nodes[k].parent = i) =>
        LET p == inv.nodes[inv.nodes[i].parent].meta.inode
            o == Lookup(node, p, inv.nodes[i].name)
        IN  o # "none" /\ MetadataWitness(o) = inv.nodes[i].meta

Synced(o) == disk' = [disk EXCEPT ![o] = Image(node, o)]
Cur == op.base.nodes[op.k]

(* Each inode of the baseline, from the last to the root: reached by name,
   read again, synchronized.  A symbolic link has nothing to synchronize. *)
sync_node ==
    /\ op.step = "sync" /\ op.k > 0
    /\ UNCHANGED <<walk, ghost>> /\ World
    /\ \/ /\ NoFault
          /\ IF open_inventory_node(op.base, op.k) /\ Payload(Cur.meta.inode) = Cur.payload
             THEN /\ IF Cur.meta.kind = "Symlink" THEN UNCHANGED disk ELSE Synced(Cur.meta.inode)
                  /\ op' = [op EXCEPT !.step = "reopen"]
                  /\ UNCHANGED walk
             ELSE Refuse /\ UNCHANGED disk
       \/ MayFail /\ Refuse /\ UNCHANGED disk
reopen_node ==
    /\ op.step = "reopen"
    /\ UNCHANGED <<disk, ghost>> /\ World /\ NoFault
    /\ IF open_inventory_node(op.base, op.k)
       THEN op' = [op EXCEPT !.step = IF op.k = 1 THEN "syncfs" ELSE "sync", !.k = @ - 1] /\ UNCHANGED walk
       ELSE Refuse

sync_filesystem ==
    /\ op.step = "syncfs"
    /\ UNCHANGED ghost /\ World
    /\ \/ /\ NoFault
          /\ disk' = [o \in Inodes |-> Image(node, o)]
          /\ op' = [op EXCEPT !.step = "syncroot"]
          /\ UNCHANGED walk
       \/ MayFail /\ Refuse /\ UNCHANGED disk
revalidate_root ==
    /\ op.step = "syncroot"
    /\ UNCHANGED <<disk, ghost>> /\ World /\ NoFault
    /\ IF open_inventory_node(op.base, 1) THEN op' = [op EXCEPT !.step = "walk2"] /\ UNCHANGED walk ELSE Refuse
sealed ==
    /\ op.step = "walk2" /\ Collected
    /\ UNCHANGED disk /\ World /\ NoFault
    /\ ghost' = [ghost EXCEPT !.touched = {}]
    /\ IF require_exact(op.base, Inventory)
       THEN op' = [op EXCEPT !.step = "sealed"] /\ walk' = NoWalk
       ELSE Refuse

(* adopt_or_create_before_journal_for_transition, as one step here (the
   sections above take it apart): the marker is published, or was there. *)
publish_marker ==
    /\ op.step = "sealed" /\ op.policy = "Classify"
    /\ UNCHANGED <<disk, walk, ghost>> /\ NoFault
    /\ IF node[Marker].in # "none" THEN UNCHANGED <<node, clock>>
       ELSE /\ clock' = clock + 1
            /\ node' = [node EXCEPT ![Marker] = [InventoryInode("root", Marker, "Regular") EXCEPT !.ct = clock'], !["root"].ct = clock']
    /\ op' = [op EXCEPT !.step = "walk3", !.policy = "MustBePresent"]

(* validate_after_marker. *)
after_publication ==
    /\ op.step = "walk3" /\ Collected
    /\ UNCHANGED disk /\ World /\ NoFault
    /\ UNCHANGED ghost
    /\ IF require_marker_delta(op.base, Inventory)
       THEN op' = [op EXCEPT !.step = "msync", !.after = Inventory] /\ walk' = NoWalk
       ELSE Refuse
sync_marker_delta ==
    /\ op.step = "msync"
    /\ UNCHANGED ghost /\ World
    /\ \/ /\ NoFault
          /\ IF inspect_marker = op.after.marker
             THEN Synced(Marker) /\ op' = [op EXCEPT !.step = "rsync"] /\ UNCHANGED walk
             ELSE Refuse /\ UNCHANGED disk
       \/ MayFail /\ Refuse /\ UNCHANGED disk
sync_marker_root ==
    /\ op.step = "rsync"
    /\ UNCHANGED ghost /\ World
    /\ \/ /\ NoFault
          /\ IF open_inventory_node(op.after, 1) /\ inspect_marker # <<>> /\ Children("root") = op.after.nodes[1].payload.children
             THEN Synced("root") /\ op' = [op EXCEPT !.step = "walk4"] /\ UNCHANGED walk
             ELSE Refuse /\ UNCHANGED disk
       \/ MayFail /\ Refuse /\ UNCHANGED disk
validated ==
    /\ op.step = "walk4" /\ Collected
    /\ UNCHANGED <<disk, ghost>> /\ World /\ NoFault
    /\ IF require_exact(op.after, Inventory) /\ require_marker_delta(op.base, Inventory)
       THEN op' = [op EXCEPT !.step = "validated"] /\ walk' = NoWalk
       ELSE Refuse
-----------------------------------------------------------------------------
(* Another process writes a file, links it, or renames an inode. *)
Changed(o, n) ==
    /\ node' = n
    /\ ghost' = [ghost EXCEPT !.touched = IF op.step \in {"sealed", "walk3"} THEN @ \cup o ELSE @]
Places == {<<"root", "d">>, <<"root", "l">>, <<"root", "x">>, <<"d", "f">>, <<"none", "none">>}
Outside ==
    /\ spent.moves < MaxMoves
    /\ op.step \notin {"idle", "refused", "validated"}
    /\ clock' = clock + 1
    /\ \/ \E o \in {"f"} : Changed({o}, [node EXCEPT ![o].data = 3 - @, ![o].ct = clock'])
       \/ \E o \in {"f"} : Changed({o}, [node EXCEPT ![o].links = 3 - @, ![o].ct = clock'])
       \/ \E o \in {"d", "f", "l", "x"}, p \in Places :
            /\ <<node[o].in, node[o].name>> # p
            /\ p[1] # "none" => Lookup(node, p[1], p[2]) = "none"
            /\ o # p[1]
            /\ Changed({o, node[o].in, p[1]} \ {"none"},
                       [i \in Inodes |-> IF i = o THEN [node[o] EXCEPT !.in = p[1], !.name = p[2], !.ct = clock']
                                         ELSE IF i \in {node[o].in, p[1]} THEN [node[i] EXCEPT !.ct = clock'] ELSE node[i]])
    /\ spent' = [spent EXCEPT !.moves = @ + 1]
    /\ UNCHANGED <<disk, op, walk>>

Stopped ==
    /\ op.step \in {"refused", "validated"} \/ (op.step = "sealed" /\ op.policy = "MustBePresent")
    /\ UNCHANGED CandidateVars

InventoryNext ==
    \/ collect_root \/ collect_entry \/ collect_pop
    \/ seal \/ baseline \/ sync_node \/ reopen_node \/ sync_filesystem \/ revalidate_root \/ sealed
    \/ publish_marker \/ after_publication \/ sync_marker_delta \/ sync_marker_root \/ validated
    \/ Outside \/ Stopped
-----------------------------------------------------------------------------
(* A walk stays within the limits of the inventory and sees an inode once. *)
InventoryTypeOK ==
    /\ op.step \in WalkSteps \cup {"idle", "refused", "sync", "reopen", "syncfs", "syncroot", "sealed", "msync", "rsync", "validated"}
    /\ walk.entries <= MaxEntries
    /\ Len(walk.nodes) <= 1 + walk.entries
    /\ \A i, j \in 1..Len(walk.nodes) : walk.nodes[i].meta.inode = walk.nodes[j].meta.inode => i = j
    /\ \A i \in 1..Len(walk.nodes) : walk.nodes[i].depth <= MaxDepth

Recorded(inv) ==
    {<<inv.nodes[i].meta.inode, inv.nodes[inv.nodes[i].parent].meta.inode, inv.nodes[i].name,
       IF inv.nodes[i].meta.kind = "Directory" THEN 1 ELSE inv.nodes[i].payload.data>> : i \in 2..Len(inv.nodes)}

(* seal: the baseline was put together while others could change the tree,
   and still it is the tree there was at one instant, when the first walk
   ended. *)
SealedWasTheTree == subject = "inventory" => (op.step = "sealed" => Recorded(op.base) = ghost.mid)

(* sync_baseline, sync_marker_delta: what is sealed survives a power loss,
   with every name, content and link; after the validation the marker too. *)
SealedIsDurable == subject = "inventory" =>
    (op.step \in {"sealed", "validated"} =>
        /\ \A i \in 1..Len(op.base.nodes) :
            LET r == op.base.nodes[i]
                o == r.meta.inode
            IN  /\ r.meta.kind # "Directory" => disk[o].data = r.payload.data
                /\ r.meta.kind = "Directory" =>
                    {e[1] : e \in disk[o].names} \ {Marker} = {r.payload.children[j] : j \in 1..Len(r.payload.children)}
        /\ op.step = "validated" => disk[Marker].data = 1 /\ <<Marker, Marker>> \in disk["root"].names)

(* validate_after_marker: the tree the marker is published in is the sealed
   one all along; nothing but the root was changed between the seal and the
   walk after the publication. *)
MarkedTreeIsTheSealedOne == subject = "inventory" =>
    (op.step = "validated" => {op.base.nodes[i].meta.inode : i \in 2..Len(op.base.nodes)} \cap ghost.touched = {})

-----------------------------------------------------------------------------
(***************************************************************************)
(* A candidate tree is decorated with /usr/lib/os-release, derived from an  *)
(* optional os-info.json, and with a snapshot of the system model.  Both    *)
(* are written to anonymous files, synced and linked at names that must be  *)
(* free; a missing /usr/lib is made under a private name and renamed.  A    *)
(* tree that was decorated before is only verified.  Either way the caller  *)
(* gets a proof that the pair is in place and that no snapshot of another   *)
(* format is beside it.                                                     *)
(*                                                                         *)
(* Others may bind and unbind the names and write the files meanwhile.      *)
(* Inodes 1 and 2 are the process's release and model, 3 another file;      *)
(* content 1 is the expected one.  Directories: 1 is a /usr/lib that was    *)
(* there, 2 the one that is made, 3 another.                                *)
(***************************************************************************)
\* file: inode -> content and change counter
\* disk: what is synced: the name lib, the names in it, the contents

Dirs == 1..3
MetadataNames == {"info", "release", "model", "alternate"}
MetadataFiles == 1..4
NoNames == [n \in MetadataNames |-> 0]
Own == [release |-> 1, model |-> 2]

-----------------------------------------------------------------------------
(* The calls of one operation, in their order. *)
S(stage) == <<stage, "">>
Publish(n) ==
    << S("named"), <<"absent", n>>, S("named"), <<"link", n>>, S("named"), <<"published", n>>, <<"sync_file", n>>,
       S("sync_lib"), S("named"), <<"published", n>>, S("named") >>
Alternates == <<"absent", "alternate">>
require_published_pair ==
    << S("pair"), S("named"), Alternates, <<"published", "release">>, Alternates, <<"published", "model">>, Alternates,
       <<"published", "model">>, Alternates, <<"published", "release">>, Alternates, S("named"), S("proved") >>
ReadOsInfo == << <<"read", "info">>, <<"reread", "info">> >>
create_private_and_publish == << S("mkdir"), S("rename"), S("canonical"), S("private"), S("sync_usr"), S("named") >>
PublishOutputs ==
    << S("named"), <<"absent", "release">>, <<"absent", "model">>, Alternates, <<"prepare", "release">>,
                     <<"prepare", "model">>, Alternates >>
    \o Publish("release") \o << S("named"), Alternates >> \o Publish("model")
    \o << Alternates, S("named"), S("sync_lib"), S("sync_usr") >> \o require_published_pair
decorate_retained == ReadOsInfo \o PublishOutputs
prove ==
    << S("named") >> \o ReadOsInfo \o << S("named"), Alternates, <<"retain", "release">>, S("named"), Alternates, <<"retain", "model">> >>
    \o require_published_pair

MetadataIdle == [todo |-> << S("begin") >>, dir |-> 0, seen |-> 0, held |-> [n \in {"release", "model"} |-> 0], outcome |-> "running"]
Refused == [MetadataIdle EXCEPT !.todo = <<>>, !.outcome = "refused"]

At(stage, n) == op.todo # <<>> /\ op.todo[1] = <<stage, n>>
Advance(o) == [o EXCEPT !.todo = Tail(@)]
Require(condition, o) == op' = IF condition THEN Advance(o) ELSE Refused
Links(i) == Cardinality({<<d, n>> \in Dirs \X MetadataNames : names[d][n] = i})
Bound(n) == names[op.dir][n]
InPlace(n, dirs, files) == dirs[op.dir][n] # 0 /\ dirs[op.dir][n] = op.held[n] /\ files[dirs[op.dir][n]].data = 1
Together(at1, dirs, files) == op.dir # 0 /\ at1 = op.dir /\ dirs[op.dir]["alternate"] = 0 /\ InPlace("release", dirs, files) /\ InPlace("model", dirs, files)
Keep == UNCHANGED <<lib, private, names, file>>
Quiet == Keep /\ UNCHANGED <<disk, changes, together>>
Fault == op' = Refused

-----------------------------------------------------------------------------
(* The directory. *)
retain_or_create ==
    /\ At("begin", "")
    /\ \/ /\ op' = IF lib = 0 THEN [op EXCEPT !.todo = create_private_and_publish \o decorate_retained]
                   ELSE [op EXCEPT !.todo = << S("open") >> \o decorate_retained, !.seen = lib]
       \/ op' = [op EXCEPT !.todo = << S("open") >> \o prove, !.seen = lib] /\ lib # 0 /\ names[lib]["release"] # 0
    /\ Quiet
open_existing ==
    /\ At("open", "")
    /\ Require(lib # 0 /\ lib = op.seen, [op EXCEPT !.dir = lib])
    /\ Quiet
mkdir_private ==
    /\ At("mkdir", "")
    /\ private' = 2
    /\ op' = Advance(op)
    /\ UNCHANGED <<lib, names, file, disk, changes, together>>
\* The rename may fail, or take effect and still be reported as failed: the name decides.
publish_private_directory_once ==
    /\ At("rename", "")
    /\ \/ lib = 0 /\ private = 2 /\ lib' = 2 /\ private' = 0
       \/ UNCHANGED <<lib, private>>
    /\ op' = Advance(op)
    /\ disk' = [disk EXCEPT !.lib = FALSE]
    /\ UNCHANGED <<names, file, changes, together>>
open_canonical ==
    /\ At("canonical", "")
    /\ Require(lib = 2, [op EXCEPT !.dir = 2])
    /\ Quiet
require_private_absent ==
    /\ At("private", "")
    /\ Require(private = 0 /\ names[2] = NoNames, op)
    /\ Quiet
sync_usr ==
    /\ At("sync_usr", "")
    /\ \/ disk' = [disk EXCEPT !.lib = TRUE] /\ op' = Advance(op)
       \/ Fault /\ UNCHANGED disk
    /\ Keep /\ UNCHANGED <<changes, together>>
require_named ==
    /\ At("named", "")
    /\ Require(lib = op.dir, op)
    /\ Quiet
require_absent(n) ==
    /\ At("absent", n)
    /\ Require(Bound(n) = 0, op)
    /\ Quiet

-----------------------------------------------------------------------------
(* The files. *)
\* os-info.json may be missing; its name and its witness are looked at again after the read.
read_optional_input ==
    /\ At("read", "info")
    /\ op' = IF Bound("info") = 0 THEN Advance(Advance(op)) ELSE Advance([op EXCEPT !.seen = <<Bound("info"), file[Bound("info")].ver>>])
    /\ Quiet
input_witness ==
    /\ At("reread", "info")
    /\ Require(Bound("info") # 0 /\ op.seen = <<Bound("info"), file[Bound("info")].ver>>, [op EXCEPT !.seen = 0])
    /\ Quiet
\* An anonymous file is written, synced, sealed and read back; nobody else has a name for it.
PreparedFile(n) ==
    /\ At("prepare", n)
    /\ \/ /\ file' = [file EXCEPT ![Own[n]] = [data |-> 1, ver |-> @.ver + 1]]
          /\ disk' = [disk EXCEPT !.data = @ \cup {Own[n]}]
          /\ op' = Advance([op EXCEPT !.held[n] = Own[n]])
       \/ Fault /\ UNCHANGED <<file, disk>>
    /\ UNCHANGED <<lib, private, names, changes, together>>
retain_existing_published(n) ==
    /\ At("retain", n)
    /\ Require(Bound(n) # 0 /\ Links(Bound(n)) = 1 /\ file[Bound(n)].data = 1, [op EXCEPT !.held[n] = Bound(n)])
    /\ Quiet
Linked(n) == names' = [names EXCEPT ![op.dir][n] = op.held[n]]
\* The link fails when the name is taken; a failure that is reported after the effect counts as done.
publish(n) ==
    /\ At("link", n)
    /\ \/ Bound(n) = 0 /\ Linked(n) /\ op' = Advance(op)
       \/ UNCHANGED names /\ Require(Bound(n) = op.held[n], op)
    /\ disk' = [disk EXCEPT !.names = FALSE]
    /\ UNCHANGED <<lib, private, file, changes, together>>
require_published(n) ==
    /\ At("published", n)
    /\ Require(Bound(n) = op.held[n] /\ Links(op.held[n]) = 1 /\ file[op.held[n]].data = 1, op)
    /\ Quiet
sync_file(n) ==
    /\ At("sync_file", n)
    /\ \/ disk' = [disk EXCEPT !.data = @ \cup {op.held[n]}] /\ op' = Advance(op)
       \/ Fault /\ UNCHANGED disk
    /\ Keep /\ UNCHANGED <<changes, together>>
(* Mutant: the directory is not synced. *)
sync_lib_skipped ==
    /\ At("sync_lib", "")
    /\ op' = Advance(op)
    /\ Quiet
sync_lib ==
    /\ At("sync_lib", "")
    /\ \/ disk' = [disk EXCEPT !.names = TRUE] /\ op' = Advance(op)
       \/ Fault /\ UNCHANGED disk
    /\ Keep /\ UNCHANGED <<changes, together>>
metadata_revalidate ==
    /\ At("pair", "")
    /\ op' = Advance(op)
    /\ together' = Together(lib, names, file)
    /\ Keep /\ UNCHANGED <<disk, changes>>
Proved ==
    /\ At("proved", "")
    /\ op' = [op EXCEPT !.todo = <<>>, !.outcome = "proved"]
    /\ Quiet

-----------------------------------------------------------------------------
(* Others. *)
MetadataOutside ==
    /\ op.outcome = "running" /\ changes < MaxOutside[subject] /\ changes' = changes + 1
    /\ UNCHANGED <<private, op>>
    /\ together' = (together \/ Together(lib', names', file'))
OutsideName ==
    /\ \E d \in {lib} \ {0}, n \in Rebindable[subject] \cap MetadataNames, i \in {0} \cup {k \in MetadataFiles : (k \in {1, 2} => \E m \in {"release", "model"} : op.held[m] = k)} :
          /\ i # names[d][n] /\ names' = [names EXCEPT ![d][n] = i]
          /\ disk' = [disk EXCEPT !.names = FALSE]
    /\ UNCHANGED <<lib, file>> /\ MetadataOutside
OutsideDirectory ==
    /\ "lib" \in Rebindable[subject]
    /\ \E d \in {0, 1, 3} \cup (IF op.dir = 2 THEN {2} ELSE {}) : d # lib /\ lib' = d
    /\ disk' = [disk EXCEPT !.lib = FALSE]
    /\ UNCHANGED <<names, file>> /\ MetadataOutside
OutsideWrite ==
    /\ \E i \in Writable[subject], data \in 1..2 :
          /\ Links(i) > 0 /\ file' = [file EXCEPT ![i] = [data |-> data, ver |-> @.ver + 1]]
          /\ disk' = [disk EXCEPT !.data = @ \ {i}]
    /\ UNCHANGED <<lib, names>> /\ MetadataOutside

MetadataInit ==
    /\ \E start \in Starts[subject], info \in {0, 4} :
          /\ lib = IF start = "absent" THEN 0 ELSE 1
          /\ names = [d \in Dirs |-> IF d # 1 \/ start = "absent" THEN NoNames
                                     ELSE IF start = "plain" THEN [NoNames EXCEPT !["info"] = info]
                                     ELSE [NoNames EXCEPT !["info"] = info, !["release"] = 1, !["model"] = 2]]
    /\ private = 0
    /\ file = [i \in MetadataFiles |-> [data |-> IF i = 3 THEN 2 ELSE 1, ver |-> 0]]
    /\ disk = [lib |-> TRUE, names |-> TRUE, data |-> MetadataFiles]
    /\ op = MetadataIdle /\ changes = 0 /\ together = FALSE
Directory ==
    retain_or_create \/ open_existing \/ mkdir_private \/ publish_private_directory_once \/ open_canonical \/ require_private_absent
    \/ sync_usr \/ require_named \/ \E n \in MetadataNames : require_absent(n)
Contents ==
    read_optional_input \/ input_witness \/ sync_lib \/ metadata_revalidate \/ Proved
    \/ \E n \in {"release", "model"} : PreparedFile(n) \/ retain_existing_published(n) \/ publish(n) \/ require_published(n) \/ sync_file(n)
MetadataNext == Directory \/ Contents \/ OutsideName \/ OutsideDirectory \/ OutsideWrite

-----------------------------------------------------------------------------
(* The operation is at one of its calls. *)
MetadataTypeOK ==
    /\ lib \in 0..3 /\ private \in {0, 2} /\ op.dir \in 0..3
    /\ op.outcome \in {"running", "refused", "proved"} /\ (op.outcome = "running" <=> op.todo # <<>>)
    /\ \A n \in {"release", "model"} : op.held[n] \in 0..4
    /\ op.outcome = "proved" => op.dir # 0 /\ op.held["release"] # op.held["model"]
    /\ op.dir = 0 /\ op.todo # <<>> => op.todo[1][1] \in {"begin", "open", "mkdir", "rename", "canonical"}

(* A proof was true at one moment of its last check: /usr/lib was the retained *)
(* directory, both names were bound to the retained files with the expected    *)
(* contents, and no snapshot of another format was beside them                 *)
(* (require_published_pair looks at the pair forth and back).                  *)
ProofWasTrue == subject = "metadatamoves" => (op.outcome = "proved" => together)

(* With nobody else at work a proof of a decorated tree is durable: the name   *)
(* of the directory, both names in it and both contents are on disk.           *)
ProofIsDurable == subject = "metadata" => ((op.outcome = "proved" /\ changes = 0) => disk.lib /\ disk.names /\ {op.held["release"], op.held["model"]} \subseteq disk.data)

(* A name that is taken is never taken over: a step of the operation binds only *)
(* names that are free, even if others bound one after it was found absent.     *)
ForeignIsKept == [][subject = "metadata" => ((changes' = changes /\ names' # names) => \A d \in Dirs, n \in MetadataNames : names'[d][n] # names[d][n] => names[d][n] = 0)]_CandidateVars

-----------------------------------------------------------------------------
(***************************************************************************)
(* A candidate tree gets its state ID by publishing a file: an exclusive    *)
(* temporary is written and synced, renamed once to the canonical name      *)
(* without replacing, and the directory is synced.  Every error is          *)
(* reconciled with the two names before its outcome is reported: the exact  *)
(* inode is published, is not (and the temporary is retired), or nobody can *)
(* say.  A tree that has its ID already is only retained.                   *)
(*                                                                         *)
(* Inode 1 is the process's file, 2 anything else, 0 no file.  Any call may *)
(* fail, a rename or unlink also after it took effect, and others may       *)
(* rebind the names and write the file.                                     *)
(***************************************************************************)
\* file: content, change counter and whether the content is synced

StateidNames == {"canonical", "temporary"}
StateidLinks == Cardinality({n \in StateidNames : at[n] = 1})
Outcomes == {"retained", "NotPublished", "Published", "Ambiguous"}
Holds(names1, f) ==
    (IF names1["canonical"] # 1 THEN {"NotPublished"} ELSE {})
    \cup (IF names1["canonical"] = 1 /\ names1["temporary"] = 0 THEN {"Published"} ELSE {})
    \cup (IF names1["canonical"] = 1 /\ f.data = "id" THEN {"retained"} ELSE {})
    \cup {"Ambiguous"}

Start(step) == [step |-> step, next |-> "", c |-> 0, t |-> 0, before |-> 0, witness |-> 0, outcome |-> ""]
StateidAt(step) == op.step = step
StateidGoto(step) == [op EXCEPT !.step = step]
Look(next) == [op EXCEPT !.step = "look", !.next = next]
End(outcome) == [Start("done") EXCEPT !.outcome = outcome]
StateidFail(o) == faults < MaxStateidFaults /\ faults' = faults + 1 /\ op' = o
StateidNoFault(o) == op' = o /\ UNCHANGED faults
StateidWorld == UNCHANGED <<at, file, durable, changes>>
StateidQuiet == StateidWorld /\ UNCHANGED true

-----------------------------------------------------------------------------
(* The names are looked at one after the other. *)
inspect_namespace ==
    \/ /\ StateidAt("look")
       /\ true' = Holds(at, file)
       /\ StateidNoFault([op EXCEPT !.step = "look_temporary", !.c = at["canonical"]])
       /\ StateidWorld
    \/ /\ StateidAt("look_temporary")
       /\ StateidNoFault([op EXCEPT !.step = op.next, !.t = at["temporary"]])
       /\ StateidQuiet
outcome(c, t) == IF c = 1 /\ t = 0 THEN "Published" ELSE IF t = 1 /\ c # 1 THEN "NotPublished" ELSE "Ambiguous"

require_absent_canonical ==
    \/ /\ StateidAt("absent") /\ StateidNoFault(IF at["canonical"] # 0 THEN End("NotPublished") ELSE StateidGoto("absent_temporary")) /\ StateidQuiet
    \/ /\ StateidAt("absent_temporary") /\ StateidNoFault(StateidGoto("create")) /\ StateidQuiet
stateid_require_absent ==
    \/ /\ StateidAt("absent") /\ StateidNoFault(IF at["canonical"] # 0 THEN End("NotPublished") ELSE StateidGoto("absent_temporary")) /\ StateidQuiet
    \/ /\ StateidAt("absent_temporary") /\ StateidNoFault(IF at["temporary"] # 0 THEN End("NotPublished") ELSE StateidGoto("create")) /\ StateidQuiet
create_temporary ==
    /\ StateidAt("create")
    /\ \/ /\ at["temporary"] = 0
          /\ at' = [at EXCEPT !["temporary"] = 1]
          /\ file' = [data |-> "empty", ver |-> 0, synced |-> FALSE]
          /\ durable' = FALSE
          /\ StateidNoFault(StateidGoto("prepare")) \/ StateidFail(End("Ambiguous"))
       \/ at["temporary"] # 0 /\ StateidNoFault(End("NotPublished")) /\ UNCHANGED <<at, file, durable>>
       \/ StateidFail(End("NotPublished")) /\ UNCHANGED <<at, file, durable>>
    /\ UNCHANGED <<changes, true>>
\* Write, sync, final mode, sync, and read back through the descriptor.
prepare ==
    /\ StateidAt("prepare")
    /\ \/ /\ StateidLinks = 1
          /\ file' = [data |-> "id", ver |-> file.ver + 1, synced |-> TRUE]
          /\ StateidNoFault([Look("before_rename") EXCEPT !.witness = file.ver + 1])
       \/ StateidLinks # 1 /\ StateidNoFault(Look("retire")) /\ UNCHANGED file
       \/ /\ \E d \in {"empty", "id"} : file' = [file EXCEPT !.data = d]
          /\ StateidFail(Look("retire"))
    /\ UNCHANGED <<at, durable, changes, true>>
require_exact_file ==
    /\ StateidAt("before_rename")
    /\ \/ StateidNoFault(IF op.c = 0 /\ op.t = 1 /\ file.ver = op.witness /\ file.data = "id" /\ StateidLinks = 1 THEN StateidGoto("rename") ELSE Look("retire"))
       \/ StateidFail(Look("retire"))
    /\ StateidQuiet
Moved == at' = [at EXCEPT !["canonical"] = at["temporary"], !["temporary"] = 0]
renameat2_noreplace_once ==
    /\ StateidAt("rename")
    /\ \/ at["temporary"] # 0 /\ at["canonical"] = 0 /\ Moved /\ durable' = FALSE /\ StateidNoFault(Look("renamed"))
       \/ (at["temporary"] = 0 \/ at["canonical"] # 0) /\ UNCHANGED <<at, durable>> /\ StateidNoFault(Look("renamed"))
       \/ UNCHANGED <<at, durable>> /\ StateidFail(Look("renamed"))
    /\ UNCHANGED <<file, changes, true>>
Renamed ==
    /\ StateidAt("renamed")
    /\ \/ StateidNoFault(CASE outcome(op.c, op.t) = "Published" -> StateidGoto("sync")
                    [] outcome(op.c, op.t) = "NotPublished" -> Look("retire")
                    [] OTHER -> End("Ambiguous"))
       \/ StateidFail(End("Ambiguous"))
    /\ StateidQuiet
sync_directory ==
    /\ StateidAt("sync")
    /\ \/ durable' = TRUE /\ StateidNoFault(StateidGoto("witness"))
       \/ UNCHANGED durable /\ StateidFail(Look("reconcile"))
    /\ UNCHANGED <<at, file, changes, true>>
\* The change counter is taken anew: the rename changed it.
state_id_witness ==
    /\ StateidAt("witness")
    /\ \/ StateidNoFault(IF StateidLinks = 1 THEN [op EXCEPT !.step = "reject", !.next = "again", !.witness = file.ver] ELSE Look("reconcile"))
       \/ StateidFail(Look("reconcile"))
    /\ StateidQuiet
reconcile_post_rename_failure ==
    /\ StateidAt("reconcile")
    /\ StateidNoFault(End(outcome(op.c, op.t))) \/ StateidFail(End("Ambiguous"))
    /\ StateidQuiet

-----------------------------------------------------------------------------
(* The retained file and its name, checked twice before it is handed out. *)
Broken == IF op.before = 0 THEN Look("reconcile") ELSE End("refused")
reject_temporary ==
    /\ StateidAt("reject")
    /\ true' = Holds(at, file)
    /\ StateidNoFault(IF at["temporary"] = 0 THEN StateidGoto("named") ELSE Broken)
    /\ StateidWorld
stateid_revalidate ==
    /\ StateidAt("named")
    /\ StateidNoFault(IF at["canonical"] = 1 /\ file.data = "id" /\ file.ver = op.witness /\ StateidLinks = 1
               THEN (IF op.next = "again" THEN [op EXCEPT !.step = "reject", !.next = "last"] ELSE End("retained"))
               ELSE Broken)
    /\ StateidQuiet
\* An ID that is there already: opened, read, and revalidated once.
stateid_retain ==
    \/ /\ StateidAt("retain")
       /\ StateidNoFault(IF at["temporary"] = 0 THEN StateidGoto("open") ELSE End("refused"))
       /\ StateidQuiet
    \/ /\ StateidAt("open")
       /\ StateidNoFault(IF at["canonical"] = 1 /\ file.data = "id" /\ StateidLinks = 1 THEN [op EXCEPT !.step = "reject", !.next = "last", !.before = 1, !.witness = file.ver]
                  ELSE End("refused"))
       /\ StateidQuiet

-----------------------------------------------------------------------------
(* The temporary is retired when it is known to be the process's file. *)
retire_temporary ==
    \/ /\ StateidAt("retire")
       /\ StateidNoFault(IF op.c = 1 \/ op.t # 1 THEN End("Ambiguous") ELSE [StateidGoto("unlink") EXCEPT !.before = op.c]) \/ StateidFail(End("Ambiguous"))
       /\ StateidQuiet
    \/ /\ StateidAt("unlink")
       /\ \/ at' = [at EXCEPT !["temporary"] = 0] /\ durable' = FALSE /\ StateidNoFault(Look("unlinked"))
          \/ UNCHANGED <<at, durable>> /\ StateidFail(Look("unlinked"))
       /\ UNCHANGED <<file, changes, true>>
    \/ /\ StateidAt("unlinked")
       /\ IF op.c = op.before /\ op.t = 0 /\ StateidLinks = 0
          THEN \/ durable' = TRUE /\ StateidNoFault(Look("retired"))
               \/ UNCHANGED durable /\ StateidFail(End("Ambiguous"))
          ELSE StateidNoFault(End("Ambiguous")) /\ UNCHANGED durable
       /\ UNCHANGED <<at, file, changes, true>>
    \/ /\ StateidAt("retired")
       /\ StateidNoFault(IF op.c = op.before /\ op.t = 0 THEN End("NotPublished") ELSE End("Ambiguous")) \/ StateidFail(End("Ambiguous"))
       /\ StateidQuiet

-----------------------------------------------------------------------------
StateidOutside ==
    /\ op.outcome = "" /\ changes < MaxStateidOutside /\ changes' = changes + 1
    /\ \/ /\ \E n \in StateidNames, i \in 0..2 :
                /\ i # at[n] /\ (i = 1 => file.data # "none")
                /\ at' = [at EXCEPT ![n] = i]
          /\ durable' = FALSE /\ UNCHANGED file
       \/ /\ StateidLinks > 0 /\ \E d \in {"id", "other"} : file' = [data |-> d, ver |-> file.ver + 1, synced |-> FALSE]
          /\ UNCHANGED <<at, durable>>
    /\ true' = true \cup Holds(at', file')
    /\ UNCHANGED <<op, faults>>

StateidInit ==
    /\ \/ /\ op = Start("absent")
          /\ at \in [StateidNames -> {0, 2}]
          /\ file = [data |-> "none", ver |-> 0, synced |-> FALSE]
       \/ /\ op = Start("retain")
          /\ at \in {[canonical |-> 1, temporary |-> 0], [canonical |-> 2, temporary |-> 0], [canonical |-> 1, temporary |-> 2]}
          /\ file \in {[data |-> d, ver |-> 0, synced |-> TRUE] : d \in {"id", "other"}}
    /\ durable = TRUE /\ changes = 0 /\ faults = 0 /\ true = Holds(at, file)
Publishing ==
    stateid_require_absent \/ create_temporary \/ prepare \/ require_exact_file \/ renameat2_noreplace_once \/ Renamed \/ sync_directory
    \/ state_id_witness \/ reconcile_post_rename_failure
StateidNext == inspect_namespace \/ Publishing \/ reject_temporary \/ stateid_revalidate \/ stateid_retain \/ retire_temporary \/ StateidOutside

-----------------------------------------------------------------------------
(* The names, the file and the operation have their types, and a finished *)
(* operation has an outcome.                                              *)
StateidTypeOK ==
    /\ at \in [StateidNames -> 0..2] /\ file.data \in {"none", "empty", "id", "other"}
    /\ op.outcome \in Outcomes \cup {"refused", ""} /\ (op.step = "done" <=> op.outcome # "")
    /\ op.step \in {"create", "prepare"} /\ changes = 0 => at["canonical"] = 0 /\ (op.step = "create" => at["temporary"] = 0)

(* A reported outcome held at some moment since the last look at the names      *)
(* began, whatever failed: Published means the inode is at the canonical name   *)
(* and no temporary is left, NotPublished that it is not there, and a retained  *)
(* ID is there with its content ("every error is reconciled").                  *)
OutcomeWasTrue == subject = "stateid" => (op.outcome \in Outcomes => op.outcome \in true)

(* With nobody else at work, NotPublished leaves no trace of the attempt, on    *)
(* disk either, and a retained ID is durable with its content.                  *)
OutcomeIsDurable == subject = "stateid" =>
    (changes = 0 =>
        /\ op.outcome = "NotPublished" => StateidLinks = 0 /\ durable
        /\ op.outcome = "retained" => at["canonical"] = 1 /\ durable /\ file.synced /\ file.data = "id")

(* A file that others put at the canonical name is never replaced or removed,   *)
(* even if they put it there after the name was found free.                     *)
CanonicalIsKept == [][subject = "stateid" => (changes' = changes => at'["canonical"] = at["canonical"] \/ at["canonical"] = 0)]_CandidateVars

-----------------------------------------------------------------------------
(* A behaviour exercises one part, chosen at the start; the variables of the
   other parts are not in use. *)
CandidateInit ==
    /\ subject \in Subjects
    /\ \/ subject = "marker" /\ MarkerInit
          /\ node = None /\ clock = None /\ op = None /\ walk = None /\ ghost = None /\ spent = None /\ lib = None /\ private = None
          /\ names = None /\ changes = None /\ together = None /\ at = None /\ durable = None /\ true = None
       \/ subject = "inventory" /\ InventoryInit
          /\ ns = None /\ file = None /\ synced = None /\ stale = None /\ task = None /\ promised = None /\ faults = None /\ lib = None
          /\ private = None /\ names = None /\ changes = None /\ together = None /\ at = None /\ durable = None /\ true = None
       \/ subject \in {"metadata", "metadatamoves"} /\ MetadataInit
          /\ ns = None /\ synced = None /\ stale = None /\ task = None /\ promised = None /\ faults = None /\ node = None /\ clock = None
          /\ walk = None /\ ghost = None /\ spent = None /\ at = None /\ durable = None /\ true = None
       \/ subject = "stateid" /\ StateidInit
          /\ ns = None /\ disk = None /\ synced = None /\ stale = None /\ task = None /\ promised = None /\ node = None /\ clock = None
          /\ walk = None /\ ghost = None /\ spent = None /\ lib = None /\ private = None /\ names = None /\ together = None

MarkerOnly == subject = "marker" /\ UNCHANGED <<subject, node, clock, op, walk, ghost, spent, lib, private, names,
                                                changes, together, at, durable, true>>
InventoryOnly == subject = "inventory" /\ UNCHANGED <<subject, ns, file, synced, stale, task, promised, faults,
                                                      lib, private, names, changes, together, at, durable, true>>
MetadataOnly == subject \in {"metadata", "metadatamoves"} /\ UNCHANGED <<subject, ns, synced, stale, task,
                                                                         promised, faults, node, clock, walk,
                                                                         ghost, spent, at, durable, true>>
StateidOnly == subject = "stateid" /\ UNCHANGED <<subject, ns, disk, synced, stale, task, promised, node, clock,
                                                  walk, ghost, spent, lib, private, names, together>>
CandidateNext ==
    \/ MarkerOnly /\ MarkerNext
    \/ InventoryOnly /\ InventoryNext
    \/ MetadataOnly /\ MetadataNext
    \/ StateidOnly /\ StateidNext

CandidateTypeOK ==
    /\ subject = "marker" => MarkerTypeOK
    /\ subject = "inventory" => InventoryTypeOK
    /\ subject \in {"metadata", "metadatamoves"} => MetadataTypeOK
    /\ subject = "stateid" => StateidTypeOK

-----------------------------------------------------------------------------
(* The instance that TLC checks. *)
MetadataMaxOutside == [metadata |-> 2, metadatamoves |-> 3]
MetadataRebindable == [metadata |-> {"release", "model", "alternate", "info", "lib"}, metadatamoves |-> {"release", "model", "lib"}]
MetadataWritable == [metadata |-> {1, 2, 4}, metadatamoves |-> {}]
MetadataStarts == [metadata |-> {"absent", "plain", "decorated"}, metadatamoves |-> {"plain", "decorated"}]
=============================================================================
