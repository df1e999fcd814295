----------------------------- MODULE Inspection -----------------------------
(***************************************************************************)
(* What is read of the host before anything is decided: the files of the    *)
(* host's boot policy, the names of /usr and of the root links in one       *)
(* moment, and the boot volume in whole observations made of raw directory  *)
(* listings.                                                                *)
(***************************************************************************)
EXTENDS Parts, Integers, Sequences, FiniteSets, SequencesExt, FiniteSetsExt

CONSTANTS
    InspectMaxOutside,   \* bounds the changes by others
    InspectMaxEntries,   \* max_directory_entries
    Worlds,              \* the namespaces the program may find: records of the shape of ns
    Records,             \* the journal records: [operation, candidate, previous, rearchive, intent]
    Flows,               \* "evidence" or "abi"
    MaxCaptureOutside, InspectMaxFaults,
    RequestLists,        \* the lists of requested paths, each a sequence of names
    Volumes,             \* the volumes an assessment may meet: [names, data]
    Puts,                \* <<directory, name, target>>: the changes of names others make
    FoldLookup,          \* the volume finds names whatever their case, as VFAT does
    Limits,              \* [descriptors, slots]: max_descriptors of the classifier's limits
                         \* and max_descriptor_slots of the observer's
    InspectMaxMoves,     \* changes others make during an assessment
    MaxNamespaceFaults,  \* observations that fail
    Listings,            \* the directories: sequences of records, each with its length, the
                         \* length of its name, and whether it is "." or "..", an entry, or
                         \* something a directory must not hold
    LedgerLimits,        \* the limits an assessment may be given: functions of Fields
    MaxRecord,           \* RAW_DIRECTORY_MAXIMUM_RECORD_BYTES
    Buffer,              \* RAW_DIRECTORY_READ_BUFFER_BYTES
    HardMax,             \* the HARD_MAX_* ceilings, for every field
    MaxPasses  \* directories read in one assessment

VARIABLES
    inspect_node,  \* inode -> [kids, bytes, safe, ver]
    held,        \* what the path held at each instant from the first pass until the second
    outside,     \* changes by others so far
    inspect_ns,  \* the namespace, see World below
    inspect_disk,  \* the root links on disk
    record,
    inspect_faults,
    seen,        \* the views of the namespace since the last closing look began
    inspect_names,  \* the entries of every directory
    data,        \* the content of every regular file
    changed,     \* the change time of every node
    source,      \* the metadata of the sealed source of the wanted content
    moves,
    limits,      \* LiveLedger::limits
    usage,       \* LiveLedger::usage
    passes  \* how many have ended

InspectVars == <<subject, inspect_node, op, held, outside, inspect_ns, inspect_disk, record, inspect_faults, seen, inspect_names, data, changed, source,
                 moves, limits, usage, passes>>

-----------------------------------------------------------------------------
(***************************************************************************)
(* The boot plan rests on three things an administrator writes on the       *)
(* machine: the declared root file system and the declared boot topology,   *)
(* each one file under etc/cast, and the command line snippets of           *)
(* etc/kernel/cmdline.d.  Each is captured through a chain of retained      *)
(* directories, evaluated, and then read again in two complete passes;      *)
(* others may rename, rewrite and remove what is read between any two       *)
(* system calls.                                                            *)
(*                                                                         *)
(* An inode has a witness, ver, which every change to the inode or to a     *)
(* name that binds it moves on (the change time).  A descriptor is an       *)
(* inode: it stays usable after its name is bound to something else.        *)
(* The calls of one preparation are a sequence of stages, op.pc the next.   *)
(***************************************************************************)

Kinds == {"root-filesystem", "boot-topology", "cmdline"}
Chain(kind1) == IF kind1 = "cmdline" THEN <<"etc", "kernel", "cmdline.d">> ELSE <<"etc", "cast">>
(* The declaration may be written in either language; only *.cmdline names  *)
(* of cmdline.d are read.                                                   *)
Leafs(kind1) == IF kind1 = "cmdline" THEN <<"10.cmdline", "20.cmdline", "README">> ELSE <<"glu", "lua">>
Slots(kind1) == SelectSeq(Leafs(kind1), LAMBDA n : n # "README")
InspectNames == {"/", "etc", "cast", "kernel", "cmdline.d", "glu", "lua", "10.cmdline", "20.cmdline", "README"}
InspectDirs == {"top", "root", "etc", "kernel", "last", "last2"}
InspectFiles == {"f1", "f2"}
InspectInodes == InspectDirs \union InspectFiles
InspectContents == {<<"p1">>, <<"p1", "p2">>, <<"p1", "p1">>, <<"root=", "p1">>, <<"#", "p1">>}
Sources(kind1) ==
    {<<"p1">>} \union CASE kind1 = "root-filesystem" -> {<<"root=", "p1">>}
                        [] kind1 = "boot-topology" -> {<<"p1", "p1">>}
                        [] kind1 = "cmdline" -> {<<"#", "p1">>}
Torn == <<"torn">>

Unread == [ino |-> None, ver |-> 0, bytes |-> Torn]
NoFiles == [n \in InspectNames |-> Unread]
InspectOutcomes == {"none", "accepted", "changed", "missing", "unsafe", "collision", "invalid", "limit", "deadline"}

PolicyTypeOK ==
    /\ \A i \in InspectInodes : inspect_node[i].ver \in 0..InspectMaxOutside /\ inspect_node[i].safe \in BOOLEAN
    /\ \A s \in {"r", "a"} : Cardinality(op.inv[s]) <= InspectMaxEntries /\ op.inv[s] \subseteq InspectNames
    /\ \A s \in {"r", "a"} : \A n \in InspectNames : op.file[s][n].bytes \in InspectContents \union {Torn}
    /\ op.outcome \in InspectOutcomes
    /\ outside \in 0..InspectMaxOutside

-----------------------------------------------------------------------------
(* What a declaration or a snippet means; None when it is refused.  The     *)
(* root locator must not carry the prefix that the code adds.               *)
materialize_root_argument(bytes) == IF bytes[1] = "root=" THEN None ELSE <<"root=">> \o bytes
(* A distinct XBOOTLDR partition must not be the ESP.                       *)
assemble_boot_topology(bytes) == IF Len(bytes) = 2 /\ bytes[1] = bytes[2] THEN None ELSE bytes
(* Comment lines are dropped, the rest is joined. *)
normalize_cmdline(bytes) == SelectSeq(bytes, LAMBDA line : line # "#")
Value(kind1, bytes) ==
    CASE kind1 = "root-filesystem" -> materialize_root_argument(bytes)
      [] kind1 = "boot-topology" -> assemble_boot_topology(bytes)
      [] kind1 = "cmdline" -> normalize_cmdline(bytes)

-----------------------------------------------------------------------------
(* The calls of a preparation, in order.  Side "r" is what is retained,     *)
(* side "a" is what a later capture finds.                                  *)
ReadFile(s, n) == <<<<"open_file", s, n>>, <<"read", s, n>>, <<"read_end", s, n>>, <<"named", s, n>>>>
capture_source(s) == <<<<"begin", s>>, <<"open_directory", s>>, <<"chain", s>>, <<"discover", s>>>>
revalidate_source(n) ==
    <<<<"chain", "r">>, <<"witness", "r", n>>, <<"reread", "r", n>>, <<"reread_end", "r", n>>, <<"named", "r", n>>>>
    \o capture_source("a") \o ReadFile("a", n) \o <<<<"chain", "a">>>>
    \o <<<<"same_chain">>, <<"same_file", "r", n>>, <<"witness", "r", n>>>>
RootFilesystemPass(n) ==
    <<<<"root">>>> \o revalidate_source(n) \o <<<<"evaluate", "a", n>>>> \o revalidate_source(n) \o <<<<"root">>>>
RootFilesystemRest(n) ==
    ReadFile("r", n) \o <<<<"chain", "r">>>> \o <<<<"evaluate", "r", n>>>> \o RootFilesystemPass(n) \o RootFilesystemPass(n)

(* The topology declaration is retained by a second copy of the same code. *)
BootTopologyCapture(s) == capture_source(s)
BootTopologyRevalidate(n) == revalidate_source(n)
BootTopologyPass(n) ==
    <<<<"root">>>> \o BootTopologyRevalidate(n) \o <<<<"evaluate", "a", n>>>> \o BootTopologyRevalidate(n) \o <<<<"root">>>>
BootTopologyRest(n) ==
    ReadFile("r", n) \o <<<<"chain", "r">>>> \o <<<<"evaluate", "r", n>>>> \o BootTopologyPass(n) \o BootTopologyPass(n)

capture_location(s) == <<<<"begin", s>>, <<"open_directory", s>>, <<"missing_child", s>>, <<"chain", s>>>>
revalidate_location == capture_location("a") \o <<<<"same_chain">>>>
capture_entry(n) == ReadFile("r", n) \o <<<<"evaluate", "r", n>>>>
revalidate_entry_inspect(n) ==
    <<<<"witness", "r", n>>, <<"named", "r", n>>, <<"reread", "r", n>>, <<"reread_end", "r", n>>, <<"same_bytes", "r", n>>, <<"named", "r", n>>>>
Each(names1, stages(_)) == FlattenSeq([k \in 1..Len(names1) |-> stages(names1[k])])
LocalPolicyPass(names1, absent) ==
    <<<<"root">>>> \o revalidate_location
    \o (IF absent THEN << >>
        ELSE <<<<"inventory", "a", "a">>>> \o Each(names1, revalidate_entry_inspect) \o <<<<"inventory", "a", "a">>, <<"present", "a">>>>)
    \o revalidate_location \o <<<<"root">>>>
LocalPolicyRest(names1, absent) ==
    (IF absent THEN << >> ELSE Each(names1, capture_entry) \o <<<<"inventory", "a", "r">>>>)
    \o LocalPolicyPass(names1, absent) \o LocalPolicyPass(names1, absent)

Prepare(kind1) ==
    <<<<"root">>>> \o (CASE kind1 = "cmdline" -> capture_location("r") \o <<<<"inventory", "r", "r">>>>
                         [] kind1 = "boot-topology" -> BootTopologyCapture("r")
                         [] OTHER -> capture_source("r"))
InspectRest(kind1, names1, absent) ==
    CASE kind1 = "cmdline" -> LocalPolicyRest(names1, absent)
      [] kind1 = "boot-topology" -> BootTopologyRest(names1[1])
      [] OTHER -> RootFilesystemRest(names1[1])
(* What is called after the names of the last directory are known depends   *)
(* on them.                                                                 *)
InspectStart(kind1) == <<kind1, "start", {}, FALSE>>
Known(kind1, names1, absent) == <<kind1, "known", names1, absent>>
Programs ==
    [k \in {InspectStart(kind1) : kind1 \in Kinds}
           \union {Known("cmdline", names1, absent) : names1 \in SUBSET Range(Slots("cmdline")), absent \in BOOLEAN}
           \union {Known(kind1, {n}, FALSE) : kind1 \in Kinds \ {"cmdline"}, n \in {"glu", "lua"}} |->
        Prepare(k[1]) \o (IF k[2] = "start" THEN << >> ELSE InspectRest(k[1], SelectSeq(Slots(k[1]), LAMBDA n : n \in k[3]), k[4]))]

-----------------------------------------------------------------------------
(* Each chain is there and holds one declaration or up to two snippets; the *)
(* other inodes are where others may take them from.                        *)
Kids(f) == [n \in InspectNames |-> IF n \in DOMAIN f THEN f[n] ELSE None]
InspectTree(kind1, leafs) ==
    [i \in InspectInodes |->
        CASE i = "top" -> Kids([n \in {"/"} |-> "root"])
          [] i = "root" -> Kids([n \in {"etc"} |-> "etc"])
          [] i = "etc" -> Kids(IF kind1 = "cmdline" THEN [n \in {"kernel"} |-> "kernel"] ELSE [n \in {"cast"} |-> "last"])
          [] i = "kernel" -> Kids([n \in {"cmdline.d"} |-> "last"])
          [] i = "last" -> Kids(leafs)
          [] i = "last2" -> Kids([n \in {Leafs(kind1)[1]} |-> "f2"])
          [] OTHER -> Kids([n \in {} |-> None])]

InspectFresh(kind1) ==
    [kind |-> kind1, program |-> InspectStart(kind1), pc |-> 1, roots |-> 0, outcome |-> "none",
     comp |-> [s \in {"r", "a"} |-> << >>], missing |-> [s \in {"r", "a"} |-> FALSE],
     inv |-> [s \in {"r", "a"} |-> {}], file |-> [s \in {"r", "a"} |-> NoFiles], got |-> Torn]

PolicyInit ==
    /\ \E kind1 \in Kinds : \E present \in {{Leafs(kind1)[m] : m \in 1..k} : k \in 0..Len(Leafs(kind1))} :
       \E bytes \in Sources(kind1) :
          /\ inspect_node = [i \in InspectInodes |->
                               [kids |-> InspectTree(kind1, [n \in present |-> IF n = Leafs(kind1)[1] THEN "f1" ELSE "f2"])[i],
                                bytes |-> IF i = "f1" THEN bytes ELSE <<"p1">>,
                                safe |-> i \notin {"top", "root"},   \* the policy for the components is not one for the root
                                ver |-> 0]]
          /\ op = InspectFresh(kind1)
    /\ held = {} /\ outside = 0

Stage == Programs[op.program][op.pc]
InspectAt(name) == op.outcome = "none" /\ op.pc <= Len(Programs[op.program]) /\ Stage[1] = name
Side == Stage[2]
Leaf == Stage[3]
Pop(o) == [o EXCEPT !.pc = @ + 1]
(* An error drops everything that was retained. *)
InspectRefuse(why) == op' = [InspectFresh(op.kind) EXCEPT !.outcome = why]
InspectRequire(good, why) == IF good THEN op' = Pop(op) ELSE InspectRefuse(why)

(* What the path holds in the tree t. *)
DirAt(t, kind1) ==
    LET Down(i, n) == LET d == i IN IF d = None THEN None ELSE t[d].kids[n]
    IN FoldLeft(Down, "top", <<"/">> \o Chain(kind1))
BoundIn(t, d) == IF d = None THEN {} ELSE {n \in InspectNames : t[d].kids[n] # None}
InspectBound(d) == BoundIn(inspect_node, d)
View(t) ==
    LET d == DirAt(t, op.kind)
        names1 == BoundIn(t, d)
    IN [at |-> d, names |-> names1,
        bytes |-> [n \in Range(Slots(op.kind)) |-> IF n \in names1 THEN t[t[d].kids[n]].bytes ELSE Torn]]
Watch ==
    held' = CASE op'.roots \in {2, 3} -> held \union {View(inspect_node')}
              [] op'.roots \notin {2, 3} /\ op'.outcome \in {"none", "accepted"} -> held
              [] OTHER -> {}

-----------------------------------------------------------------------------
(* The installation's path still names the root it retains. *)
revalidate_installation_root ==
    /\ InspectAt("root")
    /\ IF inspect_node["top"].kids["/"] = "root" THEN op' = [Pop(op) EXCEPT !.roots = @ + 1] ELSE InspectRefuse("changed")

InspectWitness(i) == [ino |-> i, ver |-> inspect_node[i].ver]
InspectBegin ==
    /\ InspectAt("begin")
    /\ op' = [Pop(op) EXCEPT !.comp[Side] = <<InspectWitness("root")>>, !.missing[Side] = FALSE]

require_directory_policy(i) == inspect_node[i].safe
(* One component below the last; the stage repeats until the chain ends.    *)
open_directory_inspect ==
    /\ InspectAt("open_directory")
    /\ LET opened == op.comp[Side]
           child == inspect_node[opened[Len(opened)].ino].kids[Chain(op.kind)[Len(opened)]]
           longer == [op EXCEPT !.comp[Side] = Append(@, InspectWitness(child))]
       IN CASE child = None -> IF op.kind = "cmdline" THEN op' = [Pop(op) EXCEPT !.missing[Side] = TRUE] ELSE InspectRefuse("missing")
            [] child # None /\ ~require_directory_policy(child) -> InspectRefuse("unsafe")
            [] OTHER -> op' = IF Len(opened) = Len(Chain(op.kind)) THEN Pop(longer) ELSE longer

(* An absent component must still be absent. *)
require_missing_child ==
    /\ InspectAt("missing_child")
    /\ LET opened == op.comp[Side]
       IN InspectRequire(op.missing[Side] => inspect_node[opened[Len(opened)].ino].kids[Chain(op.kind)[Len(opened)]] = None, "changed")

require_component_chain ==
    /\ InspectAt("chain")
    /\ LET c == op.comp[Side]
       IN CASE \E k \in 2..Len(c) : ~require_directory_policy(c[k].ino) -> InspectRefuse("unsafe")
            [] \E k \in DOMAIN c : InspectWitness(c[k].ino) # c[k] -> InspectRefuse("changed")
            [] OTHER -> op' = Pop(op)

require_same_component_chains ==
    /\ InspectAt("same_chain")
    /\ InspectRequire(/\ op.comp.r = op.comp.a /\ op.missing.r = op.missing.a
                      /\ \A k \in DOMAIN op.comp.r : InspectWitness(op.comp.r[k].ino) = op.comp.r[k], "changed")
require_present_directory_witness ==
    /\ InspectAt("present")
    /\ InspectRequire(InspectWitness(Last(op.comp.a).ino) = Last(op.comp.r), "changed")

(* The names of the last directory, sorted; the rest of a preparation       *)
(* depends on them.                                                         *)
Continue(s, names1) ==
    op' = IF s = "r"
          THEN [Pop(op) EXCEPT !.inv["r"] = names1, !.program = Known(op.kind, names1 \intersect Range(Slots(op.kind)), op.missing.r)]
          ELSE [Pop(op) EXCEPT !.inv["a"] = names1]
inventory_names ==
    /\ InspectAt("inventory")
    /\ LET names1 == IF op.missing[Leaf] THEN {} ELSE InspectBound(Last(op.comp[Leaf]).ino)
       IN CASE Cardinality(names1) > InspectMaxEntries -> InspectRefuse("limit")
            [] Cardinality(names1) <= InspectMaxEntries /\ Side = "a" /\ names1 # op.inv["r"] -> InspectRefuse("changed")
            [] OTHER -> Continue(Side, names1)
discover_source ==
    /\ InspectAt("discover")
    /\ LET names1 == InspectBound(Last(op.comp[Side]).ino)
       IN CASE names1 = {} -> InspectRefuse("missing")
            [] Cardinality(names1) > 1 -> InspectRefuse("collision")
            [] Cardinality(names1) = 1 /\ Side = "a" /\ names1 # op.inv["r"] -> InspectRefuse("changed")
            [] OTHER -> Continue(Side, names1)

-----------------------------------------------------------------------------
LastDir(s) == Last(op.comp[s]).ino
require_source_policy(i) == inspect_node[i].safe
open_source ==
    /\ InspectAt("open_file")
    /\ LET i == inspect_node[LastDir(Side)].kids[Leaf]
       IN CASE i = None -> InspectRefuse("missing")
            [] i # None /\ ~require_source_policy(i) -> InspectRefuse("unsafe")
            [] OTHER -> op' = [Pop(op) EXCEPT !.file[Side][Leaf] = [ino |-> i, ver |-> inspect_node[i].ver, bytes |-> Torn]]

SameWitness(s, n) == inspect_node[op.file[s][n].ino].ver = op.file[s][n].ver
(* The bytes arrive in several reads, between the two looks at the witness. *)
read_source_bytes ==
    /\ InspectAt("read")
    /\ IF SameWitness(Side, Leaf)
       THEN op' = [Pop(op) EXCEPT !.file[Side][Leaf].bytes = inspect_node[op.file[Side][Leaf].ino].bytes]
       ELSE InspectRefuse("changed")
Joined(first, i) == IF inspect_node[i].bytes = first THEN first ELSE Torn
ReadEnd ==
    /\ InspectAt("read_end")
    /\ IF SameWitness(Side, Leaf)
       THEN op' = [Pop(op) EXCEPT !.file[Side][Leaf].bytes = Joined(@, op.file[Side][Leaf].ino)]
       ELSE InspectRefuse("changed")
require_named_source ==
    /\ InspectAt("named")
    /\ LET i == inspect_node[LastDir(Side)].kids[Leaf]
       IN InspectRequire(/\ i = op.file[Side][Leaf].ino /\ SameWitness(Side, Leaf)
                         /\ op.kind # "cmdline" => InspectBound(LastDir(Side)) = {Leaf}, "changed")
require_source_witness ==
    /\ InspectAt("witness")
    /\ CASE ~require_source_policy(op.file.r[Leaf].ino) -> InspectRefuse("unsafe")
         [] OTHER -> InspectRequire(SameWitness("r", Leaf), "changed")
Reread ==
    /\ InspectAt("reread")
    /\ IF SameWitness("r", Leaf) THEN op' = [Pop(op) EXCEPT !.got = inspect_node[op.file.r[Leaf].ino].bytes] ELSE InspectRefuse("changed")
RereadEnd ==
    /\ InspectAt("reread_end")
    /\ IF SameWitness("r", Leaf) THEN op' = [Pop(op) EXCEPT !.got = Joined(@, op.file.r[Leaf].ino)] ELSE InspectRefuse("changed")
require_same_source ==
    /\ InspectAt("same_file")
    /\ InspectRequire(/\ op.file.a[Leaf] = op.file.r[Leaf] /\ op.got = op.file.a[Leaf].bytes
                      /\ SameWitness("r", Leaf) /\ SameWitness("a", Leaf), "changed")
SameBytes ==
    /\ InspectAt("same_bytes")
    /\ InspectRequire(op.got = op.file.r[Leaf].bytes, "changed")
evaluate_declaration ==
    /\ InspectAt("evaluate")
    /\ InspectRequire(Value(op.kind, op.file[Side][Leaf].bytes) # None, "invalid")

(* The final deadline check passed. *)
Accept ==
    /\ op.outcome = "none" /\ op.pc > Len(Programs[op.program])
    /\ op' = [op EXCEPT !.outcome = "accepted"]
require_deadline ==
    /\ op.outcome = "none"
    /\ InspectRefuse("deadline")

Stages ==
    \/ revalidate_installation_root \/ InspectBegin \/ open_directory_inspect \/ require_missing_child \/ require_component_chain
    \/ require_same_component_chains \/ require_present_directory_witness \/ inventory_names \/ discover_source
    \/ open_source \/ read_source_bytes \/ ReadEnd \/ require_named_source \/ require_source_witness
    \/ Reread \/ RereadEnd \/ require_same_source \/ SameBytes \/ evaluate_declaration \/ Accept \/ require_deadline

-----------------------------------------------------------------------------
(* Others.  Every change moves on the witness of the inodes it touches.     *)
InspectTouch(n, who) == [i \in InspectInodes |-> [n[i] EXCEPT !.ver = IF i \in who THEN outside + 1 ELSE @]]
Other == op.outcome = "none" /\ outside < InspectMaxOutside /\ outside' = outside + 1 /\ UNCHANGED op
InspectPlaces(kind1) ==
    {<<"top", "/", {"root"}>>, <<"root", "etc", {"etc"}>>}
    \union {<<Chain(kind1)[Len(Chain(kind1)) - 1], Last(Chain(kind1)), {"last", "last2"}>>}
    \union {<<"last", n, {"f2"}>> : n \in Range(Leafs(kind1))}
Rename ==
    \E place \in InspectPlaces(op.kind) : \E i \in place[3] \union {None} :
        /\ Other
        /\ inspect_node[place[1]].kids[place[2]] # i
        /\ inspect_node' = InspectTouch([inspect_node EXCEPT ![place[1]].kids[place[2]] = i], {place[1], inspect_node[place[1]].kids[place[2]], i})
(* What nobody reaches by a name or a descriptor is not worth changing.     *)
Reached == {op.file[s][n].ino : s \in {"r", "a"}, n \in InspectNames} \union {inspect_node[d].kids[n] : d \in {"last", "last2"}, n \in InspectNames}
InspectRewrite ==
    \E i \in InspectFiles : \E b \in {<<"p1">>, <<"p1", "p2">>} :
        /\ Other
        /\ inspect_node[i].bytes # b /\ i \in Reached
        /\ inspect_node' = InspectTouch([inspect_node EXCEPT ![i].bytes = b], {i})
InspectChmod ==
    \E i \in {"etc", "last", "f1"} :
        /\ Other
        /\ inspect_node' = InspectTouch([inspect_node EXCEPT ![i].safe = ~@], {i})

PolicyNext ==
    \/ (Stages /\ UNCHANGED <<inspect_node, outside>> /\ Watch)
    \/ ((Rename \/ InspectRewrite \/ InspectChmod) /\ Watch)

-----------------------------------------------------------------------------
Captured ==
    [at |-> IF op.missing.r THEN None ELSE Last(op.comp.r).ino,
     names |-> op.inv.r,
     bytes |-> [n \in Range(Slots(op.kind)) |-> op.file.r[n].bytes]]

(* A preparation accepts only what did not move: from the moment its first  *)
(* pass began until its second pass began, the path held the directory, the *)
(* names and the bytes that were captured, at every instant - also when     *)
(* what others did in between was undone before it was looked at again.     *)
AcceptedIsStable == subject = "policy" => (op.outcome = "accepted" => held = {Captured})

(* While nobody else changes anything, the answer is that of the plain      *)
(* definition: an intent is accepted when its path is safe and holds        *)
(* exactly one valid declaration, the snippets when the directory is absent *)
(* or safe, not too large, and every snippet in it is.                      *)
Acceptable ==
    LET d == DirAt(inspect_node, op.kind)
        names1 == InspectBound(d)
        read == names1 \intersect Range(Slots(op.kind))
        good == \A n \in read : inspect_node[inspect_node[d].kids[n]].safe /\ Value(op.kind, inspect_node[inspect_node[d].kids[n]].bytes) # None
    IN IF op.kind = "cmdline" THEN d = None \/ (good /\ Cardinality(names1) <= InspectMaxEntries)
       ELSE d # None /\ Cardinality(names1) = 1 /\ good
QuietIsExact == subject = "policy" =>
    ((op.outcome \notin {"none", "deadline"} /\ outside = 0) => (op.outcome = "accepted") = Acceptable)

-----------------------------------------------------------------------------
(***************************************************************************)
(* At startup the recovery of an interrupted transition reads the whole     *)
(* activation namespace: the live /usr, the wrappers beneath .cast/root and *)
(* .cast/quarantine with the trees and slot links in them, and the merged   *)
(* root links.  A capture walks them one after the other, binds every slot  *)
(* link to the tree whose marker it shares, and closes with a second look   *)
(* at everything it retains.  Two uses are modelled: the evidence sandwich  *)
(* of startup reconciliation, and the completion of the root links after    *)
(* the exchange of /usr, which compares captures around its own writes.     *)
(*                                                                         *)
(* A change counter stands for the change time and the other metadata of an *)
(* inode.  Another process may rename, link and write between any steps.    *)
(***************************************************************************)

InspectLinks == {"bin", "lib"}      \* of the five merged links
InspectTrees == {1, 2, 3}
RootNames == {"staging", "isolation", "state1", "state2", "candidate_parking", "reblit_parking", "previous_parking", "unknown"}
Wrappers == RootNames \cup {"transition", "ambient"}

-----------------------------------------------------------------------------
(* What a look at one part of the namespace shows. *)
Holding(n, t) == {w \in Wrappers : n.wrap[w] # None /\ n.wrap[w].slot # None /\ n.wrap[w].slot.of = t}
UsrFingerprint(n, t) ==
    IF t = None THEN None
    ELSE [id |-> t, token |-> n.tree[t].token, ver |-> n.tree[t].ver, state_id |-> n.tree[t].state_id,
          links |-> 1 + Cardinality(Holding(n, t)) + n.tree[t].extra]
WrapperFingerprint(n, w) ==
    IF n.wrap[w] = None THEN None
    ELSE [id |-> n.wrap[w].id, ver |-> n.wrap[w].ver, usr |-> UsrFingerprint(n, n.wrap[w].usr), slot |-> n.wrap[w].slot, residue |-> n.wrap[w].residue]
Parts == <<"root", "live", "staging", "roots", "quarantine">>
Inside(p) == CASE p = "staging" -> {"staging"} [] p = "roots" -> RootNames \ {"staging"} [] OTHER -> {"transition", "ambient"}
CaptureView(n, p) ==
    IF p = "root" THEN [root |-> n.root, roots |-> n.roots, quarantine |-> n.quarantine, abi |-> n.abi, next |-> n.next]
    ELSE IF p = "live" THEN [usr |-> UsrFingerprint(n, n.live)]
    ELSE [w \in Inside(p) |-> WrapperFingerprint(n, w)]
Everything(n) == [p \in {"root", "live", "staging", "roots", "quarantine"} |-> CaptureView(n, p)]
Blank == [p \in {"root", "live", "staging", "roots", "quarantine"} |-> None]

WrapperIn(s, w) == IF w = "staging" THEN s.staging[w] ELSE IF w \in RootNames THEN s.roots[w] ELSE s.quarantine[w]
Present(s) == {w \in Wrappers : WrapperIn(s, w) # None}
CaptureSlots(s) == {w \in Present(s) : WrapperIn(s, w).slot # None}
CapturePlaces(s) == {"live"} \cup {w \in Present(s) : WrapperIn(s, w).usr # None}
InspectTreeAt(s, p) == IF p = "live" THEN s.live.usr ELSE WrapperIn(s, p).usr

-----------------------------------------------------------------------------
(* The inspections; each is TRUE when the part is admitted. *)
inspect_root_abi(v) == ~v.next /\ \A l \in InspectLinks : v.abi[l].kind # "bad"
inspect_usr(v) == v.usr # None
StateOf(w) == IF w \in {"state1", "candidate_parking", "reblit_parking"} THEN 1 ELSE IF w \in {"state2", "previous_parking"} THEN 2 ELSE 0
IsParking(w) == w \in {"candidate_parking", "reblit_parking", "previous_parking"}
marker_only_rearchived_candidate(w, f) ==
    record.operation = "activate" /\ record.candidate = StateOf(w) /\ f.usr.token = "c" /\ record.rearchive
validate_wrapper_shape(w, f) ==
    /\ IsParking(w) => f.usr = None
    /\ f.slot # None => StateOf(w) = f.slot.state /\ StateOf(w) # 0 /\ (f.usr # None => f.usr.token = f.slot.token)
    /\ w \in {"state1", "state2"} /\ f.usr # None => f.usr.state_id = StateOf(w) \/ marker_only_rearchived_candidate(w, f)
classify_root_name(w) == w # "unknown"
inspect_wrapper(w, f) == classify_root_name(w) /\ (f.residue => w = "transition" /\ record.operation = "new" /\ record.intent) /\ (f.residue \/ validate_wrapper_shape(w, f))
inspect_roots(v) == \A w \in DOMAIN v : v[w] # None => inspect_wrapper(w, v[w])
Admitted(p, v) ==
    IF p = "root" THEN inspect_root_abi(v)
    ELSE IF p = "live" THEN inspect_usr(v)
    ELSE inspect_roots(v) /\ (p = "staging" => v["staging"] # None) /\ (p = "roots" => v["isolation"] # None)

Role(token, p) == IF token = "c" THEN "candidate" ELSE IF token = "p" THEN "previous" ELSE IF p \in {"state1", "state2"} THEN "ambient" ELSE "foreign"
ExpectedState(role, p) ==
    IF role = "candidate" THEN record.candidate ELSE IF role = "previous" THEN record.previous ELSE IF role = "ambient" THEN StateOf(p) ELSE 0
role_owns_transition_slot(role, w, p, state) ==
    CASE role = "candidate" -> (w \in {"state1", "state2"} /\ StateOf(w) = state) \/ (record.operation = "activate" /\ w = "candidate_parking" /\ state = 1)
      [] role = "previous" -> (w \in {"state1", "state2"} /\ StateOf(w) = state) \/ (record.operation # "reblit" /\ w = "previous_parking" /\ state = 2)
                              \/ (w = "reblit_parking" /\ state = 1)
      [] role = "ambient" -> w = p /\ StateOf(w) = state
      [] OTHER -> FALSE
Authorized(s, p) ==
    LET t == InspectTreeAt(s, p)  matches == {w \in CaptureSlots(s) : WrapperIn(s, w).slot.token = t.token}  role == Role(t.token, p) IN
    IF t.links = 1 THEN matches = {}
    ELSE /\ Cardinality(matches) = 1 /\ t.links = 2
         /\ \A w \in matches : LET slot == WrapperIn(s, w).slot IN
                slot.state = ExpectedState(role, p) /\ role_owns_transition_slot(role, w, p, slot.state) /\ slot.of = t.id
authenticate_slot_links(s) ==
    /\ \A p \in CapturePlaces(s) : Authorized(s, p)
    /\ \A w \in CaptureSlots(s) : \E p \in CapturePlaces(s) : InspectTreeAt(s, p).token = WrapperIn(s, w).slot.token
reject_duplicate_tree_tokens(s) == \A p, q \in CapturePlaces(s) : p # q => InspectTreeAt(s, p).token # InspectTreeAt(s, q).token

-----------------------------------------------------------------------------
(* Programs.  op.snap[i] are retained captures; a step is <<act, capture, part>>. *)
EachPart(act, i) == [k \in 1..Len(Parts) |-> <<act, i, Parts[k]>>]
One(act, i) == <<<<act, i, "all">>>>
capture_snapshot(i) == EachPart("inspect", i) \o One("authenticate", i) \o EachPart("revalidate", i)
revalidate_retained(i) == EachPart("revalidate", i)
ActivationNamespaceInspection == capture_snapshot(1) \o capture_snapshot(2) \o revalidate_retained(1) \o revalidate_retained(2) \o One("stable", 2)
\* begin and finish of the root-link inspection
UsrExchangedInspection ==
    capture_snapshot(1) \o One("post", 1) \o revalidate_retained(1)
    \o capture_snapshot(2) \o revalidate_retained(1) \o revalidate_retained(2) \o One("same", 2) \o One("post", 2) \o One("admit", 2)
capture_revalidate_source ==
    revalidate_retained(1) \o revalidate_retained(2) \o One("same", 2) \o One("post", 2)
    \o capture_snapshot(3) \o revalidate_retained(3) \o One("same", 3) \o One("post", 3)
normalize == capture_revalidate_source \o capture_revalidate_source \o One("create", 0) \o One("synced", 0)
             \o capture_snapshot(4) \o revalidate_retained(4) \o One("post", 4) \o One("grown", 4) \o One("applied", 4)
synchronize_complete ==
    capture_revalidate_source \o capture_revalidate_source \o One("sync", 0) \o capture_snapshot(4) \o revalidate_retained(4) \o One("post", 4) \o One("same", 4) \o One("durable", 4)

CaptureStart(flow) == [flow |-> flow, todo |-> IF flow = "evidence" THEN ActivationNamespaceInspection ELSE UsrExchangedInspection,
                snap |-> [i \in 1..4 |-> Blank], failed |-> FALSE, outcome |-> "none"]
Ended(o, outcome) == [o EXCEPT !.todo = <<>>, !.outcome = outcome, !.failed = FALSE]
InspectAdvance(o) == [o EXCEPT !.todo = Tail(@)]
CaptureRefuse(o) == [o EXCEPT !.todo = <<>>, !.snap = [i \in 1..4 |-> Blank], !.failed = FALSE, !.outcome = IF o.flow = "evidence" /\ Len(o.todo) <= 11 THEN "changed" ELSE "refused"]
Act(act) == op.todo # <<>> /\ op.todo[1][1] = act
I == op.todo[1][2]
Part == op.todo[1][3]
InspectNoFault == UNCHANGED inspect_faults
InspectKept == UNCHANGED <<inspect_ns, inspect_disk>>

inspect ==
    /\ Act("inspect")
    /\ op' = IF Admitted(Part, CaptureView(inspect_ns, Part)) THEN InspectAdvance([op EXCEPT !.snap[I][Part] = CaptureView(inspect_ns, Part)]) ELSE CaptureRefuse(op)
    /\ InspectKept /\ InspectNoFault /\ UNCHANGED seen
authenticate ==
    /\ Act("authenticate")
    /\ op' = IF authenticate_slot_links(op.snap[I]) /\ reject_duplicate_tree_tokens(op.snap[I]) THEN InspectAdvance(op) ELSE CaptureRefuse(op)
    /\ seen' = {Everything(inspect_ns)}
    /\ InspectKept /\ InspectNoFault
revalidate_wrapper_set(p, i) == CaptureView(inspect_ns, p) = op.snap[i][p]
revalidate_part(p, i) == IF p \in {"root", "live"} THEN CaptureView(inspect_ns, p) = op.snap[i][p] ELSE revalidate_wrapper_set(p, i)
revalidate_inspect ==
    /\ Act("revalidate")
    /\ op' = IF revalidate_part(Part, I) THEN InspectAdvance(op) ELSE CaptureRefuse(op)
    /\ InspectKept /\ InspectNoFault /\ UNCHANGED seen

\* UsrExchanged: the candidate is live and the previous tree in the staging wrapper.
require_usr_exchanged_post(s) == s.live.usr.token = "c" /\ s.staging["staging"].usr # None /\ s.staging["staging"].usr.token = "p"
admits_only_root_abi_growth(a, b) ==
    /\ a.root.roots = b.root.roots /\ a.root.quarantine = b.root.quarantine
    /\ \A p \in {"live", "staging", "roots", "quarantine"} : a[p] = b[p]
    /\ \A l \in InspectLinks : a.root.abi[l].kind # "none" => b.root.abi[l] = a.root.abi[l]
Complete(s) == \A l \in InspectLinks : s.root.abi[l].kind = "ok"
Decide(ok) == op' = (IF ok THEN InspectAdvance(op) ELSE CaptureRefuse(op)) /\ InspectKept /\ InspectNoFault /\ UNCHANGED seen
require_exact_snapshot == Act("same") /\ Decide(op.snap[IF I = 2 THEN 1 ELSE 2] = op.snap[I])
require_post == Act("post") /\ Decide(require_usr_exchanged_post(op.snap[I]))
require_growth == Act("grown") /\ Decide(admits_only_root_abi_growth(op.snap[2], op.snap[4]))
finish ==
    /\ Act("stable")
    /\ op' = IF op.snap[1] = op.snap[2] THEN Ended(op, "stable") ELSE CaptureRefuse(op)
    /\ InspectKept /\ InspectNoFault /\ UNCHANGED seen
admission ==
    /\ Act("admit")
    /\ op' = [op EXCEPT !.todo = IF Complete(op.snap[2]) THEN synchronize_complete ELSE normalize]
    /\ InspectKept /\ InspectNoFault /\ UNCHANGED seen

-----------------------------------------------------------------------------
(* create_root_links_retained: links are made one by one, whatever exists is
   authenticated and never replaced; then the root directory is synced. *)
Missing == {l \in InspectLinks : inspect_ns.abi[l].kind = "none"}
Make(l) == [inspect_ns EXCEPT !.abi[l] = [kind |-> "ok", id |-> @.id + 1], !.root = @ + 1]
create_link ==
    /\ Act("create") /\ ~op.failed /\ Missing # {}
    /\ \E l \in Missing : inspect_ns' = Make(l)
    /\ InspectNoFault /\ UNCHANGED <<inspect_disk, op, seen>>
created ==
    /\ Act("create") /\ Missing = {}
    /\ op' = InspectAdvance([op EXCEPT !.failed = @ \/ \E l \in InspectLinks : inspect_ns.abi[l].kind = "bad"])
    /\ InspectKept /\ InspectNoFault /\ UNCHANGED seen
InspectSynced == [l \in InspectLinks |-> inspect_ns.abi[l]]
sync_root ==
    /\ Act("synced") \/ Act("sync")
    /\ inspect_disk' = IF op.failed THEN inspect_disk ELSE InspectSynced
    /\ op' = InspectAdvance([op EXCEPT !.failed = @ \/ (Act("synced") /\ (inspect_ns.next \/ \E l \in InspectLinks : inspect_ns.abi[l].kind # "ok"))])
    /\ InspectNoFault /\ UNCHANGED <<inspect_ns, seen>>
\* The writes failed: the reconciliation capture still follows.
publication_fails ==
    /\ inspect_faults < InspectMaxFaults[subject] /\ inspect_faults' = inspect_faults + 1
    /\ \/ Act("create") /\ op' = [op EXCEPT !.failed = TRUE, !.todo = Tail(Tail(@))]
       \/ (Act("synced") \/ Act("sync")) /\ op' = [op EXCEPT !.failed = TRUE, !.todo = Tail(@)]
    /\ InspectKept /\ UNCHANGED seen
completed ==
    /\ Act("applied") \/ Act("durable")
    /\ op' = IF op.failed \/ ~Complete(op.snap[4]) THEN CaptureRefuse(op) ELSE Ended(op, IF Act("applied") THEN "applied" ELSE "durable")
    /\ InspectKept /\ InspectNoFault /\ UNCHANGED seen

\* The process is killed, or the machine stops and loses what is not on disk; startup begins again.
Restart ==
    /\ op.flow = "abi" /\ inspect_faults < InspectMaxFaults[subject] /\ inspect_faults' = inspect_faults + 1
    /\ \E lost \in BOOLEAN : inspect_ns' = IF lost THEN [inspect_ns EXCEPT !.abi = inspect_disk, !.root = @ + 1] ELSE inspect_ns
    /\ op' = CaptureStart("abi") /\ seen' = {} /\ UNCHANGED inspect_disk

-----------------------------------------------------------------------------
(* The other process. *)
Bump(n, w) == [n EXCEPT !.wrap[w].ver = @ + 1]
Swap(n, w) == \* the /usr of the root or of staging and a wrapper's exchange their places
    LET a == n.live  b == n.wrap[w].usr IN
    [Bump(n, w) EXCEPT !.live = b, !.wrap[w].usr = a, !.root = @ + 1, !.tree[a].ver = @ + 1, !.tree[b].ver = @ + 1]
InspectMove(n, v, w) ==
    LET t == n.wrap[v].usr IN
    [Bump(Bump(n, v), w) EXCEPT !.wrap[v].usr = None, !.wrap[w].usr = t, !.tree[t].ver = @ + 1]
Occupied(w) == inspect_ns.wrap[w] # None /\ inspect_ns.wrap[w].usr # None
Vacant(w) == inspect_ns.wrap[w] # None /\ inspect_ns.wrap[w].usr = None
InspectOutside ==
    /\ op.todo # <<>> /\ outside < MaxCaptureOutside[subject] /\ outside' = outside + 1
    /\ \/ \E w \in Wrappers : Occupied(w) /\ inspect_ns' = Swap(inspect_ns, w)
       \/ \E v, w \in Wrappers \ {"isolation"} : Occupied(v) /\ Vacant(w) /\ inspect_ns' = InspectMove(inspect_ns, v, w)
       \/ inspect_ns' = [inspect_ns EXCEPT !.tree[inspect_ns.live].state_id = 3 - @, !.tree[inspect_ns.live].ver = @ + 1]
       \/ \E l \in InspectLinks : inspect_ns.abi[l].kind = "ok" /\ inspect_ns' = [inspect_ns EXCEPT !.abi[l] = [kind |-> "none", id |-> @.id], !.root = @ + 1]
       \/ \E l \in InspectLinks, k \in {"ok", "bad"} : inspect_ns.abi[l].kind = "none" /\ inspect_ns' = [inspect_ns EXCEPT !.abi[l] = [kind |-> k, id |-> @.id + 1], !.root = @ + 1]
       \/ \E w \in Wrappers : inspect_ns.wrap[w] = None /\ inspect_ns' = [inspect_ns EXCEPT !.wrap[w] = [id |-> 9, ver |-> 0, usr |-> None, slot |-> None, residue |-> FALSE], ![IF w \in RootNames THEN "roots" ELSE "quarantine"] = @ + 1]
    /\ seen' = seen \cup {Everything(inspect_ns')}
    /\ UNCHANGED <<inspect_disk, op, inspect_faults>>

InspectStep == \/ inspect \/ authenticate \/ revalidate_inspect \/ require_exact_snapshot \/ require_post \/ require_growth \/ finish \/ admission
               \/ create_link \/ created \/ sync_root \/ publication_fails \/ completed
CaptureNext == ((InspectStep /\ UNCHANGED outside) \/ InspectOutside \/ (Restart /\ UNCHANGED outside)) /\ UNCHANGED record
CaptureInit ==
    /\ inspect_ns \in Worlds[subject] /\ record \in Records[subject] /\ inspect_disk = inspect_ns.abi
    /\ \E f \in Flows[subject] : op = CaptureStart(f)
    /\ outside = 0 /\ inspect_faults = 0 /\ seen = {}

-----------------------------------------------------------------------------
CaptureTypeOK ==
    /\ \A l \in InspectLinks : inspect_ns.abi[l].kind \in {"none", "ok", "bad"} /\ inspect_disk[l].kind \in {"none", "ok", "bad"}
    /\ inspect_ns.live \in InspectTrees /\ op.outcome \in {"none", "stable", "changed", "refused", "applied", "durable"}
    /\ \A t \in InspectTrees : Cardinality({w \in Wrappers : inspect_ns.wrap[w] # None /\ inspect_ns.wrap[w].usr = t}) + (IF inspect_ns.live = t THEN 1 ELSE 0) <= 1

Succeeded == op.outcome \in {"stable", "applied", "durable"}
LastSnapshot == op.snap[IF op.flow = "evidence" THEN 2 ELSE 4]

(* What a successful startup inspection retains is one state of the whole
   namespace, never a mixture of states before and after a rename by another
   process: it was all there at once when the closing look of the last
   capture began (capture_snapshot: "A coherent set of individually safe
   descriptors is not sufficient"). *)
CaptureIsOneMoment == subject \in {"capturemoves", "abi"} => (Succeeded => LastSnapshot \in seen)

(* The namespace that was captured is unambiguous: every tree token is at one
   place, every slot link is a link of the marker of a tree that is there and
   lies in a wrapper of that tree's state, and a marker has no link that was
   not found (authenticate_slot_links, validate_wrapper_shape). *)
Unambiguous(s) ==
    /\ \A p, q \in CapturePlaces(s) : InspectTreeAt(s, p).token = InspectTreeAt(s, q).token => p = q
    /\ \A w \in CaptureSlots(s) : \E p \in CapturePlaces(s) : InspectTreeAt(s, p).id = WrapperIn(s, w).slot.of /\ StateOf(w) = WrapperIn(s, w).slot.state
    /\ \A p \in CapturePlaces(s) : InspectTreeAt(s, p).links = 1 + Cardinality({w \in CaptureSlots(s) : WrapperIn(s, w).slot.of = InspectTreeAt(s, p).id})
AcceptedIsUnambiguous == subject = "capture" => (Succeeded => Unambiguous(LastSnapshot))

(* When the completion of the root links succeeds, all links were on disk
   after its own synchronization, also those that an interrupted run had made
   without reaching it (synchronize_complete: the complete set is synced
   again before it is reported). *)
CompletedIsDurable == subject = "abi" =>
    (op.outcome \in {"applied", "durable"} /\ outside = 0 => \A l \in InspectLinks : inspect_disk[l].kind = "ok")

-----------------------------------------------------------------------------
(***************************************************************************)
(* The assessment of a boot volume against the files cast wants on it.     *)
(*                                                                         *)
(* assess_retained_boot_namespace_until answers Absent, Exact or Different *)
(* for every requested path below a directory it holds open, while others  *)
(* may rename, edit or mount on the volume.  The classifier walks a trie   *)
(* of the requests.  In each directory it takes a whole inventory, looks   *)
(* every requested component up, descends, and then repeats the inventory  *)
(* and the look-ups; a file is read between two equal witnesses.  Below it *)
(* the production observer keeps a stack of the nodes it has open, and a   *)
(* ledger of its descriptors; the classifier keeps a count of its own.     *)
(*                                                                         *)
(* One action is one observation.  The directory being unchanged around an *)
(* inventory makes its entries one step, and the second open of a regular  *)
(* file by its name is part of the look-up: both are compared with what    *)
(* was seen before.  A budget or deadline that runs out is a failing       *)
(* observation.                                                            *)
(***************************************************************************)
\* op: the assessment
\* seen: ghost: every state each request has had since it began

InspectDirectories == {"root", "dir", "mounted"}
NamespaceFiles       == {"file", "other"}
Nodes       == InspectDirectories \cup NamespaceFiles \cup {"link"}
NameSet     == {"d", "x", "X", "y"}
NamespaceContents    == {"wanted", "same length", "other length"}

kind(node1) ==
    CASE node1 \in InspectDirectories -> "Directory"
      [] node1 \in NamespaceFiles       -> "Regular"
      [] OTHER                -> "Symlink"

mount_id(node1) == IF node1 = "mounted" THEN 2 ELSE 1

\* Names that differ only in the case of ASCII letters.
FoldsTo(name) == CASE name = "x" -> "X" [] name = "X" -> "x" [] OTHER -> name

EqualFolded(a, b) == a = b \/ a = FoldsTo(b)

(* One component, as the kernel resolves it on this volume. *)
openat2_once(directory, name) ==
    IF inspect_names[directory][name] = None /\ FoldLookup[subject]
    THEN inspect_names[directory][FoldsTo(name)]
    ELSE inspect_names[directory][name]

-----------------------------------------------------------------------------
(* What a request's state really is. *)

TrueState(ns1, ds, path) ==
    LET NamespaceStep(node1, name) ==
          IF node1 \notin InspectDirectories \/ mount_id(node1) # 1 THEN "refused"
          ELSE IF FoldsTo(name) # name /\ ns1[node1][FoldsTo(name)] # None THEN "refused"
          ELSE ns1[node1][name]
        walk[i \in 0..Len(path)] ==
          IF i = 0 THEN "root"
          ELSE IF walk[i - 1] = None THEN None ELSE NamespaceStep(walk[i - 1], path[i])
        end == walk[Len(path)]
    IN  IF end = None THEN "Absent"
        ELSE IF end \notin NamespaceFiles THEN "refused"
        ELSE IF ds[end] = "wanted" THEN "Exact" ELSE "Different"

-----------------------------------------------------------------------------
(* The trie of the requests: a node is the sequence of names that leads to it. *)

CommonPrefix(p, q) ==
    CHOOSE n \in 0..Len(p) :
        /\ n <= Len(q) /\ \A i \in 1..n : p[i] = q[i]
        /\ n = Len(p) \/ n = Len(q) \/ p[n + 1] # q[n + 1]

\* RequestCollision and RequestHierarchyCollision.
Collide(p, q) ==
    LET n == CommonPrefix(p, q)
    IN  n = Len(p) \/ n = Len(q) \/ EqualFolded(p[n + 1], q[n + 1])

build(requests) == \A i, j \in DOMAIN requests : i < j => ~Collide(requests[i], requests[j])

\* The names below a node, in the order in which the requests first mention them.
children(requests, node1) ==
    LET below == SelectSeq(requests, LAMBDA p : Len(p) > Len(node1) /\ IsPrefix(node1, p))
        next  == [i \in DOMAIN below |-> below[i][Len(node1) + 1]]
        first == SelectSeq([i \in DOMAIN next |-> i], LAMBDA i : \A j \in 1..i - 1 : next[j] # next[i])
    IN  [i \in DOMAIN first |-> next[first[i]]]

leaf_request(requests, node1) == CHOOSE i \in DOMAIN requests : requests[i] = node1

-----------------------------------------------------------------------------
(* The classifier's reservations, and the observer's nodes and slots. *)

acquire_descriptor(o) == o.descriptors + 1 <= o.limits.descriptors

(* A node handed to the classifier: one slot for its O_PATH descriptor, *)
(* one more for the reader of a regular file of the wanted length.      *)
push_reserved_node(o, node1, reader) ==
    [o EXCEPT !.descriptors = @ + 1,
              !.nodes = Append(@, [identity |-> node1, reader |-> reader]),
              !.slots = @ + (IF reader THEN 2 ELSE 1)]

SlotsOf(nodes) == Len(nodes) + Cardinality({i \in DOMAIN nodes : nodes[i].reader})

(* release_descriptor, and the observer's release_node below it: nodes leave in *)
(* the reverse of the order they came, or everything is cleared and reported.   *)
release_descriptor(o, node1) ==
    IF o.nodes # <<>> /\ Last(o.nodes).identity = node1
    THEN [o EXCEPT !.descriptors = @ - 1, !.nodes = Front(@),
                   !.slots = @ - (IF Last(o.nodes).reader THEN 2 ELSE 1)]
    ELSE [o EXCEPT !.descriptors = @ - 1, !.nodes = <<>>, !.slots = @ - SlotsOf(o.nodes),
                   !.failure = IF @ = None THEN "protocol" ELSE @]

(* An error leaves the current function: every caller releases what it holds. *)
Raise(o, why) ==
    [o EXCEPT !.error = why, !.todo = IF o.stack = <<>> THEN "finish" ELSE "return"]

\* The first failure of the observer itself is kept, and outranks the classifier's.
Adapter(o, why) == Raise([o EXCEPT !.failure = IF @ = None THEN why ELSE @], "ObservationFailed")

Frame(o) == Last(o.stack)

Enter(o, path, node1, step) ==
    [o EXCEPT !.stack = Append(@, [path |-> path, node |-> node1, edge |-> 1, stat |-> 0,
                                   sized |-> FALSE, listed |-> {}, opening |-> None, closing |-> None,
                                   lookups |-> <<>>, state |-> None]),
              !.todo = step]

InFrame(o, f) == [o EXCEPT !.stack[Len(o.stack)] = f]

InspectIdle ==
    [todo |-> "idle", requests |-> <<>>, stack |-> <<>>, nodes |-> <<>>, descriptors |-> 0,
     slots |-> 0, bound |-> {}, states |-> <<>>, evidence |-> 0, error |-> None, failure |-> None,
     limits |-> [descriptors |-> 0, slots |-> 0]]

NamespaceInit ==
    /\ \E v \in Volumes[subject] : inspect_names = v.names /\ data = v.data
    /\ changed = [n \in Nodes |-> 0]
    /\ source = 0
    /\ op = InspectIdle
    /\ seen = <<>>
    /\ moves = 0
    /\ inspect_faults = 0

NamespaceAt(step) == op.todo = step

InspectMayFail == inspect_faults < MaxNamespaceFaults[subject]

InspectFault == InspectMayFail /\ inspect_faults' = inspect_faults + 1

\* The step of the assessment that leaves the volume alone.
Does(o) == op' = o /\ UNCHANGED <<inspect_names, data, changed, source, seen, moves>>

(* RetainedBootNamespaceObserver::new binds every wanted content to its source *)
(* before anything is looked at; the trie is built after it.                   *)
bind_expected_streams(requests, limits1) ==
    /\ NamespaceAt("idle")
    /\ op' = [InspectIdle EXCEPT !.todo = "build", !.requests = requests, !.evidence = source, !.limits = limits1,
                                 !.states = [i \in DOMAIN requests |-> "Absent"]]
    /\ seen' = [i \in DOMAIN requests |-> {TrueState(inspect_names, data, requests[i])}]
    /\ UNCHANGED <<inspect_names, data, changed, source, moves, inspect_faults>>

assess_with_observer_until ==
    /\ NamespaceAt("build")
    /\ Does(IF ~build(op.requests) THEN Raise(op, "RequestCollision")
            ELSE IF op.requests = <<>> THEN [op EXCEPT !.todo = "finish"]
            ELSE [op EXCEPT !.todo = "root"])
    /\ UNCHANGED inspect_faults

(* The root is borrowed: it takes a slot all the same. *)
root_identity_impl ==
    /\ NamespaceAt("root")
    /\ Does(IF ~acquire_descriptor(op) THEN Raise(op, "DescriptorLimitExceeded")
            ELSE IF op.slots + 1 > op.limits.slots THEN Adapter(op, "LiveBudgetExceeded")
            ELSE Enter([push_reserved_node(op, "root", FALSE) EXCEPT !.bound = {"root"}],
                       <<>>, "root", "inventory"))
    /\ UNCHANGED inspect_faults

-----------------------------------------------------------------------------
(* One inventory of the directory on top of the stack. *)

\* The directory is observed, opened afresh and listed.
open_fresh_directory_reader ==
    /\ NamespaceAt("inventory")
    /\ LET f == Frame(op)
       IN  Does(IF op.slots + 1 > op.limits.slots THEN Adapter(op, "LiveBudgetExceeded")
                ELSE [InFrame(op, [f EXCEPT !.stat = changed[f.node],
                                            !.listed = {n \in NameSet : inspect_names[f.node][n] # None}])
                        EXCEPT !.slots = @ + 1, !.todo = "entries"])
    /\ UNCHANGED inspect_faults

\* Every listed name still resolves, and the directory has not changed since.
NamespaceCaptured(f) ==
    /\ \A n \in f.listed : openat2_once(f.node, n) # None
    /\ changed[f.node] = f.stat

InspectInventory(f) == {[name |-> n, identity |-> openat2_once(f.node, n)] : n \in f.listed}

\* The classifier's own checks on what it is handed.
DistinctIdentities(inventory) ==
    \A a, b \in inventory : a.identity = b.identity => a = b

\* Mutant: the reader keeps its slot.
reader_close_kept(o) == o
\* The fresh reader is closed however the inventory ends.
reader_close(o) == [o EXCEPT !.slots = @ - 1]

SameInventory(opening, closing) == opening = closing

(* The end of capture_inventory, in the observer and then in the classifier. *)
Inventoried(f) ==
    LET inventory == InspectInventory(f)
        o == reader_close(op)
    IN  IF op.slots + 1 > op.limits.slots /\ f.listed # {} THEN Adapter(o, "LiveBudgetExceeded")
        ELSE IF ~NamespaceCaptured(f) THEN Adapter(o, "Filesystem")
        ELSE IF ~DistinctIdentities(inventory) THEN Raise(o, "DuplicateIdentityMapping")
        ELSE IF f.opening = None
             THEN [InFrame(o, [f EXCEPT !.opening = inventory]) EXCEPT !.todo = "edge"]
        ELSE IF ~SameInventory(f.opening, inventory) THEN Raise(o, "InventoryRace")
        ELSE [InFrame(o, [f EXCEPT !.closing = inventory, !.edge = 1]) EXCEPT !.todo = "closing"]

capture_inventory ==
    /\ NamespaceAt("entries")
    /\ Does(Inventoried(Frame(op)))
    /\ UNCHANGED inspect_faults

-----------------------------------------------------------------------------
(* The look-up of one requested component, and what becomes of it. *)

Edge(f) == children(op.requests, f.path)[f.edge]

reject_ascii_fold_alias(name, inventory) ==
    \A e \in inventory : EqualFolded(e.name, name) => e.name = name

(* What the kernel found is in the inventory, under exactly the requested name *)
(* and on the volume's own mount; what it did not find is not.                 *)
bind_lookup(name, target, inventory) ==
    IF target = None
    THEN \A e \in inventory : e.name # name
    ELSE /\ mount_id(target) = 1
         /\ [name |-> name, identity |-> target] \in inventory

bind_unique_requested_identity(target) == target \notin op.bound

\* A regular file of the wanted length is opened for reading at once.
Readable(node1) == node1 \in NamespaceFiles /\ data[node1] # "other length"

require_kind(path, target) ==
    kind(target) = IF children(op.requests, path) = <<>> THEN "Regular" ELSE "Directory"

\* The node of a look-up that is refused goes back before the error does.
Unbound(o, target, why) == Raise(release_descriptor(o, target), why)

process_opening_lookup(f, name, target) ==
    LET path == Append(f.path, name)
        o    == push_reserved_node(op, target, Readable(target))
        kept == [InFrame(o, [f EXCEPT !.lookups = Append(@, target)])
                   EXCEPT !.bound = @ \cup {target}]
    IN  IF ~bind_lookup(name, target, f.opening) THEN Unbound(o, target, "LookupRefused")
        ELSE IF ~bind_unique_requested_identity(target)
             THEN Unbound(o, target, "DuplicateIdentityMapping")
        ELSE IF ~require_kind(path, target) THEN Unbound(o, target, "WrongNodeKind")
        ELSE Enter(kept, path, target, IF target \in NamespaceFiles THEN "regular" ELSE "inventory")

\* Absent: the requests below are marked so, and the next component is looked up.
mark_subtree_absent(f) ==
    [op EXCEPT !.stack[Len(op.stack)] = [f EXCEPT !.lookups = Append(@, None), !.edge = @ + 1]]

lookup_impl(f, name, target) ==
    IF ~reject_ascii_fold_alias(name, f.opening) THEN Raise(op, "AsciiFoldAlias")
    ELSE IF ~acquire_descriptor(op) THEN Raise(op, "DescriptorLimitExceeded")
    ELSE IF op.slots + 1 > op.limits.slots THEN Adapter(op, "LiveBudgetExceeded")
    ELSE IF target = None
         THEN IF bind_lookup(name, None, f.opening)
              THEN mark_subtree_absent(f)
              ELSE Raise(op, "LookupAbsenceInventoryConflict")
    ELSE IF Readable(target) /\ op.slots + 2 > op.limits.slots THEN Adapter(op, "LiveBudgetExceeded")
    ELSE process_opening_lookup(f, name, target)

assess_directory ==
    /\ NamespaceAt("edge")
    /\ LET f == Frame(op)
       IN  Does(IF f.edge > Len(children(op.requests, f.path))
                THEN [op EXCEPT !.todo = "inventory"]
                ELSE lookup_impl(f, Edge(f), openat2_once(f.node, Edge(f))))
    /\ UNCHANGED inspect_faults

\* After the second inventory every component is looked up again.
closing_lookup ==
    /\ NamespaceAt("closing")
    /\ LET f == Frame(op)
       IN  Does(IF f.edge > Len(children(op.requests, f.path))
                THEN [op EXCEPT !.todo = "return"]
                ELSE LET target == openat2_once(f.node, Edge(f))
                     IN  IF op.slots + 1 > op.limits.slots THEN Adapter(op, "LiveBudgetExceeded")
                         ELSE IF (target = None) # (f.lookups[f.edge] = None)
                              THEN Raise(op, "UnstableAbsence")
                         ELSE IF target # f.lookups[f.edge] THEN Raise(op, "LookupRace")
                         ELSE IF ~bind_lookup(Edge(f), target, f.closing)
                              THEN Raise(op, "LookupRefused")
                         ELSE InFrame(op, [f EXCEPT !.edge = @ + 1]))
    /\ UNCHANGED inspect_faults

-----------------------------------------------------------------------------
(* A regular file: a witness, its content, and the witness again. *)

\* capture_regular_witness begins with the metadata of the retained node.
observe_retained_path ==
    /\ NamespaceAt("regular")
    /\ LET f == Frame(op)
       IN  Does([InFrame(op, [f EXCEPT !.stat = changed[f.node],
                                       !.sized = data[f.node] # "other length"])
                   EXCEPT !.todo = "hash"])
    /\ UNCHANGED inspect_faults

\* A file of another length is not read: its digest is zero.
NamespaceWitness(f) == [version |-> f.stat, digest |-> IF f.sized THEN data[f.node] ELSE None]

Stable(opening, closing) == opening = closing

(* The hash, and the metadata after it.  The first witness leads to the comparison *)
(* of the streams, unless the length already differs; the second ends the file.    *)
Hashed(f) ==
    IF f.sized /\ ~Last(op.nodes).reader THEN Adapter(op, "Filesystem")
    ELSE IF changed[f.node] # f.stat THEN Adapter(op, "Filesystem")
    ELSE IF f.opening = None
         THEN IF f.sized
              THEN [InFrame(op, [f EXCEPT !.opening = NamespaceWitness(f)]) EXCEPT !.todo = "compare"]
              ELSE [InFrame(op, [f EXCEPT !.opening = NamespaceWitness(f), !.state = "Different"])
                      EXCEPT !.todo = "regular"]
    ELSE IF ~Stable(f.opening, NamespaceWitness(f)) THEN Adapter(op, "Filesystem")
    ELSE [op EXCEPT !.states[leaf_request(op.requests, f.path)] = f.state, !.todo = "return"]

capture_regular_witness ==
    /\ NamespaceAt("hash")
    /\ Does(Hashed(Frame(op)))
    /\ UNCHANGED inspect_faults

(* The two streams end together, and the bytes read are the ones the witness saw. *)
compare_regular_streams ==
    /\ NamespaceAt("compare")
    /\ LET f == Frame(op)
       IN  Does(IF data[f.node] # f.opening.digest THEN Raise(op, "ActualContentProtocolViolation")
                ELSE [InFrame(op, [f EXCEPT !.state = IF data[f.node] = "wanted" THEN "Exact"
                                                      ELSE "Different"])
                        EXCEPT !.todo = "regular"])
    /\ UNCHANGED inspect_faults

-----------------------------------------------------------------------------
(* The ends. *)

(* A function returns, with or without an error: its caller releases the node it *)
(* was called with and goes on to the next component, or returns in its turn.    *)
Returned ==
    /\ NamespaceAt("return")
    /\ LET o == release_descriptor([op EXCEPT !.stack = Front(@)], Frame(op).node)
       IN  Does(IF o.stack = <<>> THEN [o EXCEPT !.todo = "finish"]
                ELSE IF o.error # None THEN o
                ELSE [InFrame(o, [Frame(o) EXCEPT !.edge = @ + 1]) EXCEPT !.todo = "edge"])
    /\ UNCHANGED inspect_faults

\* The observer's own verdict, which precedes the classifier's.
closed ==
    IF op.failure # None THEN op.failure
    ELSE IF op.nodes # <<>> \/ op.slots # 0 THEN "ObserverProtocol"
    ELSE op.error

(* Every wanted content is still bound to the source it had, or there is no answer. *)
terminally_revalidate_expected_streams == source = op.evidence

namespace_finish ==
    /\ NamespaceAt("finish")
    /\ LET result == IF closed # None THEN closed
                     ELSE IF terminally_revalidate_expected_streams THEN "Ok" ELSE "SourceDrift"
       IN  op' = [InspectIdle EXCEPT !.todo = "ended", !.error = result,
                                     !.descriptors = op.descriptors,
                                     !.slots = op.slots - SlotsOf(op.nodes), !.limits = op.limits,
                                     !.requests = IF result = "Ok" THEN op.requests ELSE <<>>,
                                     !.states = IF result = "Ok" THEN op.states ELSE <<>>]
    /\ UNCHANGED <<inspect_names, data, changed, source, seen, moves, inspect_faults>>

(* An observation that fails, or one that ends after the deadline: what it had *)
(* acquired for itself is given back before the error returns.                 *)
observation_fails ==
    /\ op.todo \in {"root", "inventory", "entries", "edge", "closing", "regular", "hash", "compare"}
    /\ InspectFault
    /\ Does(Adapter(IF NamespaceAt("entries") THEN reader_close(op) ELSE op, "Filesystem"))

binding_fails ==
    /\ NamespaceAt("build")
    /\ InspectFault
    /\ Does(Raise(op, "ExpectedSource"))

-----------------------------------------------------------------------------
(* What others do to the volume meanwhile. *)

Running == op.todo \notin {"idle", "ended"}

NamespaceWatch(more) ==
    seen' = [i \in DOMAIN seen |-> seen[i] \cup more \cup {TrueState(inspect_names', data', op.requests[i])}]

\* A component that was looked up and has yet to be looked up again gives
\* once more what it gave.
PutBack(directory, name, target) ==
    \E j \in DOMAIN op.stack : \E k \in DOMAIN op.stack[j].lookups :
        /\ op.stack[j].node = directory /\ op.stack[j].lookups[k] = target
        /\ children(op.requests, op.stack[j].path)[k] = name

Moves ==
    /\ Running /\ moves < InspectMaxMoves[subject]
    /\ moves' = moves + 1
    /\ UNCHANGED <<op, inspect_faults>>

\* A name is created, removed, replaced or renamed: the directory and the files change.
Put(directory, name, target) ==
    /\ Moves
    /\ inspect_names[directory][name] # target
    /\ FoldLookup[subject] => inspect_names[directory][FoldsTo(name)] = None \/ FoldsTo(name) = name
    /\ inspect_names' = [inspect_names EXCEPT ![directory][name] = target]
    /\ changed' = [n \in Nodes |-> IF n \in {directory, target, inspect_names[directory][name]}
                                   THEN changed[n] + 1 ELSE changed[n]]
    /\ UNCHANGED <<data, source>>
    /\ NamespaceWatch(IF PutBack(directory, name, target) THEN {"put back"} ELSE {})

Edit(file, content) ==
    /\ Moves
    /\ data[file] # content
    /\ data' = [data EXCEPT ![file] = content]
    /\ changed' = [changed EXCEPT ![file] = @ + 1]
    /\ UNCHANGED <<inspect_names, source>>
    /\ NamespaceWatch({})

\* A mount over a directory leaves the directory that holds its name as it was.
Mount(directory, name) ==
    /\ Moves
    /\ inspect_names[directory][name] \in InspectDirectories \ {"mounted"}
    /\ inspect_names' = [inspect_names EXCEPT ![directory][name] = "mounted"]
    /\ UNCHANGED <<data, changed, source>>
    /\ NamespaceWatch({})

SourceDrifts ==
    /\ Moves
    /\ source = 0
    /\ source' = 1
    /\ UNCHANGED <<inspect_names, data, changed, seen>>

NamespaceStep ==
    \/ \E requests \in RequestLists[subject], limits1 \in Limits[subject] : bind_expected_streams(requests, limits1)
    \/ assess_with_observer_until
    \/ root_identity_impl
    \/ open_fresh_directory_reader
    \/ capture_inventory
    \/ assess_directory
    \/ closing_lookup
    \/ observe_retained_path
    \/ capture_regular_witness
    \/ compare_regular_streams
    \/ Returned
    \/ namespace_finish
    \/ observation_fails
    \/ binding_fails

NamespaceOutside ==
    \/ \E p \in Puts[subject] : Put(p[1], p[2], p[3])
    \/ \E f \in NamespaceFiles, c \in NamespaceContents : Edit(f, c)
    \/ Mount("root", "d")
    \/ SourceDrifts

NamespaceNext == NamespaceStep \/ NamespaceOutside

-----------------------------------------------------------------------------
(* Properties. *)

\* The assessment's counters and stacks stay within their limits and types.
NamespaceTypeOK ==
    /\ \A d \in InspectDirectories, n \in NameSet : inspect_names[d][n] \in Nodes \cup {None}
    /\ \A f \in NamespaceFiles : data[f] \in NamespaceContents
    /\ op.descriptors \in 0..op.limits.descriptors
    /\ op.slots \in 0..op.limits.slots
    /\ \A i \in DOMAIN op.nodes : op.nodes[i].identity \in Nodes
    /\ \A i \in DOMAIN op.states : op.states[i] \in {"Absent", "Exact", "Different"}
    /\ moves \in 0..InspectMaxMoves[subject] /\ inspect_faults \in 0..MaxNamespaceFaults[subject]

(***************************************************************************)
(* assess_retained_boot_namespace_until: every state it returns is one the *)
(* destination really had while the assessment ran, unless a name on its   *)
(* path was taken away and put back between its two look-ups: the two      *)
(* inventories compare names, identities and kinds.  A name in another     *)
(* case, a foreign mount or a node of the wrong kind on the way is no such *)
(* state, so a destination behind one is never reported.                   *)
(***************************************************************************)
StatesWereTrue == subject = "namespacemoves" =>
    (op.todo = "ended" /\ op.error = "Ok" =>
        \A i \in DOMAIN op.requests : {"put back", op.states[i]} \cap seen[i] # {})

(***************************************************************************)
(* While it runs, the classifier's reservations, the observer's stack of   *)
(* nodes and the calls in progress are the same nodes in the same order,   *)
(* and the ledger's slots are the descriptors those nodes and the one open *)
(* inventory hold.                                                         *)
(***************************************************************************)
LedgersAgree == subject = "namespace" =>
    (op.todo # "ended" =>
        /\ op.descriptors = Len(op.nodes)
        /\ [i \in DOMAIN op.nodes |-> op.nodes[i].identity] = [i \in DOMAIN op.stack |-> op.stack[i].node]
        /\ op.slots = SlotsOf(op.nodes) + (IF op.todo = "entries" THEN 1 ELSE 0))

(***************************************************************************)
(* However an assessment ends, finish finds nothing unreleased: no slot,   *)
(* no reservation, and never the protocol error that reports one.          *)
(***************************************************************************)
AllReturned == subject = "namespacemoves" =>
    (op.todo = "ended" =>
        op.slots = 0 /\ op.descriptors = 0 /\ op.error \notin {"ObserverProtocol", "protocol"})

-----------------------------------------------------------------------------
(***************************************************************************)
(* Reading a directory with bare getdents64 calls, within a budget.        *)
(*                                                                         *)
(* A boot-volume assessment reads many directories, one after another, and *)
(* one ledger holds what all of them together may use.  Each reading gets  *)
(* the rest of the ledger as its own limits, less the bytes of one last    *)
(* call that proves the directory has ended, and charges what it used when *)
(* it is done.  The kernel returns whole records, as many as it likes of   *)
(* those that fit in the bytes offered, and refuses an offer that does not *)
(* hold the next record.                                                   *)
(*                                                                         *)
(* One action is one call of the kernel with the parsing of what it        *)
(* returned.  Work units and allocation bytes are counted like the fields  *)
(* that are modelled and are left out.                                     *)
(***************************************************************************)
\* op: the reading in progress

\* What the ledger counts.  passes and io are charged while a directory is read.
Raw    == {"records", "name_bytes", "read_bytes", "read_calls", "allocations"}
Fields == Raw \cup {"passes", "io", "eof_probes"}

Sum(records, f) == FoldFunction(LAMBDA r, n : n + r[f], 0, records)

Smaller(a, b) == IF a < b THEN a ELSE b

Zero == [f \in Fields |-> 0]

RawIdle ==
    [todo |-> "idle", listing |-> <<>>, left |-> <<>>, limits |-> Zero, used |-> Zero,
     probe |-> 0, entries |-> <<>>, result |-> None]

-----------------------------------------------------------------------------
(* The ledger. *)

validate_limits(l) == \A f \in Fields \ {"eof_probes"} : l[f] > 0 /\ l[f] <= HardMax[f]

remaining(f) == IF usage[f] > limits[f] THEN 0 ELSE limits[f] - usage[f]

\* The last calls are counted against the readings that may make them.
LimitOf(f) == IF f = "eof_probes" THEN limits["passes"] ELSE limits[f]

charge_usize(f, amount) == usage[f] + amount <= LimitOf(f)

\* The bytes the reading itself may fill: one record is kept for the last call.
Reads == Smaller(remaining("read_bytes") - MaxRecord, HardMax["read_bytes"])

(* What is left becomes the limits of one reading.  A call of the kernel is an *)
(* observation as well, so there are at most as many calls as observations.    *)
parser_limits ==
    [f \in Fields |->
        CASE f = "read_bytes" -> Reads
          [] f = "read_calls" -> Smaller(Smaller(remaining(f), HardMax[f]), remaining("io"))
          [] OTHER            -> Smaller(remaining(f), HardMax[f])]

\* Nothing that is left may be zero, and a whole record must fit.
ParserAdmitted ==
    /\ \A f \in Raw \cup {"io"} : remaining(f) > 0
    /\ Reads >= MaxRecord

\* The last call's capacity is charged with the bytes that were read.
charge_raw_usage(u) ==
    [f \in Fields |->
        CASE f = "read_bytes" -> u[f] + op.probe
          [] f = "eof_probes" -> IF op.probe > 0 THEN 1 ELSE 0
          [] f \in Raw        -> u[f]
          [] OTHER            -> 0]

-----------------------------------------------------------------------------
(* One reading. *)

remaining_read_bytes == op.limits["read_bytes"] - op.used["read_bytes"]

admit_read_call == op.used["read_calls"] + 1 <= op.limits["read_calls"]

admit_observation_io_attempt == charge_usize("io", 1)

Ends(result) == [RawIdle EXCEPT !.todo = "ended", !.listing = op.listing, !.result = result,
                             !.entries = IF result = "Ok" THEN op.entries ELSE <<>>]

\* What parse_chunk makes of one record, given what has been used so far.
parse_record(state, r) ==
    LET used == [state.used EXCEPT !["records"] = @ + 1, !["name_bytes"] = @ + r.name,
                                   !["allocations"] = @ + (IF r.is = "entry" THEN 2 ELSE 0)]
    IN  IF state.result # None THEN state
        ELSE IF r.is = "malformed" THEN [state EXCEPT !.result = "Malformed"]
        ELSE IF \E f \in {"records", "name_bytes", "allocations"} : used[f] > op.limits[f]
             THEN [state EXCEPT !.result = "LimitExceeded"]
        ELSE [state EXCEPT !.used = used,
                           !.entries = IF r.is = "entry" THEN Append(@, r) ELSE @]

parse_chunk(state, chunk) == FoldLeft(parse_record, state, chunk)

RawInit ==
    /\ limits \in LedgerLimits
    /\ usage = Zero
    /\ op = RawIdle
    /\ passes = 0

\* LiveLedger::new refuses a limit that is zero or above its ceiling.
LiveLedger_new ==
    /\ op.todo = "idle" /\ passes = 0 /\ usage = Zero
    /\ ~validate_limits(limits)
    /\ op' = [RawIdle EXCEPT !.todo = "refused", !.result = "InvalidLiveLimit"]
    /\ UNCHANGED <<limits, usage, passes>>

(* admit_inventory_pass, and the limits of the reading that follows. *)
admit_inventory_pass(listing) ==
    /\ op.todo \in {"idle", "ended"} /\ passes < MaxPasses
    /\ validate_limits(limits)
    /\ op.result \in {None, "Ok"}
    /\ LET start == [RawIdle EXCEPT !.listing = listing, !.left = listing]
       IN  IF ~charge_usize("passes", 1) \/ ~ParserAdmitted
           THEN op' = [start EXCEPT !.todo = "ended", !.left = <<>>, !.result = "LiveBudgetExceeded"]
           ELSE op' = [start EXCEPT !.todo = "read", !.limits = parser_limits]
    /\ usage' = IF charge_usize("passes", 1) THEN [usage EXCEPT !["passes"] = @ + 1] ELSE usage
    /\ UNCHANGED <<limits, passes>>

(* The kernel's answers to an offer: the lengths of the prefixes that fit. *)
getdents64_once(offered) ==
    IF op.left = <<>> THEN {0}
    ELSE {n \in 1..Len(op.left) : Sum(SubSeq(op.left, 1, n), "bytes") <= offered}

Calls(o) == [o EXCEPT !.used["read_calls"] = @ + 1]

must_probe == remaining_read_bytes < MaxRecord

(* One read: its bytes are parsed record by record; none means the end. *)
read_chunk ==
    /\ op.todo = "read" /\ ~must_probe
    /\ UNCHANGED <<limits, passes>>
    /\ IF ~admit_read_call THEN op' = Ends("LimitExceeded") /\ UNCHANGED usage
       ELSE IF ~admit_observation_io_attempt THEN op' = Ends("io refused") /\ UNCHANGED usage
       ELSE LET offered == Smaller(Buffer, remaining_read_bytes)
                answers == getdents64_once(offered)
            IN  /\ usage' = [usage EXCEPT !["io"] = @ + 1]
                /\ IF answers = {} THEN op' = Ends("offer too small")
                   ELSE \E n \in answers :
                      LET chunk  == SubSeq(op.left, 1, n)
                          read   == [Calls(op) EXCEPT !.used["read_bytes"] = @ + Sum(chunk, "bytes"),
                                                      !.left = SubSeq(@, n + 1, Len(@))]
                          parsed == parse_chunk(read, chunk)
                      IN  op' = IF n = 0 THEN [read EXCEPT !.todo = "charge"]
                                ELSE IF parsed.result # None THEN Ends(parsed.result)
                                ELSE parsed

Exhausted == op.left = <<>>

(* The last call, when no whole record could be read any more. *)
probe_end ==
    /\ op.todo = "read" /\ must_probe
    /\ UNCHANGED <<limits, passes>>
    /\ IF ~admit_read_call THEN op' = Ends("LimitExceeded") /\ UNCHANGED usage
       ELSE IF ~admit_observation_io_attempt THEN op' = Ends("io refused") /\ UNCHANGED usage
       ELSE /\ usage' = [usage EXCEPT !["io"] = @ + 1]
            /\ op' = IF Exhausted THEN [Calls(op) EXCEPT !.probe = MaxRecord, !.todo = "charge"]
                     ELSE Ends("LimitExceeded")

\* The reading's usage is added to the ledger, field by field.
charge_parser_usage ==
    /\ op.todo = "charge"
    /\ LET added == charge_raw_usage(op.used)
       IN  IF \A f \in Fields : charge_usize(f, added[f])
           THEN /\ usage' = [f \in Fields |-> usage[f] + added[f]]
                /\ op' = Ends("Ok")
           ELSE op' = Ends("charge refused") /\ UNCHANGED usage
    /\ passes' = passes + 1
    /\ UNCHANGED limits

source_fails ==
    /\ op.todo = "read"
    /\ op' = Ends("SourceFailed")
    /\ UNCHANGED <<limits, usage, passes>>

RawNext ==
    \/ LiveLedger_new
    \/ \E l \in Listings : admit_inventory_pass(l)
    \/ read_chunk
    \/ probe_end
    \/ charge_parser_usage
    \/ source_fails

-----------------------------------------------------------------------------
(* Properties. *)

\* The ledger never holds more than its limits in any field.
RawTypeOK ==
    /\ \A f \in Fields : usage[f] \in Nat
    /\ validate_limits(limits) => \A f \in Fields : usage[f] <= LimitOf(f)
    /\ op.todo \in {"idle", "refused", "read", "charge", "ended"}
    /\ passes \in 0..MaxPasses

(***************************************************************************)
(* parse_production_raw_directory_inventory: a reading that succeeds has   *)
(* every entry of the directory, each once and in the kernel's order,      *)
(* however the kernel cut the records into answers and wherever the        *)
(* limits fell.                                                            *)
(***************************************************************************)
CompleteOrRefused == subject = "raw" =>
    (op.todo = "ended" /\ op.result = "Ok" =>
        op.entries = SelectSeq(op.listing, LAMBDA r : r.is = "entry"))

(***************************************************************************)
(* read_chunk and probe_end never make an offer the kernel must refuse,    *)
(* and a reading that kept to its own limits is never refused by the       *)
(* ledger afterwards: parser_limits leaves room for every call and for the *)
(* last one.                                                               *)
(***************************************************************************)
LimitsCompose == subject = "raw" => (op.result \notin {"offer too small", "charge refused", "io refused"})

-----------------------------------------------------------------------------
(* A behaviour exercises one part, chosen at the start; the variables of the
   other parts are not in use. *)
InspectInit ==
    /\ subject \in Subjects
    /\ \/ subject = "policy" /\ PolicyInit
          /\ inspect_ns = None /\ inspect_disk = None /\ record = None /\ inspect_faults = None /\ seen = None /\ inspect_names = None /\ data = None /\ changed = None
          /\ source = None /\ moves = None /\ limits = None /\ usage = None /\ passes = None
       \/ subject \in {"capture", "capturemoves", "abi"} /\ CaptureInit
          /\ inspect_node = None /\ held = None /\ inspect_names = None /\ data = None /\ changed = None /\ source = None /\ moves = None /\ limits = None
          /\ usage = None /\ passes = None
       \/ subject \in {"namespace", "namespacemoves"} /\ NamespaceInit
          /\ inspect_node = None /\ held = None /\ outside = None /\ inspect_ns = None /\ inspect_disk = None /\ record = None /\ limits = None /\ usage = None
          /\ passes = None
       \/ subject = "raw" /\ RawInit
          /\ inspect_node = None /\ held = None /\ outside = None /\ inspect_ns = None /\ inspect_disk = None /\ record = None /\ inspect_faults = None /\ seen = None
          /\ inspect_names = None /\ data = None /\ changed = None /\ source = None /\ moves = None

PolicyOnly == subject = "policy" /\ UNCHANGED <<subject, inspect_ns, inspect_disk, record, inspect_faults, seen, inspect_names, data, changed,
                                                source, moves, limits, usage, passes>>
CaptureOnly == subject \in {"capture", "capturemoves", "abi"} /\ UNCHANGED <<subject, inspect_node, held, inspect_names, data,
                                                                             changed, source, moves, limits, usage,
                                                                             passes>>
NamespaceOnly == subject \in {"namespace", "namespacemoves"} /\ UNCHANGED <<subject, inspect_node, held, outside, inspect_ns, inspect_disk,
                                                                            record, limits, usage, passes>>
RawOnly == subject = "raw" /\ UNCHANGED <<subject, inspect_node, held, outside, inspect_ns, inspect_disk, record, inspect_faults, seen, inspect_names,
                                          data, changed, source, moves>>
InspectNext ==
    \/ PolicyOnly /\ PolicyNext
    \/ CaptureOnly /\ CaptureNext
    \/ NamespaceOnly /\ NamespaceNext
    \/ RawOnly /\ RawNext

InspectTypeOK ==
    /\ subject = "policy" => PolicyTypeOK
    /\ subject \in {"capture", "capturemoves", "abi"} => CaptureTypeOK
    /\ subject \in {"namespace", "namespacemoves"} => NamespaceTypeOK
    /\ subject = "raw" => RawTypeOK

-----------------------------------------------------------------------------
(* The instance that TLC checks. *)
Wrapper(i, usr, slot) == [id |-> i, ver |-> 0, usr |-> usr, slot |-> slot, residue |-> FALSE]
Slot(state, token, of) == [state |-> state, token |-> token, of |-> of]
SomeSlot == {None, Slot(1, "c", 1), Slot(2, "p", 2), Slot(1, "p", 2)}
NoLinks == [l \in InspectLinks |-> [kind |-> "none", id |-> 0]]
InspectWorld(live, staging, one, two, park, quarantine, s1, s2, third, extra, abi, residue) ==
    [root |-> 0, roots |-> 0, quarantine |-> 0, live |-> live, abi |-> abi, next |-> FALSE,
     wrap |-> [w \in Wrappers |->
                 CASE w = "staging" -> Wrapper(1, staging, None)
                   [] w = "isolation" -> Wrapper(2, None, None)
                   [] w = "state1" -> Wrapper(3, one, s1)
                   [] w = "state2" -> IF two = None /\ s2 = None THEN None ELSE Wrapper(4, two, s2)
                   [] w = park -> Wrapper(5, None, IF w = "candidate_parking" THEN Slot(1, "c", 1) ELSE IF w = "reblit_parking" THEN Slot(1, "p", 2) ELSE Slot(2, "p", 2))
                   [] w = "transition" -> IF residue THEN [Wrapper(6, None, None) EXCEPT !.residue = TRUE] ELSE IF quarantine = None THEN None ELSE Wrapper(6, quarantine, None)
                   [] OTHER -> None],
     tree |-> [t \in InspectTrees |-> [token |-> IF t = 1 THEN "c" ELSE IF t = 2 THEN "p" ELSE third,
                                       ver |-> 0, state_id |-> IF t = 1 THEN 1 ELSE 2, extra |-> IF t = 1 THEN extra ELSE 0]]]
ManyWorlds ==
    {InspectWorld(p[1], p[2], p[3], p[4], park, p[5], s1, s2, third, extra, NoLinks, residue) :
        p \in {<<2, 1, None, None, None>>, <<1, 2, None, None, None>>, <<2, None, 1, None, None>>, <<1, None, None, 2, None>>, <<2, None, None, None, 1>>, <<1, 2, 3, None, None>>, <<2, 1, None, 3, None>>},
        park \in {"none", "candidate_parking", "reblit_parking", "previous_parking"}, s1 \in SomeSlot, s2 \in SomeSlot,
        third \in {"f", "c"}, extra \in {0, 1}, residue \in BOOLEAN}
ManyRecords ==
    {[operation |-> "new", candidate |-> 1, previous |-> 2, rearchive |-> FALSE, intent |-> TRUE],
     [operation |-> "activate", candidate |-> 1, previous |-> 2, rearchive |-> TRUE, intent |-> FALSE],
     [operation |-> "reblit", candidate |-> 1, previous |-> 1, rearchive |-> FALSE, intent |-> FALSE]}
OneLink == [NoLinks EXCEPT !["bin"] = [kind |-> "ok", id |-> 1]]
FewWorlds == {InspectWorld(1, 2, None, None, "none", None, None, None, "f", 0, abi, FALSE) : abi \in {NoLinks, OneLink}}
FewRecords == {[operation |-> "activate", candidate |-> 1, previous |-> 2, rearchive |-> FALSE, intent |-> FALSE]}
CaptureWorlds == [capture |-> ManyWorlds, capturemoves |-> FewWorlds, abi |-> FewWorlds]
CaptureRecords == [capture |-> ManyRecords, capturemoves |-> FewRecords, abi |-> FewRecords]
CaptureFlows == [capture |-> {"evidence"}, capturemoves |-> {"evidence"}, abi |-> {"abi"}]
CaptureMaxOutside == [capture |-> 0, capturemoves |-> 2, abi |-> 1]
CaptureMaxFaults == [capture |-> 0, capturemoves |-> 0, abi |-> 1]

InspectVolume(d, x, alias, y, wanted) ==
    [names |-> [n \in InspectDirectories |->
                  CASE n = "root" -> [m \in NameSet |-> CASE m = "d" -> d [] m = "y" -> y [] OTHER -> None]
                    [] n = "dir" -> [m \in NameSet |-> CASE m = "x" -> x [] m = "X" -> alias [] OTHER -> None]
                    [] OTHER -> [m \in NameSet |-> IF m = "x" THEN "other" ELSE None]],
     data |-> [f \in NamespaceFiles |-> IF f = "file" THEN wanted ELSE "same length"]]

Both == <<<<"d", "x">>, <<"y">>>>

MCRequestLists ==
    {Both, <<>>, <<<<"x">>, <<"X">>>>, <<<<"d">>, <<"d", "x">>>>, <<<<"y">>, <<"y">>>>}

MCVolumes ==
    {InspectVolume("dir", "file", None, "other", c) : c \in NamespaceContents}
    \cup {InspectVolume(None, None, None, y, "wanted") : y \in {None, "file", "link"}}
    \cup {InspectVolume("dir", None, "file", None, "wanted"), InspectVolume("dir", "file", None, "file", "wanted"),
          InspectVolume("dir", "link", None, "other", "wanted"), InspectVolume("dir", "file", "other", None, "wanted"),
          InspectVolume("dir", "file", "file", None, "wanted")}

MCPuts ==
    {<<"root", "d", None>>, <<"root", "d", "dir">>, <<"root", "y", None>>, <<"root", "y", "file">>,
     <<"dir", "x", None>>, <<"dir", "x", "other">>, <<"dir", "x", "file">>, <<"dir", "X", "other">>}

\* Exactly enough for both requests, one slot too few and one reservation too few.
MCLimits ==
    {[descriptors |-> 3, slots |-> 4], [descriptors |-> 3, slots |-> 3], [descriptors |-> 2, slots |-> 4]}

Enough == {[descriptors |-> 3, slots |-> 4]}

\* The moves that matter for one destination.
OneRequest == {<<<<"d", "x">>>>}
OneVolume  == {InspectVolume("dir", "file", None, None, "wanted"), InspectVolume("dir", None, None, None, "same length")}
OnePuts    == {<<"root", "d", None>>, <<"root", "d", "dir">>, <<"dir", "x", None>>, <<"dir", "x", "file">>,
               <<"dir", "X", "other">>}
NamespaceRequestLists == [namespace |-> MCRequestLists, namespacemoves |-> OneRequest]
NamespaceVolumes == [namespace |-> MCVolumes, namespacemoves |-> OneVolume]
NamespacePuts == [namespace |-> MCPuts, namespacemoves |-> OnePuts]
NamespaceFoldLookup == [namespace |-> FALSE, namespacemoves |-> TRUE]
NamespaceLimits == [namespace |-> MCLimits, namespacemoves |-> Enough]
NamespaceMaxMoves == [namespace |-> 2, namespacemoves |-> 4]
NamespaceMaxFaults == [namespace |-> 1, namespacemoves |-> 0]

R(bytes, name, is) == [bytes |-> bytes, name |-> name, is |-> is]

MCListings ==
    {<<>>, <<R(1, 1, "dot"), R(1, 2, "dot")>>,
     <<R(1, 1, "dot"), R(2, 1, "entry")>>, <<R(3, 2, "entry")>>,
     <<R(1, 1, "dot"), R(3, 2, "entry"), R(2, 1, "entry"), R(3, 2, "entry")>>,
     <<R(2, 1, "entry"), R(2, 1, "malformed")>>}

MCHardMax == [f \in Fields |-> 30]

Ample(reads, calls, io) ==
    [f \in Fields |-> CASE f = "read_bytes" -> reads [] f = "read_calls" -> calls
                        [] f = "io" -> io [] f \in {"passes", "eof_probes"} -> 3 [] OTHER -> 12]

MCLedgerLimits ==
    {Ample(r, c, i) : r \in 5..16, c \in {2, 4, 8}, i \in {3, 10}}
    \cup {[Ample(16, 8, 20) EXCEPT ![f] = n] : f \in Raw, n \in {0, 2, 3, 5}}
    \cup {[Ample(16, 8, 20) EXCEPT !["records"] = 31], [Ample(16, 8, 20) EXCEPT !["passes"] = 1]}
=============================================================================
