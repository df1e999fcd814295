----------------------------- MODULE MountTable -----------------------------
(***************************************************************************)
(* Where the boot volume is mounted: the anchor below the root of the mount *)
(* namespace, and the reading of the mount table.                           *)
(***************************************************************************)
EXTENDS Parts, Sequences, FiniteSets, TLC, Integers, SequencesExt

CONSTANTS
    Namespaces,          \* mount namespaces the thread may enter
    Roots,               \* directories that may be the task root
    Parents,             \* directories the first component may name: [node, mount]
    Leaves,              \* what the second component may name, mounted or uncovered
    MaxMoves,            \* bound: mounts, unmounts and renames of components
    MaxPivots,           \* bound: changes of the task root
    MaxOperations,       \* bound: operations the thread performs
    Tables,              \* the mount tables, sequences of mounts, oldest first
    Selectors,           \* the selectors a caller asks for
    Damage,              \* the symbols an edit may put into a text
    MaxEdits,            \* how many edits a text suffers
    max_lines, max_fields_per_line, max_total_fields,
    max_options,
    MaxU64, MaxU32,      \* the largest integers of the two widths
    MAX_SELECTOR_COMPONENTS

VARIABLES
    ns,          \* the mount namespace of the thread
    root,        \* the task root
    first,       \* what the first component names below the anchor's root
    second,      \* second[p]: what the second component names below p
    moves,       \* mounts and renames so far
    pivots,      \* root changes so far
    count,       \* operations started so far
    prepared,    \* PreparedMountNamespaceAnchor: its Snapshot, or None
    attached,    \* PreparedTaskRootedAttachment: its chain, or None
    seen,        \* history: contexts true since the window opened
    table,       \* the kernel's mounts
    text,        \* the lines of the file: each a sequence of fields
    ended,       \* the file ends with a newline
    edits,       \* edits made to the text
    todo,        \* "read", "line", "select", "policy", or how it ended
    entries,     \* what has been parsed
    total,       \* fields and list items counted
    asked,       \* the selector and the retained descriptor's mount
    selected,    \* the entry selected, or None
    policy  \* what the policies say of it

MountVars == <<subject, ns, root, first, second, moves, pivots, count, prepared, attached, op, seen, table, text,
               ended, edits, todo, entries, total, asked, selected, policy>>

-----------------------------------------------------------------------------
(***************************************************************************)
(* The retained mount context of forge/src/linux_fs/mount_namespace: the   *)
(* anchor (which mount namespace and which task root the thread runs in),  *)
(* the task-rooted attachment (the directory an absolute selector such as  *)
(* /boot/efi reaches, component by component across mounts) and the        *)
(* mountinfo snapshot read between two anchor checks.                      *)
(*                                                                         *)
(* Every capture is a straight-line program of observations, made while    *)
(* others may mount over a component, rename it or pivot the root; any     *)
(* observation may also fail (work, descriptor and time limits).  The      *)
(* thread's own mount namespace changes only between two operations: only  *)
(* the thread itself can enter another one.                                *)
(***************************************************************************)

Context == [ns |-> ns, root |-> root]
ChainNow == [root |-> root, first |-> first,
             second |-> IF first = None THEN None ELSE second[first]]
World == [context |-> Context, chain |-> ChainNow, back |-> FALSE]

Idle == [kind |-> None, todo |-> <<>>, pass |-> None, capture |-> None, chain |-> None,
         whole |-> None, file |-> None, result |-> None]

ContextInit ==
    /\ ns \in Namespaces
    /\ root \in Roots
    /\ first \in Parents
    /\ \E directory \in Leaves : second = [parent \in Parents |-> directory]
    /\ moves = 0
    /\ pivots = 0
    /\ count = 0
    /\ prepared = None
    /\ attached = None
    /\ op = Idle
    /\ seen = {}

-----------------------------------------------------------------------------
(* The programs.  A step is named after the call it makes; a step that     *)
(* compares names what it compares with.                                   *)

capture_once == <<"open_namespace", "open_task_root", "task_root_recheck", "namespace_recheck", "pass_complete">>

capture_twice == capture_once \o capture_once \o <<"require_retained">>

require_terminal_names ==
    <<"terminal_namespace", "terminal_task_root", "terminal_task_root", "terminal_namespace">>

prepare == capture_twice \o require_terminal_names \o <<"require_retained", "return">>

\* Comparisons with the prepared snapshot after each of the three reads.
revalidate ==
    <<"opening_retained">> \o capture_twice \o <<"match_prepared">>
      \o require_terminal_names \o <<"require_retained">>

capture_chain_once == <<"require_root", "open_first", "open_second", "require_root", "chain_complete">>

capture_chain_twice == capture_chain_once \o capture_chain_once

full_chain_rebind == <<"rebind_first", "rebind_second", "require_root">>

\* First full-chain round, final parent, final name, closing full-chain round.
require_terminal_chain ==
    <<"terminal_opens">> \o full_chain_rebind
      \o <<"rebind_first", "rebind_second", "require_root">> \o full_chain_rebind

prepare_task_rooted_attachment ==
    revalidate \o <<"require_root">> \o capture_chain_twice \o require_terminal_chain
      \o revalidate \o <<"return">>

revalidate_against ==
    revalidate \o <<"require_root">> \o capture_chain_twice \o <<"match_attached">>
      \o require_terminal_chain \o revalidate \o <<"return">>

open_exact_thread == <<"exact_namespace", "exact_task_root", "match_exact">>

close_exact_thread == <<"close_task_root", "close_namespace">>

read_current_thread_mountinfo ==
    revalidate \o open_exact_thread \o <<"open_mountinfo", "read_mountinfo", "rebind_mountinfo">>
      \o close_exact_thread \o revalidate \o <<"return">>

Program(kind) ==
    CASE kind = "prepare" -> prepare
      [] kind = "revalidate" -> revalidate \o <<"return">>
      [] kind = "attach" -> prepare_task_rooted_attachment
      [] kind = "reattach" -> revalidate_against
      [] kind = "mountinfo" -> read_current_thread_mountinfo

\* What an operation needs: an anchor, an attachment prepared under it.
Allowed(kind) ==
    CASE kind = "prepare" -> prepared = None
      [] kind \in {"revalidate", "mountinfo"} -> prepared # None
      [] kind = "attach" -> prepared # None /\ attached = None
      [] kind = "reattach" -> attached # None

-----------------------------------------------------------------------------
require_snapshot_matches(expected, actual) ==
    /\ expected.ns = actual.ns
    /\ expected.root = actual.root

(* Mutant: device and inode are compared, the mount ID is not. *)
require_same_directory_node(expected, actual) ==
    expected.node = actual.node

\* Device, inode, kind and mount ID: a directory mounted over itself is the
\* same node on another mount.
require_same_directory(expected, actual) ==
    /\ expected.node = actual.node
    /\ expected.mount = actual.mount

Go(changes) ==
    /\ seen' = seen
    /\ op' = [x \in DOMAIN op |->
                IF x = "todo" THEN Tail(op.todo)
                ELSE IF x \in DOMAIN changes THEN changes[x] ELSE op[x]]

Nothing == [x \in {} |-> None]

Refused(reason) ==
    /\ op' = [Idle EXCEPT !.result = reason]
    /\ seen' = {}

Require(condition) ==
    IF condition THEN Go(Nothing) ELSE Refused("changed")

At(step) ==
    op.todo # <<>> /\ op.todo[1] = step

Quiet == UNCHANGED <<ns, root, first, second, moves, pivots, count, prepared, attached>>

-----------------------------------------------------------------------------
\* An operation of the thread starts; its window opens.
Start ==
    /\ op.todo = <<>>
    /\ count < MaxOperations
    /\ \E kind \in {"prepare", "revalidate", "attach", "reattach", "mountinfo"} :
         /\ Allowed(kind)
         /\ op' = [Idle EXCEPT !.kind = kind, !.todo = Program(kind)]
    /\ count' = count + 1
    /\ seen' = {World}
    /\ UNCHANGED <<ns, root, first, second, moves, pivots, prepared, attached>>

open_namespace ==
    /\ At("open_namespace")
    /\ Go([pass |-> [ns |-> ns, root |-> None]])
    /\ Quiet

open_task_root ==
    /\ At("open_task_root")
    /\ Go([pass |-> [op.pass EXCEPT !.root = root]])
    /\ Quiet

\* require_pass_closed: both names are opened again, in the other order.
require_pass_closed ==
    /\ \/ At("task_root_recheck") /\ Require(op.pass.root = root)
       \/ At("namespace_recheck") /\ Require(op.pass.ns = ns)
    /\ Quiet

\* The second pass must find what the first one found.
pass_complete ==
    /\ At("pass_complete")
    /\ IF op.capture = None THEN Go([capture |-> op.pass, pass |-> None])
       ELSE IF require_snapshot_matches(op.capture, op.pass) THEN Go([pass |-> None])
       ELSE Refused("changed")
    /\ Quiet

\* Retained descriptors keep naming the objects they were opened on; a
\* revalidation opens with them and then captures anew.
require_retained ==
    /\ \/ At("opening_retained") /\ Go([capture |-> None])
       \/ At("require_retained") /\ Go(Nothing)
    /\ Quiet

match_prepared ==
    /\ At("match_prepared")
    /\ Require(require_snapshot_matches(prepared, op.capture))
    /\ Quiet

terminal_names ==
    /\ \/ At("terminal_namespace") /\ Require(op.capture.ns = ns)
       \/ /\ At("terminal_task_root")
          /\ Require(op.capture.root = root)
    /\ Quiet

-----------------------------------------------------------------------------
\* The chain hangs below the retained descriptor of the anchor's task root;
\* it is looked up there whatever the task root is by now.
require_root ==
    /\ At("require_root")
    /\ Go(Nothing)
    /\ Quiet

open_component ==
    /\ \/ /\ At("open_first")
          /\ IF first = None THEN Refused("absent")
             ELSE Go([chain |-> [root |-> prepared.root, first |-> first,
                                 second |-> None]])
       \/ /\ At("open_second")
          /\ Go([chain |-> [op.chain EXCEPT !.second = second[op.chain.first]]])
    /\ Quiet

require_capture_matches(expected, actual) ==
    /\ expected.root = actual.root
    /\ require_same_directory(expected.first, actual.first)
    /\ require_same_directory(expected.second, actual.second)

chain_complete ==
    /\ At("chain_complete")
    /\ IF op.whole = None THEN Go([whole |-> op.chain, chain |-> None])
       ELSE IF require_capture_matches(op.whole, op.chain) THEN Go([chain |-> None])
       ELSE Refused("changed")
    /\ Quiet

match_attached ==
    /\ At("match_attached")
    /\ Require(require_capture_matches(attached, op.whole))
    /\ Quiet

\* The terminal rounds begin: from here the chain must be current.
terminal_opens ==
    /\ At("terminal_opens")
    /\ op' = [op EXCEPT !.todo = Tail(op.todo)]
    /\ seen' = {World}
    /\ Quiet

\* rebind_components: the rebound first component is the parent of the second.
rebind_components ==
    /\ \/ /\ At("rebind_first")
          /\ IF first = None THEN Refused("absent")
             ELSE IF require_same_directory(op.whole.first, first)
               THEN Go([chain |-> [root |-> prepared.root, first |-> first,
                                   second |-> None]])
             ELSE Refused("changed")
       \/ /\ At("rebind_second")
          /\ IF require_same_directory(op.whole.second, second[op.chain.first])
             THEN Go([chain |-> None]) ELSE Refused("changed")
    /\ Quiet

-----------------------------------------------------------------------------
\* The exact-thread context around the mountinfo read.
exact_thread ==
    /\ \/ At("exact_namespace") /\ Go([pass |-> [ns |-> ns, root |-> None]])
       \/ At("exact_task_root") /\ Go([pass |-> [op.pass EXCEPT !.root = root]])
       \/ /\ At("match_exact")
          /\ Require(require_snapshot_matches(prepared, op.pass))
    /\ Quiet

\* The kernel fixes the file's namespace and root when it is opened; a later
\* read lists that namespace's mounts as they are at the read.
mountinfo_file ==
    /\ \/ At("open_mountinfo") /\ Go([file |-> [origin |-> Context, table |-> None]])
       \/ At("read_mountinfo") /\ Go([file |-> [op.file EXCEPT !.table = ChainNow]])
       \/ At("rebind_mountinfo") /\ Go(Nothing)
    /\ Quiet

close_exact ==
    /\ \/ /\ At("close_task_root")
          /\ Require(op.pass.root = root /\ prepared.root = root)
       \/ /\ At("close_namespace")
          /\ IF op.pass.ns = ns /\ prepared.ns = ns THEN Go([pass |-> None]) ELSE Refused("changed")
    /\ Quiet

\* The operation returns what it captured.
return ==
    /\ At("return")
    /\ op' = [op EXCEPT !.todo = <<>>, !.result = "ok"]
    /\ prepared' = IF op.kind = "prepare" THEN op.capture ELSE prepared
    /\ attached' = IF op.kind = "attach" THEN op.whole ELSE attached
    /\ UNCHANGED <<ns, root, first, second, moves, pivots, count, seen>>

\* A limit is exceeded, the deadline passes or a call fails.
operation_fails ==
    /\ op.todo # <<>>
    /\ op.todo[1] # "return"
    /\ Refused("failed")
    /\ Quiet

-----------------------------------------------------------------------------
\* What the operation retained and must find again is put back: the chain,
\* or the root since the mountinfo file was opened.
Restored ==
    \/ op.whole # None /\ first # op.whole.first /\ first' = op.whole.first
    \/ op.whole # None /\ second[op.whole.first] # op.whole.second /\ second'[op.whole.first] = op.whole.second
    \/ (op.whole # None \/ op.file # None) /\ root # prepared.root /\ root' = prepared.root

Watch == seen' = IF op.todo = <<>> THEN seen ELSE seen \cup {[World' EXCEPT !.back = Restored]}

\* Others mount over, unmount or rename a component; what they did before an
\* anchor exists is in the initial state.
Remount ==
    /\ prepared # None
    /\ moves < MaxMoves
    /\ moves' = moves + 1
    /\ \/ /\ \E directory \in (Parents \cup {None}) \ {first} : first' = directory
          /\ UNCHANGED second
       \/ /\ \E parent \in Parents : \E directory \in Leaves \ {second[parent]} :
               second' = [second EXCEPT ![parent] = directory]
          /\ UNCHANGED first
    /\ UNCHANGED <<ns, root, pivots, count, prepared, attached, op>>
    /\ Watch

\* Another process pivots the root of every task that shares it.
Pivot ==
    /\ pivots < MaxPivots
    /\ pivots' = pivots + 1
    /\ \E directory \in Roots \ {root} : root' = directory
    /\ UNCHANGED <<ns, first, second, moves, count, prepared, attached, op>>
    /\ Watch

\* Between two operations the thread enters another mount namespace.
EnterNamespace ==
    /\ op.todo = <<>>
    /\ op.result = "ok"
    /\ \E other \in Namespaces \ {ns} : ns' = other
    /\ op' = Idle
    /\ UNCHANGED <<root, first, second, moves, pivots, count, prepared, attached, seen>>

Step ==
    \/ open_namespace \/ open_task_root \/ require_pass_closed \/ pass_complete
    \/ require_retained \/ match_prepared \/ terminal_names
    \/ require_root \/ open_component \/ chain_complete \/ match_attached
    \/ terminal_opens \/ rebind_components
    \/ exact_thread \/ mountinfo_file \/ close_exact \/ return

ContextNext == Start \/ Step \/ operation_fails \/ Remount \/ Pivot \/ EnterNamespace

-----------------------------------------------------------------------------
ContextTypeOK ==
    /\ ns \in Namespaces
    /\ root \in Roots
    /\ first \in Parents \cup {None}
    /\ second \in [Parents -> Leaves]
    /\ moves \in 0..MaxMoves
    /\ pivots \in 0..MaxPivots
    /\ count \in 0..MaxOperations
    /\ prepared \in [ns : Namespaces, root : Roots] \cup {None}
    /\ op.result \in {None, "ok", "changed", "absent", "failed"}
    /\ op.result = "ok" => prepared # None
    /\ op.result = "ok" /\ op.kind \in {"attach", "reattach"} =>
         attached \in [root : Roots, first : Parents, second : Leaves]

(* An operation that returns under an anchor found the thread in the        *)
(* prepared namespace and below the prepared root, together, while it ran   *)
(* (require_snapshot_matches after each capture).                           *)
AnchorHolds == subject = "context" =>
    (op.result = "ok" /\ op.kind # "prepare" =>
      /\ ns = prepared.ns
      /\ \E world \in seen : world.context = prepared)

PutBack == \E world \in seen : world.back

(* The chain an attachment operation returns was, as a whole, what the     *)
(* selector reached at one instant after the terminal rounds began, never  *)
(* a destination below a parent that had already been mounted over, unless *)
(* others undid a change of the chain or of the root during those rounds:  *)
(* require_same_directory compares values, and no change that stays        *)
(* escapes it.                                                             *)
ChainWasCurrent == subject = "context" =>
    (op.result = "ok" /\ op.kind \in {"attach", "reattach"} =>
      PutBack \/ \E world \in seen : world.chain = op.whole)

(* A mountinfo snapshot that is returned is that of the prepared           *)
(* namespace, and of the prepared root unless the root was pivoted back    *)
(* between the opening of the file and close_exact_thread.                 *)
MountInfoOfAnchor == subject = "context" =>
    (op.result = "ok" /\ op.kind = "mountinfo" =>
      /\ op.file.origin.ns = prepared.ns
      /\ PutBack \/ op.file.origin = prepared)

-----------------------------------------------------------------------------
(***************************************************************************)
(* Texts the kernel prints for a program: a field is a sequence of         *)
(* symbols, single bytes where the code looks at bytes and whole words     *)
(* where it compares words.  None stands for a refused conversion.         *)
(***************************************************************************)

Digits == <<"0", "1", "2", "3", "4", "5", "6", "7", "8", "9">>

Digit(d) == CHOOSE n \in 0..9 : Digits[n + 1] = d

IsNumber(field) == field # <<>> /\ ToSet(field) \subseteq ToSet(Digits)

Decimal(n) == IF n < 10 THEN <<Digits[n + 1]>> ELSE <<Digits[(n \div 10) + 1], Digits[(n % 10) + 1]>>

\* The pieces of a sequence between the occurrences of a separator.
Split(s, separator) ==
    LET cuts == SetToSortSeq({i \in DOMAIN s : s[i] = separator}, <)
        ends == <<0>> \o cuts \o <<Len(s) + 1>>
    IN  [i \in 1..Len(cuts) + 1 |-> SubSeq(s, ends[i] + 1, ends[i + 1] - 1)]

Join(pieces, separator) ==
    FoldLeft(LAMBDA done, p : IF done = None THEN p ELSE done \o <<separator>> \o p, None, pieces)

Exchange(s, i, with) == SubSeq(s, 1, i - 1) \o with \o SubSeq(s, i + 1, Len(s))

\* The number a field of digits stands for, None when it exceeds its width.
Value(field, limit) ==
    FoldLeft(LAMBDA v, d : IF v = None \/ v * 10 + Digit(d) > limit THEN None ELSE v * 10 + Digit(d),
             0, field)

\* The one spelling of a number: decimal digits, no leading zero.
Canonical(field, limit) ==
    IF IsNumber(field) /\ (Len(field) > 1 => field[1] # "0") THEN Value(field, limit) ELSE None

\* The texts one edit away: a symbol lost, doubled, or exchanged for or preceded by another.
Edits(field, damage) ==
    UNION {{Exchange(field, p, with) :
              with \in {<<>>, <<field[p], field[p]>>} \cup {<<d>> : d \in damage}
                       \cup {<<d, field[p]>> : d \in damage}} : p \in DOMAIN field}

-----------------------------------------------------------------------------
(***************************************************************************)
(* Reading the kernel's mount table: the strict parser of                  *)
(* /proc/thread-self/mountinfo (linux_fs/mountinfo.rs), the selection of   *)
(* the one entry a retained descriptor is attached through                 *)
(* (mountinfo_attachment.rs), and the policies of a boot volume            *)
(* (mountinfo_boot_policy.rs) and of /dev (mountinfo_devtmpfs_policy.rs).  *)
(*                                                                         *)
(* A field is a sequence of symbols: single bytes where the code looks at  *)
(* bytes, whole words ("vfat", "nosuid") where it compares words.  The     *)
(* kernel's side (ShowMount) is external: it prints a mount's numbers,     *)
(* escaped paths and flags, and the properties compare what the program    *)
(* concludes with the mount itself.  A text may be damaged by one edit.    *)
(* The work budget and the deadline, which only refuse, are left out.      *)
(***************************************************************************)

(***************************************************************************)
(* The kernel (external).                                                  *)
(***************************************************************************)
Escapes ==
    [b \in {" ", "\t", "\n", "\\", "#"} |->
        CASE b = " " -> <<"\\", "0", "4", "0">> [] b = "\t" -> <<"\\", "0", "1", "1">>
          [] b = "\n" -> <<"\\", "0", "1", "2">> [] b = "\\" -> <<"\\", "1", "3", "4">>
          [] OTHER -> <<"\\", "0", "4", "3">>]

Mangle(bytes, escaped) ==
    FlattenSeq([i \in DOMAIN bytes |-> IF bytes[i] \in escaped THEN Escapes[bytes[i]] ELSE <<bytes[i]>>])

Paths == {" ", "\t", "\n", "\\"}

FlagNames == <<"nosuid", "nodev", "noexec", "nosymfollow">>

MountOptions(m) ==
    <<IF "ro" \in m.flags THEN "ro" ELSE "rw">> \o SelectSeq(FlagNames, LAMBDA f : f \in m.flags)

SuperOptions(m) == <<IF m.sb_ro THEN "ro" ELSE "rw">> \o m.data

ShowMount(m) ==
    <<Decimal(m.id), Decimal(m.parent), Decimal(m.dev[1]) \o <<":">> \o Decimal(m.dev[2]),
      Mangle(m.root, Paths), Mangle(m.point, Paths),
      Join([i \in DOMAIN MountOptions(m) |-> <<MountOptions(m)[i]>>], ",")>>
    \o m.tags
    \o <<<<"-">>, Mangle(m.type, Paths \cup {"#"}), Mangle(m.source, Paths \cup {"#"}),
         Join([i \in DOMAIN SuperOptions(m) |-> <<SuperOptions(m)[i]>>], ",")>>

\* The mount a path lookup of a mount point reaches: the last one put there.
Lookup(point) ==
    LET at == {i \in DOMAIN table : table[i].point = point}
    IN  IF at = {} THEN None ELSE table[Max(at)]

------------------------------------------------------------------------------
(***************************************************************************)
(* The parser.  A result is None when the code refuses.                    *)
(***************************************************************************)
parse_positive_u64(field) ==
    IF IsNumber(field) /\ field[1] # "0" THEN Value(field, MaxU64) ELSE None

parse_canonical_u32(field) == Canonical(field, MaxU32)

parse_device(field) ==
    LET parts == Split(field, ":")
        numbers == [i \in DOMAIN parts |-> parse_canonical_u32(parts[i])]
    IN  IF Len(parts) = 2 /\ None \notin ToSet(numbers) THEN numbers ELSE None

decode_mountinfo_escaped_field(field, require_absolute, allow_hash) ==
    LET known == {e \in DOMAIN Escapes : e = "#" => allow_hash}
        escape(i) == {e \in known : i + 3 <= Len(field) /\ SubSeq(field, i, i + 3) = Escapes[e]}
        rest[i \in 1..Len(field) + 1] ==
            CASE i > Len(field) -> <<>>
              [] i <= Len(field) /\ field[i] # "\\" ->
                    IF rest[i + 1] = None THEN None ELSE <<field[i]>> \o rest[i + 1]
              [] OTHER ->
                    IF escape(i) = {} \/ rest[i + 4] = None THEN None
                    ELSE <<CHOOSE e \in escape(i) : TRUE>> \o rest[i + 4]
        decoded == rest[1]
    IN  IF decoded \notin {None, <<>>} /\ (require_absolute => decoded[1] = "/") THEN decoded ELSE None

decode_mountinfo_path(field, require_absolute) ==
    decode_mountinfo_escaped_field(field, require_absolute, FALSE)

decode_mountinfo_mangled_field(field) == decode_mountinfo_escaped_field(field, FALSE, TRUE)

\* The items of a comma-separated list, none of them empty.
parse_option_list(field, max_items) ==
    LET options == Split(field, ",")
    IN  IF max_items > 0 /\ <<>> \notin ToSet(options) /\ Len(options) <= max_items
        THEN options ELSE None

split_fields(line, available) ==
    /\ <<>> \notin ToSet(line)
    /\ Len(line) <= max_fields_per_line
    /\ Len(line) <= available

separator_index(fields) == Len(fields) - 3

parse_mountinfo_line(fields, max_list_fields) ==
    LET s == separator_index(fields)
        optional == SubSeq(fields, 7, s - 1)
        mount_options ==
            parse_option_list(fields[6], Min({max_fields_per_line - Len(fields), max_list_fields}))
        units == Len(fields) + Len(mount_options)
        super_options ==
            parse_option_list(fields[s + 3],
                Min({max_fields_per_line - units, max_list_fields - Len(mount_options)}))
        entry ==
            [mount_id |-> parse_positive_u64(fields[1]), parent_id |-> parse_positive_u64(fields[2]),
             device |-> parse_device(fields[3]), root |-> decode_mountinfo_path(fields[4], FALSE),
             mount_point |-> decode_mountinfo_path(fields[5], TRUE),
             mount_options |-> mount_options, optional_fields |-> optional,
             filesystem_type |-> decode_mountinfo_mangled_field(fields[s + 1]),
             mount_source |-> decode_mountinfo_mangled_field(fields[s + 2]),
             super_options |-> IF mount_options = None THEN None ELSE super_options]
    IN  IF \/ Len(fields) < 10
           \/ fields[s] # <<"-">>
           \/ <<"-">> \in ToSet(optional)
           \/ \E part \in DOMAIN entry : entry[part] = None
        THEN None ELSE entry

list_fields(entry) == Len(entry.mount_options) + Len(entry.super_options)

Refuse ==
    /\ todo' = "refused"
    /\ UNCHANGED <<table, text, ended, edits, entries, total, asked, selected, policy>>

\* Reading the whole file: what is refused before any line is looked at.
read_mountinfo ==
    /\ todo = "read"
    /\ IF text = <<>> \/ ~ended
       THEN Refuse
       ELSE /\ todo' = "line"
            /\ UNCHANGED <<table, text, ended, edits, entries, total, asked, selected, policy>>

repeated(entry) == \E i \in DOMAIN entries : entries[i].mount_id = entry.mount_id

\* One turn of the loop over the lines.
parse_line ==
    /\ todo = "line"
    /\ Len(entries) < Len(text)
    /\ LET line == text[Len(entries) + 1]
           available == max_total_fields - total
           entry == IF \/ Len(entries) + 1 > max_lines
                       \/ line = <<>>
                       \/ \E i \in DOMAIN line : "\t" \in ToSet(line[i])
                       \/ ~split_fields(line, available)
                    THEN None
                    ELSE parse_mountinfo_line(line, available - Len(line))
       IN  IF entry = None THEN Refuse
           ELSE IF \/ total + Len(line) + list_fields(entry) > max_total_fields
                   \/ repeated(entry)
           THEN Refuse
           ELSE /\ entries' = Append(entries, entry)
                /\ total' = total + Len(line) + list_fields(entry)
                /\ UNCHANGED <<table, text, ended, edits, todo, asked, selected, policy>>

parsed ==
    /\ todo = "line"
    /\ Len(entries) = Len(text)
    /\ todo' = "select"
    /\ UNCHANGED <<table, text, ended, edits, entries, total, asked, selected, policy>>

------------------------------------------------------------------------------
(***************************************************************************)
(* The selection of an attachment.                                         *)
(***************************************************************************)
validate_selector(selector) ==
    LET components == Split(Tail(selector), "/")
    IN  /\ selector # <<>> /\ selector[1] = "/"
        /\ selector # <<"/">>
        /\ Len(components) <= MAX_SELECTOR_COMPONENTS
        /\ ToSet(components) \cap {<<>>, <<".">>, <<".", ".">>} = {}

Selection(selector, mount_id, device) ==
    LET at == {i \in DOMAIN entries : entries[i].mount_point = selector}
        expected == {i \in DOMAIN entries : entries[i].mount_id = mount_id}
        selected_entry == entries[CHOOSE i \in at : TRUE]
    IN  IF /\ Cardinality(at) = 1
           /\ selected_entry.mount_id = mount_id
           /\ Cardinality(expected) = 1
           /\ selected_entry.root = <<"/">>
           /\ selected_entry.device = device
        THEN selected_entry ELSE None

\* A caller asks with the identity of a descriptor of one of the table's mounts, or of one since gone.
select_mountinfo_attachment(selector, mount) ==
    /\ todo = "select"
    /\ asked' = [selector |-> selector, mount |-> mount]
    /\ LET answer == IF mount.id # 0 /\ validate_selector(selector)
                     THEN Selection(selector, mount.id, mount.dev) ELSE None
       IN  /\ selected' = answer
           /\ todo' = IF answer = None THEN "unselected" ELSE "policy"
    /\ UNCHANGED <<table, text, ended, edits, entries, total, policy>>

------------------------------------------------------------------------------
(***************************************************************************)
(* The policies.                                                           *)
(***************************************************************************)
OptionCount(options, word) == Cardinality({i \in DOMAIN options : options[i] = <<word>>})

require_read_write(options) == OptionCount(options, "rw") = 1 /\ OptionCount(options, "ro") = 0

InverseOf ==
    [flag \in ToSet(FlagNames) |->
        CASE flag = "nosuid" -> "suid" [] flag = "nodev" -> "dev"
          [] flag = "noexec" -> "exec" [] OTHER -> "symfollow"]

require_flag(options, flag) ==
    OptionCount(options, flag) = 1 /\ OptionCount(options, InverseOf[flag]) = 0

validate_selected_boot_mount_policy(e) ==
    /\ e.filesystem_type = <<"vfat">>
    /\ Len(e.mount_options) <= max_options /\ Len(e.super_options) <= max_options
    /\ require_read_write(e.mount_options)
    /\ require_read_write(e.super_options)
    /\ \A flag \in ToSet(FlagNames) : require_flag(e.mount_options, flag)

require_access_mode(options) ==
    LET rw == OptionCount(options, "rw")
        ro == OptionCount(options, "ro")
    IN  CASE rw = 1 /\ ro = 0 -> "ReadWrite" [] rw = 0 /\ ro = 1 -> "ReadOnly" [] OTHER -> None

require_no_bind(options) == OptionCount(options, "bind") = 0 /\ OptionCount(options, "rbind") = 0

require_device_semantics(options) == OptionCount(options, "dev") <= 1 /\ OptionCount(options, "nodev") = 0

validate_selected_devtmpfs_mount_policy(e) ==
    LET mode == require_access_mode(e.mount_options)
        lists == {e.mount_options, e.super_options}
    IN  IF /\ e.mount_point = <<"/", "dev">>
           /\ e.root = <<"/">>
           /\ e.filesystem_type = <<"devtmpfs">>
           /\ \A options \in lists : /\ Len(options) <= max_options
                                     /\ require_no_bind(options)
                                     /\ require_device_semantics(options)
           /\ mode # None
           /\ require_access_mode(e.super_options) = mode
        THEN mode ELSE None

decide ==
    /\ todo = "policy"
    /\ policy' = [boot |-> validate_selected_boot_mount_policy(selected),
                  dev |-> validate_selected_devtmpfs_mount_policy(selected)]
    /\ todo' = "decided"
    /\ UNCHANGED <<table, text, ended, edits, entries, total, asked, selected>>

------------------------------------------------------------------------------
Shown == [i \in DOMAIN table |-> ShowMount(table[i])]

MountinfoInit ==
    /\ table \in Tables[subject]
    /\ text = Shown
    /\ ended = TRUE
    /\ edits = 0
    /\ todo = "read"
    /\ entries = <<>> /\ total = 0
    /\ asked = None /\ selected = None /\ policy = None

\* The text of another reader, or one cut off: a symbol lost, doubled or exchanged, a field or a line lost or doubled.
Edit ==
    /\ todo = "read" /\ edits < MaxEdits[subject]
    /\ edits' = edits + 1
    /\ \/ /\ ended' = FALSE
          /\ text' = text
       \/ /\ ended' = ended
          /\ \E l \in DOMAIN text :
                \/ \E with \in {<<>>, <<<<>>>>, <<text[l], text[l]>>} : text' = Exchange(text, l, with)
                \/ \E f \in DOMAIN text[l] :
                      LET line == text[l]
                          field == line[f]
                      IN  \/ \E with \in {<<>>, <<field, field>>} :
                                 text' = [text EXCEPT ![l] = Exchange(line, f, with)]
                          \/ \E with \in Edits(field, Damage[subject]) : text' = [text EXCEPT ![l][f] = with]
    /\ UNCHANGED <<table, todo, entries, total, asked, selected, policy>>

MountinfoNext ==
    \/ Edit
    \/ read_mountinfo
    \/ parse_line
    \/ parsed
    \/ \E selector \in Selectors[subject], i \in DOMAIN table : select_mountinfo_attachment(selector, table[i])
    \/ \E selector \in Selectors[subject], i \in DOMAIN table :
          select_mountinfo_attachment(selector, [table[i] EXCEPT !.id = 9])
    \/ decide

------------------------------------------------------------------------------
MountinfoTypeOK ==
    /\ table \in Tables[subject]
    /\ ended \in BOOLEAN
    /\ edits \in 0..MaxEdits[subject]
    /\ todo \in {"read", "line", "select", "policy", "refused", "unselected", "decided"}
    /\ Len(entries) <= Len(text)
    /\ total \in 0..max_total_fields
    /\ (selected # None) <=> todo \in {"policy", "decided"}
    /\ (policy # None) <=> todo = "decided"

\* What an entry says, printed again the way the kernel prints it.
Reprint(e) ==
    <<Decimal(e.mount_id), Decimal(e.parent_id), Decimal(e.device[1]) \o <<":">> \o Decimal(e.device[2]),
      Mangle(e.root, Paths), Mangle(e.mount_point, Paths), Join(e.mount_options, ",")>>
    \o e.optional_fields
    \o <<<<"-">>, Mangle(e.filesystem_type, Paths), Mangle(e.mount_source, Paths),
         Join(e.super_options, ",")>>

\* What the parser says of an entry determines the line it came from.  Whatever
\* text is accepted, damaged or not, the entries printed again give that text
\* (but for an escaped `#`, which the parser reads like a bare one): no two
\* readings of one line, no field that slips into its neighbour, no number
\* with a second spelling.
OneReading == subject = "mountedits" =>
    (\A i \in DOMAIN entries :
        LET line == text[i]
            s == Len(line) - 3
            hashes == \E f \in {s + 1, s + 2} : \E p \in DOMAIN line[f] :
                         p + 3 <= Len(line[f]) /\ SubSeq(line[f], p, p + 3) = Escapes["#"]
        IN  hashes \/ Reprint(entries[i]) = line)

\* The mount an entry of an undamaged text was printed from.
Faithful(e, m) ==
    /\ e.mount_id = m.id /\ e.parent_id = m.parent /\ e.device = m.dev
    /\ e.root = m.root /\ e.mount_point = m.point
    /\ e.filesystem_type = m.type /\ e.mount_source = m.source
    /\ e.optional_fields = m.tags

\* What the kernel prints is read back as the mounts it printed, with every
\* escaped byte of a path restored, and is refused only when it is larger than
\* the limits allow (parse_mountinfo_with_limits_and_work_deadline).
KernelTextIsRead == subject = "mountinfo" =>
    ((edits = 0) =>
        /\ \A i \in DOMAIN entries : Faithful(entries[i], table[i])
        /\ todo = "refused" =>
             \/ Len(text) \notin 1..max_lines
             \/ LET items(i) == Len(text[i]) + Len(MountOptions(table[i])) + Len(SuperOptions(table[i]))
                IN  \E i \in DOMAIN table :
                       \/ items(i) > max_fields_per_line
                       \/ FoldLeft(LAMBDA n, k : n + items(k), 0, [k \in 1..i |-> k]) > max_total_fields)

\* An attachment is selected from an undamaged table exactly when a lookup of
\* the selector would reach the retained descriptor's own mount, that mount
\* shows the whole file system, and nothing is stacked below it
\* (select_mountinfo_attachment_with_limits_and_clock).
SelectionIsLookup == subject = "mountinfo" =>
    ((edits = 0 /\ asked # None) =>
        LET reached == Lookup(asked.selector)
            whole == /\ reached # None
                     /\ reached = asked.mount
                     /\ reached.root = <<"/">>
                     /\ Cardinality({i \in DOMAIN table : table[i].point = asked.selector}) = 1
        IN  (selected # None) <=> (whole /\ validate_selector(asked.selector)))

\* The boot policy admits a selected mount exactly when the kernel's mount is a
\* writable vfat on a writable superblock with all four restricting flags set
\* (validate_selected_boot_mount_policy_with_limits_and_clock).
BootPolicyIsTheMounts == subject = "mountinfo" =>
    ((edits = 0 /\ todo = "decided") =>
        LET m == asked.mount
        IN  policy.boot <=> /\ m.type = <<"vfat">> /\ ~m.sb_ro
                            /\ m.flags = ToSet(FlagNames))

\* /dev is admitted exactly when the kernel's mount is a devtmpfs at /dev whose
\* own and whose superblock's access agree and which lets device nodes work
\* (validate_selected_devtmpfs_mount_policy_with_limits_and_clock).
DevPolicyIsTheMounts == subject = "mountinfo" =>
    ((edits = 0 /\ todo = "decided") =>
        LET m == asked.mount
        IN  (policy.dev # None) <=> /\ m.type = <<"devtmpfs">> /\ m.point = <<"/", "dev">>
                                    /\ m.sb_ro = ("ro" \in m.flags)
                                    /\ "nodev" \notin m.flags)

-----------------------------------------------------------------------------
(* A behaviour exercises one part, chosen at the start; the variables of the
   other parts are not in use. *)
MountInit ==
    /\ subject \in Subjects
    /\ \/ subject = "context" /\ ContextInit
          /\ table = None /\ text = None /\ ended = None /\ edits = None /\ todo = None /\ entries = None /\ total = None /\ asked = None
          /\ selected = None /\ policy = None
       \/ subject \in {"mountinfo", "mountedits"} /\ MountinfoInit
          /\ ns = None /\ root = None /\ first = None /\ second = None /\ moves = None /\ pivots = None /\ count = None /\ prepared = None
          /\ attached = None /\ op = None /\ seen = None

ContextOnly == subject = "context" /\ UNCHANGED <<subject, table, text, ended, edits, todo, entries, total, asked,
                                                  selected, policy>>
MountinfoOnly == subject \in {"mountinfo", "mountedits"} /\ UNCHANGED <<subject, ns, root, first, second, moves,
                                                                        pivots, count, prepared, attached, op,
                                                                        seen>>
MountNext ==
    \/ ContextOnly /\ ContextNext
    \/ MountinfoOnly /\ MountinfoNext

MountTypeOK ==
    /\ subject = "context" => ContextTypeOK
    /\ subject \in {"mountinfo", "mountedits"} => MountinfoTypeOK

-----------------------------------------------------------------------------
(* The instance that TLC checks. *)
MCParents == {[node |-> "boot", mount |-> 1], [node |-> "boot", mount |-> 2]}
MCLeaves == {[node |-> "efi", mount |-> 3], [node |-> "dir", mount |-> 1]}

Interchangeable == Permutations(Namespaces) \cup Permutations(Roots)

Mount(id, point, root1, type, flags, sb_ro) ==
    [id |-> id, parent |-> 1, dev |-> <<8, 0>>, root |-> root1, point |-> point, flags |-> flags,
     tags |-> <<>>, type |-> <<type>>, source |-> <<"none">>, sb_ro |-> sb_ro, data |-> <<>>]

Boot == <<"/", "boot">>
Dev == <<"/", "dev">>
Whole == <<"/">>
All == {"nosuid", "nodev", "noexec", "nosymfollow"}

\* Every combination of flags on the two kinds of mount the policies are about.
Flagged ==
    {<<Mount(2, Boot, Whole, type, flags, sb_ro)>> :
        type \in {"vfat", "ext4"}, flags \in SUBSET (All \cup {"ro"}), sb_ro \in BOOLEAN}
    \cup {<<Mount(2, Dev, Whole, type, flags, sb_ro)>> :
        type \in {"devtmpfs", "tmpfs"}, flags \in SUBSET {"ro", "nosuid", "nodev"}, sb_ro \in BOOLEAN}

\* Paths with bytes the kernel escapes, other roots, tags and sources.
Named ==
    {<<[Mount(12, point, root1, "vfat", All, FALSE) EXCEPT !.tags = tags, !.source = source, !.data = data]>> :
        point \in {Boot, <<"/", " ", "\\">>, <<"/", "#">>, Whole},
        root1 \in {Whole, <<"/", "s">>, <<"n", ":">>},
        tags \in {<<>>, <<<<"shared", ":", "1">>>>},
        source \in {<<"#">>, <<"s", "\t">>},
        data \in {<<>>, <<"utf8">>}}

\* Two mounts: apart, or stacked on one point.
Stacked ==
    {<<Mount(2, a, Whole, "vfat", All, FALSE), [Mount(3, b, Whole, "vfat", All, FALSE) EXCEPT !.dev = dev, !.tags = tags]>> :
        a \in {Boot, Dev}, b \in {Boot, Dev}, dev \in {<<8, 0>>, <<0, 5>>},
        tags \in {<<>>, <<<<"shared", ":", "1">>>>}}

MCTables == Flagged \cup Named \cup Stacked \cup {<<>>}

\* The table of the run with damaged texts.
EditedTables == {<<[Mount(2, <<"/", " ">>, Whole, "vfat", {}, FALSE) EXCEPT !.tags = <<<<"m", ":", "1">>>>]>>}

MCSelectors == {Boot, Dev, Whole, <<"boot">>, <<"/", "boot", "/">>, <<"/", "#">>, <<"/", ".">>}

EditedSelectors == {Boot}

MCDamage == {"0", "\\", ",", "-", "\t"}
MountinfoTables == [mountinfo |-> MCTables, mountedits |-> EditedTables]
MountinfoSelectors == [mountinfo |-> MCSelectors, mountedits |-> EditedSelectors]
MountinfoDamage == [mountinfo |-> {}, mountedits |-> MCDamage]
MountinfoMaxEdits == [mountinfo |-> 0, mountedits |-> 2]
=============================================================================
