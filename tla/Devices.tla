------------------------------ MODULE Devices -------------------------------
(***************************************************************************)
(* Which device the boot volume is on: the attributes of block devices in   *)
(* sysfs, the identity of a partition and its disk, and the partition table *)
(* read from the disk.                                                      *)
(***************************************************************************)
EXTENDS Parts, Integers, Sequences, SequencesExt, FiniteSets, FiniteSetsExt

CONSTANTS
    Partitions, Disks,   \* the kernel's objects
    Links, Subsystems,   \* targets of links below dev/block and of subsystem links
    DeviceDamage, DeviceMaxEdits,
    DeviceMaxU32, DeviceMaxU64,  \* the largest integers of the two widths
    MaxLines, MaxComponents,
    SysfsPartitions,     \* the partitions of the disk: their numbers
    Shapes,              \* kinds of the ancestors of a partition, from the top
    Sequences,           \* disk sequences at the start: numbers, or None on old kernels
    Sizes,               \* partition sizes
    DeviceMaxMoves,      \* hot plug, partitioning and mount events
    BlockEntries,        \* entries that fit in one block
    MIN_GPT_ENTRIES,
    MAX_GPT_ENTRIES,
    Roles,               \* the roles with a type GUID: "esp", "xbootldr"
    Images,              \* disks at the start: functions from block numbers to blocks
    Expected,            \* what sysfs says of the partition: number, uuid, role and geometry
    Attachments,         \* the devtmpfs the name is looked up in
    Writes(_),           \* blocks a tool may write to this image while it is read
    GptEdits(_),         \* images an earlier tool may have left instead of this one
    SECTORS,             \* sysfs sectors in a block
    MaxGptEdits,
    MaxGptMoves

VARIABLES
    part, disk,  \* the kernel's partition and disk
    texts,       \* the texts read of them, by name
    device_edits, edited, \* how many edits, and to which text
    device_todo, \* the parse that comes next, or how it ended
    read,        \* what has been parsed
    sys,         \* the kernel's objects
    device_moves,
    device_prepared,  \* the captures of the prepared identities, by partition
    valid,       \* the current captures of the revalidated ones
    device_seen, \* every state of the partition since the terminal check began
    disks,       \* which disk object and medium each partition object has been part of
    told,        \* the pair of captures said to have one parent, or None
    named,       \* the node the name leads to
    names  \* every node the name led to since the second pass ended

DeviceVars == <<subject, part, disk, texts, device_edits, edited, device_todo, read, sys, device_moves, op, device_prepared, valid, device_seen,
                disks, told, named, names>>

-----------------------------------------------------------------------------
(***************************************************************************)
(* Texts the kernel prints for a program: a field is a sequence of         *)
(* symbols, single bytes where the code looks at bytes and whole words     *)
(* where it compares words.  None stands for a refused conversion.         *)
(***************************************************************************)

DeviceDigits == <<"0", "1", "2", "3", "4", "5", "6", "7", "8", "9">>

DeviceDigit(d) == CHOOSE n \in 0..9 : DeviceDigits[n + 1] = d

DeviceIsNumber(field) == field # <<>> /\ ToSet(field) \subseteq ToSet(DeviceDigits)

DeviceDecimal(n) == IF n < 10 THEN <<DeviceDigits[n + 1]>> ELSE <<DeviceDigits[(n \div 10) + 1], DeviceDigits[(n % 10) + 1]>>

\* The pieces of a sequence between the occurrences of a separator.
DeviceSplit(s, separator) ==
    LET cuts == SetToSortSeq({i \in DOMAIN s : s[i] = separator}, <)
        ends == <<0>> \o cuts \o <<Len(s) + 1>>
    IN  [i \in 1..Len(cuts) + 1 |-> SubSeq(s, ends[i] + 1, ends[i + 1] - 1)]

DeviceJoin(pieces, separator) ==
    FoldLeft(LAMBDA done, p : IF done = None THEN p ELSE done \o <<separator>> \o p, None, pieces)

DeviceExchange(s, i, with) == SubSeq(s, 1, i - 1) \o with \o SubSeq(s, i + 1, Len(s))

\* The number a field of digits stands for, None when it exceeds its width.
DeviceValue(field, limit) ==
    FoldLeft(LAMBDA v, d : IF v = None \/ v * 10 + DeviceDigit(d) > limit THEN None ELSE v * 10 + DeviceDigit(d),
             0, field)

\* The one spelling of a number: decimal digits, no leading zero.
DeviceCanonical(field, limit) ==
    IF DeviceIsNumber(field) /\ (Len(field) > 1 => field[1] # "0") THEN DeviceValue(field, limit) ELSE None

\* The texts one edit away: a symbol lost, doubled, or exchanged for or preceded by another.
DeviceEdits(field, damage) ==
    UNION {{DeviceExchange(field, p, with) :
              with \in {<<>>, <<field[p], field[p]>>} \cup {<<d>> : d \in damage}
                       \cup {<<d, field[p]>> : d \in damage}} : p \in DOMAIN field}

-----------------------------------------------------------------------------
(***************************************************************************)
(* What sysfs says of a partition and of its disk (linux_fs/sysfs_block):  *)
(* the attributes dev, partition, start and size, the uevent lines, the    *)
(* link below dev/block and the subsystem link, each parsed strictly, and  *)
(* the agreement required between them.                                    *)
(*                                                                         *)
(* The kernel's side is external: it prints the texts of a partition and   *)
(* of its disk.  A bounded number of edits may damage one of them.  Byte   *)
(* and work limits, which only refuse, are left out.                       *)
(***************************************************************************)

------------------------------------------------------------------------------
(***************************************************************************)
(* The kernel (external).                                                  *)
(***************************************************************************)
ShowDev(dev) == DeviceDecimal(dev[1]) \o <<":">> \o DeviceDecimal(dev[2]) \o <<"\n">>

ShowNumber(n) == DeviceDecimal(n) \o <<"\n">>

ShowUevent(o) ==
    <<<<"MAJOR", "=">> \o DeviceDecimal(o.dev[1]), <<"MINOR", "=">> \o DeviceDecimal(o.dev[2]),
      <<"DEVNAME", "=">> \o o.name>>
    \o (IF o.number = None
        THEN <<<<"DEVTYPE", "=", "disk">>>>
        ELSE <<<<"DEVTYPE", "=", "partition">>, <<"PARTN", "=">> \o DeviceDecimal(o.number),
               <<"PARTUUID", "=", o.uuid>>>>)
    \o (IF o.seq = None THEN <<>> ELSE <<<<"DISKSEQ", "=">> \o DeviceDecimal(o.seq)>>)

------------------------------------------------------------------------------
(***************************************************************************)
(* Numbers.                                                                *)
(***************************************************************************)
\* The body of an attribute, without its newline; None when it has none or is empty.
terminated_body(bytes) ==
    IF Len(bytes) > 1 /\ Last(bytes) = "\n" THEN SubSeq(bytes, 1, Len(bytes) - 1) ELSE None

canonical_u32(bytes, positive) ==
    LET value == DeviceCanonical(bytes, DeviceMaxU32) IN IF positive /\ value = 0 THEN None ELSE value

canonical_positive_u64(bytes) ==
    LET value == DeviceCanonical(bytes, DeviceMaxU64) IN IF value = 0 THEN None ELSE value

parse_sysfs_dev(bytes) ==
    LET body == terminated_body(bytes)
        parts == DeviceSplit(body, ":")
        numbers == [i \in DOMAIN parts |-> canonical_u32(parts[i], FALSE)]
    IN  IF body = None THEN None
        ELSE IF Len(parts) # 2 \/ None \in ToSet(numbers) THEN None ELSE numbers

parse_sysfs_partition_number(bytes) ==
    IF terminated_body(bytes) = None THEN None ELSE canonical_u32(terminated_body(bytes), TRUE)

\* `start` may be zero, `size` may not.
parse_attribute(bytes, positive) ==
    LET body == terminated_body(bytes)
    IN  IF body = None THEN None
        ELSE IF positive THEN canonical_positive_u64(body) ELSE DeviceCanonical(body, DeviceMaxU64)

(***************************************************************************)
(* uevent lines.                                                           *)
(***************************************************************************)
Keys == {"MAJOR", "MINOR", "DEVNAME", "DEVTYPE", "PARTN", "PARTUUID", "DISKSEQ"}

\* The fields, by key.  A key is followed by the first `=`; no key twice.
parse_sysfs_uevent(lines) ==
    LET separator(line) == {i \in DOMAIN line : line[i] = "="}
        keyed(line) == separator(line) # {} /\ Min(separator(line)) = 2 /\ line[1] \in Keys
        keys == [i \in DOMAIN lines |-> lines[i][1]]
    IN  IF \/ lines = <<>> \/ Len(lines) > MaxLines
           \/ \E i \in DOMAIN lines : ~keyed(lines[i])
        THEN None
        ELSE IF Cardinality(ToSet(keys)) # Len(lines) THEN None
        ELSE [key \in ToSet(keys) |->
                LET at == CHOOSE i \in DOMAIN lines : keys[i] = key
                IN  SubSeq(lines[at], 3, Len(lines[at]))]

required(event, key) == IF key \in DOMAIN event THEN event[key] ELSE None

event_device_number(event) ==
    LET value(key) == IF required(event, key) = None THEN None ELSE canonical_u32(event[key], FALSE)
    IN  IF value("MAJOR") = None \/ value("MINOR") = None THEN None
        ELSE <<value("MAJOR"), value("MINOR")>>

\* A sequence that is there must be a positive number; FALSE for a malformed one.
optional_disk_sequence(event) ==
    IF "DISKSEQ" \notin DOMAIN event THEN [ok |-> TRUE, seq |-> None]
    ELSE LET seq == canonical_positive_u64(event["DISKSEQ"]) IN [ok |-> seq # None, seq |-> seq]

Uuids == {"uuid1", "uuid2"}

canonical_partition_uuid(bytes) == IF Len(bytes) = 1 /\ bytes[1] \in Uuids THEN bytes[1] ELSE None

parse_sysfs_block_device_name(bytes) ==
    LET components == DeviceSplit(bytes, "/")
    IN  IF bytes # <<>> /\ Len(components) <= MaxComponents
           /\ ToSet(components) \cap {<<>>, <<".">>, <<".", ".">>} = {}
        THEN bytes ELSE None

(***************************************************************************)
(* Identities.                                                             *)
(***************************************************************************)
\* The number both the attribute and the event give.
partition_number(event, number) ==
    LET partn == IF required(event, "PARTN") = None THEN None ELSE canonical_u32(event["PARTN"], TRUE)
    IN  IF partn = number THEN number ELSE None

parse_sysfs_partition_identity(dev_bytes, partition_bytes, uevent_lines) ==
    LET device == parse_sysfs_dev(dev_bytes)
        number == parse_sysfs_partition_number(partition_bytes)
        event == parse_sysfs_uevent(uevent_lines)
        sequence == optional_disk_sequence(event)
        uuid == required(event, "PARTUUID")
        name == required(event, "DEVNAME")
    IN  IF device = None \/ number = None \/ event = None THEN None
        ELSE IF \/ required(event, "DEVTYPE") # <<"partition">>
                \/ event_device_number(event) # device
                \/ partition_number(event, number) = None
                \/ uuid = None \/ name = None \/ ~sequence.ok
        THEN None
        ELSE IF canonical_partition_uuid(uuid) = None \/ parse_sysfs_block_device_name(name) = None
        THEN None
        ELSE [device |-> device, number |-> number, uuid |-> uuid[1], seq |-> sequence.seq, name |-> name]

parse_sysfs_disk_identity(dev_bytes, uevent_lines) ==
    LET device == parse_sysfs_dev(dev_bytes)
        event == parse_sysfs_uevent(uevent_lines)
        sequence == optional_disk_sequence(event)
        name == required(event, "DEVNAME")
    IN  IF device = None \/ event = None THEN None
        ELSE IF \/ required(event, "DEVTYPE") # <<"disk">>
                \/ event_device_number(event) # device
                \/ {"PARTN", "PARTUUID"} \cap DOMAIN event # {}
                \/ name = None \/ ~sequence.ok
        THEN None
        ELSE IF parse_sysfs_block_device_name(name) = None THEN None
        ELSE [device |-> device, seq |-> sequence.seq, name |-> name]

require_matching_disk_sequence(partition, whole) == partition.seq = whole.seq

(***************************************************************************)
(* Links.                                                                  *)
(***************************************************************************)
\* The components below the root of sysfs, from a link in dev/block.
normalize_sysfs_dev_block_target(target) ==
    LET parts == DeviceSplit(target, "/")
        named1 == SelectSeq(parts, LAMBDA c : c # <<"..">>)
        ups == Len(parts) - Len(named1)
    IN  IF /\ target # <<>> /\ target[1] # "/"
           /\ Len(parts) <= MaxComponents
           /\ ToSet(parts) \cap {<<>>, <<".">>} = {}
           /\ ups = 2
           /\ \A i \in 1..ups : parts[i] = <<"..">>
           /\ Len(named1) >= 2 /\ named1[1] = <<"devices">>
        THEN named1 ELSE None

canonical_subsystem_name(name) == Len(name) = 1 /\ name[1] \in {"block", "nvme"}

parse_sysfs_subsystem_target(target) ==
    LET parts == DeviceSplit(target, "/")
        named1 == SelectSeq(parts, LAMBDA c : c # <<"..">>)
        ups == Len(parts) - Len(named1)
    IN  IF /\ target # <<>> /\ target[1] # "/"
           /\ Len(parts) <= MaxComponents
           /\ ToSet(parts) \cap {<<>>, <<".">>} = {}
           /\ \A i \in 1..ups : parts[i] = <<"..">>
           /\ named1 # <<>>
        THEN (IF canonical_subsystem_name(Last(named1)) THEN Last(named1)[1] ELSE None)
        ELSE None

------------------------------------------------------------------------------
BlockInit ==
    /\ part \in Partitions[subject]
    /\ disk \in Disks[subject]
    /\ \E link \in Links[subject], subsystem \in Subsystems[subject] :
          texts = [dev |-> ShowDev(part.dev), partition |-> ShowNumber(part.number),
                   start |-> ShowNumber(part.start), size |-> ShowNumber(part.size),
                   disk_dev |-> ShowDev(disk.dev), link |-> link, subsystem |-> subsystem,
                   uevent |-> ShowUevent(part), disk_uevent |-> ShowUevent(disk)]
    /\ device_edits = 0 /\ edited = None
    /\ device_todo = "link"
    /\ read = [link |-> None, subsystem |-> None, partition |-> None, disk |-> None,
               start |-> None, size |-> None]

Lined == {"uevent", "disk_uevent"}

DeviceEdit(text) ==
    /\ device_todo = "link"
    /\ device_edits < DeviceMaxEdits[subject]
    /\ device_edits' = device_edits + 1
    /\ edited \in {None, text} /\ edited' = text
    /\ IF text \in Lined
       THEN \E l \in DOMAIN texts[text] :
               \/ \E with \in {<<>>, <<<<>>>>, <<texts[text][l], texts[text][l]>>} :
                     texts' = [texts EXCEPT ![text] = DeviceExchange(@, l, with)]
               \/ \E with \in DeviceEdits(texts[text][l], DeviceDamage[subject]) : texts' = [texts EXCEPT ![text][l] = with]
       ELSE \E with \in DeviceEdits(texts[text], DeviceDamage[subject]) : texts' = [texts EXCEPT ![text] = with]
    /\ UNCHANGED <<part, disk, device_todo, read>>

\* One parse: its value is kept, or everything ends.
Parse(name, next, value) ==
    /\ device_todo = name
    /\ IF value = None
       THEN device_todo' = "refused" /\ UNCHANGED read
       ELSE device_todo' = next /\ read' = [read EXCEPT ![name] = value]
    /\ UNCHANGED <<part, disk, texts, device_edits, edited>>

parse_link == Parse("link", "subsystem", normalize_sysfs_dev_block_target(texts.link))

parse_subsystem == Parse("subsystem", "partition", parse_sysfs_subsystem_target(texts.subsystem))

parse_partition ==
    Parse("partition", "start", parse_sysfs_partition_identity(texts.dev, texts.partition, texts.uevent))

parse_start == Parse("start", "size", parse_attribute(texts.start, FALSE))

parse_size == Parse("size", "disk", parse_attribute(texts.size, TRUE))

parse_disk ==
    LET whole == parse_sysfs_disk_identity(texts.disk_dev, texts.disk_uevent)
    IN  Parse("disk", "read",
              IF whole = None THEN None
              ELSE IF /\ require_matching_disk_sequence(read.partition, whole)
                      /\ whole.device # read.partition.device
              THEN whole ELSE None)

BlockNext ==
    \/ \E text \in DOMAIN texts : DeviceEdit(text)
    \/ parse_link \/ parse_subsystem \/ parse_partition \/ parse_start \/ parse_size \/ parse_disk

------------------------------------------------------------------------------
Steps == <<"link", "subsystem", "partition", "start", "size", "disk", "read">>

\* Parses are made in one order, and only what was parsed is kept.
BlockTypeOK ==
    /\ device_todo \in ToSet(Steps) \cup {"refused"}
    /\ device_todo # "refused" =>
          LET now == CHOOSE i \in DOMAIN Steps : Steps[i] = device_todo
          IN  \A i \in 1..6 : (read[Steps[i]] # None) <=> i < now

\* Undamaged texts are read as the objects they were printed from, and refused
\* only when the two objects' own sequences differ (parse_sysfs_partition_identity,
\* parse_sysfs_disk_identity, require_matching_disk_sequence).
ObjectsAreRead == subject = "block" =>
    (edited = None =>
        /\ read.partition # None =>
              read.partition = [device |-> part.dev, number |-> part.number, uuid |-> part.uuid,
                                seq |-> part.seq, name |-> part.name]
        /\ read.start # None => read.start = part.start
        /\ read.size # None => read.size = part.size
        /\ read.disk # None => /\ read.disk = [device |-> disk.dev, seq |-> disk.seq, name |-> disk.name]
                               /\ part.seq = disk.seq
        /\ device_todo = "refused" => \/ read.link = None \/ read.subsystem = None
                                      \/ part.seq # disk.seq \/ part.dev = disk.dev
                                      \/ part.size = 0 /\ read.start # None)

\* No damage to a single text changes whose identity is read: the device
\* number and the partition number stand in two texts each, and a text that
\* disagrees with the other is refused.
TwoWitnesses == subject = "blockedits" =>
    /\ read.partition # None => read.partition.device = part.dev /\ read.partition.number = part.number
    /\ read.disk # None => read.disk.device = disk.dev

\* Where a lookup of the link from dev/block leads: each `..` goes up one
\* directory, each name down one.
Resolved(target) ==
    FoldLeft(LAMBDA at, c : IF c = <<"..">> THEN (IF at = <<>> THEN <<>> ELSE Front(at)) ELSE Append(at, c),
             <<<<"dev">>, <<"block">>>>, DeviceSplit(target, "/"))

\* A link that is accepted, however it reads, leads where the components say
\* and nowhere outside the devices tree (normalize_sysfs_dev_block_target).
LinkLeadsThere == subject = "blockedits" =>
    (read.link # None =>
        /\ read.link = Resolved(texts.link)
        /\ Len(read.link) >= 2 /\ read.link[1] = <<"devices">>)

\* Every text has one spelling: printing again what was read gives the text.
OneSpelling == subject = "blockedits" =>
    /\ read.partition # None => /\ texts.dev = ShowDev(read.partition.device)
                                /\ texts.partition = ShowNumber(read.partition.number)
                                /\ ToSet(ShowUevent([dev |-> read.partition.device, name |-> read.partition.name,
                                        number |-> read.partition.number, uuid |-> read.partition.uuid,
                                        seq |-> read.partition.seq])) = ToSet(texts.uevent)
    /\ read.start # None => texts.start = ShowNumber(read.start)
    /\ read.size # None => texts.size = ShowNumber(read.size)

-----------------------------------------------------------------------------
(***************************************************************************)
(* The identity of a partition, captured from sysfs while disks come and   *)
(* go (linux_fs/sysfs_identity.rs, sysfs_identity/capture.rs and           *)
(* filesystem.rs).  A capture follows the link below dev/block, opens the  *)
(* chain of directories it names, reads the partition's attributes, finds  *)
(* the nearest block ancestor and reads that disk.  A preparation makes    *)
(* two captures that must agree, then looks everything up once more; a     *)
(* revalidation does the same and requires the prepared evidence.          *)
(*                                                                         *)
(* The parsers are those above; here a text is the value it stands         *)
(* for.  Attributes that never change during the life of a kernel object   *)
(* are read in one step.  An object that is gone can no longer be read     *)
(* through a retained descriptor.  Work limits and the deadline are left   *)
(* out: they only refuse.                                                  *)
(***************************************************************************)

Absent == 0

\* A partition as it is at this instant, and everything a capture says of it.
Truth(p) ==
    [disk |-> sys.disk, seq |-> sys.seq, part |-> sys.part[p], size |-> sys.size[p], uuid |-> sys.uuid[p]]

DeviceIdle == [todo |-> <<>>, kind |-> "idle", p |-> None, at |-> None, first |-> None, second |-> None,
               disk |-> None, part |-> None]

\* What a capture has read so far: nothing.
DeviceNothing == [lookup |-> None, disk |-> None, seq |-> None, part |-> None, size |-> None, uuid |-> None,
                  parent |-> None]

CaptureOnce ==
    <<"require_named", "pin_lookup", "rebind_lookup", "open_target_chain", "attributes", "size", "uevent",
      "ancestors", "parent", "parent_uevent", "parent_again", "require_named", "captured">>

Terminal ==
    <<"require_named", "terminal_lookup", "terminal_chain", "attributes", "size", "uevent", "ancestors", "parent",
      "parent_uevent", "parent_again", "require_terminal">>

Final == <<"require_named", "final_chain", "require_named", "final_chain", "done">>

\* Mutant: the names are rebound at the end, the attributes are not read again.
capture_twice_terse == CaptureOnce \o CaptureOnce \o <<"require_named", "terminal_lookup", "terminal_chain">> \o Final

capture_twice_device == CaptureOnce \o CaptureOnce \o Terminal \o Final

------------------------------------------------------------------------------
(***************************************************************************)
(* The kernel (external).                                                  *)
(***************************************************************************)
Fresh(s) == s.next

Note(s) ==
    [p \in SysfsPartitions[subject] |-> device_seen[p] \cup
        {[disk |-> s.disk, seq |-> s.seq, part |-> s.part[p], size |-> s.size[p], uuid |-> s.uuid[p]]}]

PartOf(s) == {<<s.disk, s.seq, s.part[p]>> : p \in SysfsPartitions[subject]}

Moved(s) ==
    /\ sys' = s
    /\ device_moves' = device_moves + 1
    /\ device_seen' = IF op.kind = "idle" THEN device_seen ELSE Note(s)
    /\ disks' = disks \cup PartOf(s)
    /\ UNCHANGED <<op, device_prepared, valid, told>>

CanMove == device_moves < DeviceMaxMoves[subject] /\ (op.kind # "idle" \/ \E p \in SysfsPartitions[subject] : device_prepared[p] # None)

\* The disk is unplugged and another, or the same, takes its numbers: every object is new.
Replug ==
    /\ CanMove
    /\ Moved([sys EXCEPT !.disk = Fresh(sys), !.next = @ + 1 + Cardinality(SysfsPartitions[subject]),
                         !.seq = IF @ = None THEN None ELSE @ + 1,
                         !.part = [p \in SysfsPartitions[subject] |-> Fresh(sys) + p]])

\* One partition is deleted and another made in its place.
Repartition(p) ==
    /\ CanMove /\ sys.disk # Absent
    /\ Moved([sys EXCEPT !.part[p] = Fresh(sys), !.next = @ + 1, !.uuid[p] = 3 - @])

Unplug ==
    /\ CanMove /\ sys.disk # Absent
    /\ Moved([sys EXCEPT !.disk = Absent, !.part = [p \in SysfsPartitions[subject] |-> Absent]])

\* A partition is resized where it is.
Resize(p) ==
    /\ CanMove /\ sys.part[p] # Absent
    /\ \E size \in Sizes[subject] \ {sys.size[p]} : Moved([sys EXCEPT !.size[p] = size])

\* Another medium in the same drive; the code does not rely on the kernel
\* making its partitions anew.
MediaChange ==
    /\ CanMove /\ sys.disk # Absent /\ sys.seq # None
    /\ Moved([sys EXCEPT !.seq = @ + 1])

\* Another sysfs is mounted over /sys, or taken off again.
Overmount ==
    /\ CanMove
    /\ Moved([sys EXCEPT !.mount = 3 - @])

------------------------------------------------------------------------------
(***************************************************************************)
(* The operations.                                                         *)
(***************************************************************************)
Begin(kind, p) ==
    /\ op.kind = "idle"
    /\ op' = [DeviceIdle EXCEPT !.todo = capture_twice_device, !.kind = kind, !.p = p, !.at = DeviceNothing]
    /\ device_seen' = [q \in SysfsPartitions[subject] |-> {Truth(q)}]
    /\ UNCHANGED <<sys, device_moves, device_prepared, valid, disks, told>>

\* Preparing opens the root of sysfs anew.
prepare_device(p) ==
    /\ device_prepared[p] = None
    /\ sys.mount = 1
    /\ Begin("prepare", p)

revalidate_device(p) ==
    /\ device_prepared[p] # None /\ valid[p] = None
    /\ Begin("revalidate", p)

DeviceGo(o) ==
    /\ op' = [o EXCEPT !.todo = Tail(@)]
    /\ UNCHANGED <<sys, device_moves, device_prepared, valid, device_seen, disks, told>>

DeviceRefused == [DeviceIdle EXCEPT !.kind = "refused"]

DeviceRefuse ==
    /\ op' = DeviceRefused
    /\ device_seen' = [q \in SysfsPartitions[subject] |-> {}]
    /\ UNCHANGED <<sys, device_moves, device_prepared, valid, disks, told>>

DeviceAt(step) == op.todo # <<>> /\ op.todo[1] = step

\* Proceeds with o when the check holds, else the operation fails.
Check(ok, o) == IF ok THEN DeviceGo(o) ELSE DeviceRefuse

Live(o) == o.disk = sys.disk /\ o.part = sys.part[o.p] /\ sys.disk # Absent

\* /sys still names the retained root.
require_named ==
    /\ DeviceAt("require_named")
    /\ Check(sys.mount = 1, op)

pin_lookup ==
    /\ DeviceAt("pin_lookup")
    /\ Check(sys.part[op.p] # Absent, [op EXCEPT !.at.lookup = sys.part[op.p]])

rebind_lookup ==
    /\ DeviceAt("rebind_lookup")
    /\ Check(sys.part[op.p] = op.at.lookup, op)

\* The directories the link names, each opened below the one before it.
open_target_chain ==
    /\ DeviceAt("open_target_chain")
    /\ Check(sys.part[op.p] # Absent,
             [op EXCEPT !.disk = sys.disk, !.part = sys.part[op.p],
                        !.at.disk = sys.disk, !.at.part = sys.part[op.p]])

\* subsystem, dev, partition and start of the partition's own directory.
read_attributes ==
    /\ DeviceAt("attributes")
    /\ Check(Live(op), [op EXCEPT !.at.lookup = @])

read_size ==
    /\ DeviceAt("size")
    /\ Check(Live(op), [op EXCEPT !.at.size = sys.size[op.p]])

read_uevent ==
    /\ DeviceAt("uevent")
    /\ Check(Live(op), [op EXCEPT !.at.uuid = sys.uuid[op.p], !.at.seq = sys.seq])

\* Directories whose subsystem is `block`: disks and partitions.
Blocks == {"block", "partition"}

\* The place of the nearest block ancestor, Absent if there is none.
ParentOf(shape) ==
    LET blocks == {i \in DOMAIN shape : shape[i] \in Blocks} IN IF blocks = {} THEN Absent ELSE Max(blocks)

search_ancestors ==
    /\ DeviceAt("ancestors")
    /\ Check(Live(op) /\ ParentOf(sys.shape) # Absent, [op EXCEPT !.at.parent = ParentOf(sys.shape)])

\* The parent has no `partition` attribute, and its `dev` is another device's.
read_parent ==
    /\ DeviceAt("parent") \/ DeviceAt("parent_again")
    /\ Check(Live(op) /\ sys.shape[op.at.parent] = "block", op)

read_parent_uevent ==
    /\ DeviceAt("parent_uevent")
    /\ Check(Live(op) /\ sys.seq = op.at.seq, op)

\* The end of a capture: the first is kept, the second must agree with it and,
\* in a revalidation, with the prepared one.
captured ==
    /\ DeviceAt("captured")
    /\ IF op.first = None
       THEN DeviceGo([op EXCEPT !.first = op.at, !.at = DeviceNothing])
       ELSE IF op.at = op.first /\ (op.kind = "revalidate" => op.at = device_prepared[op.p])
       THEN /\ op' = [op EXCEPT !.second = op.at, !.at = DeviceNothing, !.todo = Tail(@)]
            /\ device_seen' = [q \in SysfsPartitions[subject] |-> {Truth(q)}]
            /\ UNCHANGED <<sys, device_moves, device_prepared, valid, disks, told>>
       ELSE DeviceRefuse

terminal_lookup ==
    /\ DeviceAt("terminal_lookup")
    /\ Check(sys.part[op.p] = op.second.lookup, [op EXCEPT !.at.lookup = sys.part[op.p]])

\* The chain is opened by name again; its directories must be the captured ones.
terminal_chain ==
    /\ DeviceAt("terminal_chain")
    /\ Check(sys.disk = op.second.disk /\ sys.part[op.p] = op.second.part,
             [op EXCEPT !.disk = sys.disk, !.part = sys.part[op.p],
                        !.at.disk = sys.disk, !.at.part = sys.part[op.p]])

\* Every attribute read again is the captured one.
require_terminal ==
    /\ DeviceAt("require_terminal")
    /\ Check(op.at = op.second, op)

final_chain ==
    /\ DeviceAt("final_chain")
    /\ Check(/\ sys.part[op.p] = op.second.lookup
             /\ sys.disk = op.second.disk /\ sys.part[op.p] = op.second.part, op)

finish ==
    /\ DeviceAt("done")
    /\ IF op.kind = "prepare"
       THEN device_prepared' = [device_prepared EXCEPT ![op.p] = op.second] /\ UNCHANGED valid
       ELSE valid' = [valid EXCEPT ![op.p] = op.second] /\ UNCHANGED device_prepared
    /\ op' = DeviceIdle
    /\ device_seen' = [q \in SysfsPartitions[subject] |-> {}]
    /\ UNCHANGED <<sys, device_moves, disks, told>>

SameParent(a, b) == a.disk = b.disk /\ a.seq = b.seq /\ a.parent = b.parent

has_same_revalidated_block_parent_snapshot(p, q) ==
    /\ op.kind = "idle" /\ told = None
    /\ p # q /\ valid[p] # None /\ valid[q] # None
    /\ SameParent(valid[p], valid[q])
    /\ told' = <<valid[p], valid[q]>>
    /\ UNCHANGED <<sys, device_moves, op, device_prepared, valid, device_seen, disks>>

Operation ==
    \/ \E p \in SysfsPartitions[subject] : prepare_device(p) \/ revalidate_device(p)
    \/ require_named \/ pin_lookup \/ rebind_lookup \/ open_target_chain
    \/ read_attributes \/ read_size \/ read_uevent \/ search_ancestors \/ read_parent \/ read_parent_uevent
    \/ captured \/ terminal_lookup \/ terminal_chain \/ require_terminal \/ final_chain \/ finish
    \/ \E p, q \in SysfsPartitions[subject] : has_same_revalidated_block_parent_snapshot(p, q)

Kernel ==
    \/ Replug \/ Unplug \/ MediaChange \/ Overmount
    \/ \E p \in SysfsPartitions[subject] : Repartition(p) \/ Resize(p)

IdentityInit ==
    /\ \E shape \in Shapes[subject], seq \in Sequences[subject] :
          sys = [mount |-> 1, disk |-> 1, seq |-> seq, part |-> [p \in SysfsPartitions[subject] |-> 1 + p],
                 size |-> [p \in SysfsPartitions[subject] |-> CHOOSE s \in Sizes[subject] : TRUE], uuid |-> [p \in SysfsPartitions[subject] |-> 1],
                 shape |-> shape, next |-> 2 + Cardinality(SysfsPartitions[subject])]
    /\ device_moves = 0
    /\ op = DeviceIdle
    /\ device_prepared = [p \in SysfsPartitions[subject] |-> None]
    /\ valid = [p \in SysfsPartitions[subject] |-> None]
    /\ device_seen = [p \in SysfsPartitions[subject] |-> {}]
    /\ disks = PartOf(sys)
    /\ told = None

IdentityNext == Operation \/ Kernel

------------------------------------------------------------------------------
IdentityTypeOK ==
    /\ device_moves \in 0..DeviceMaxMoves[subject]
    /\ op.kind \in {"idle", "prepare", "revalidate", "refused"}
    /\ op.todo = <<>> <=> op.kind \in {"idle", "refused"}
    /\ op.part # Absent /\ op.disk # Absent
    /\ \A p \in SysfsPartitions[subject] : valid[p] # None => device_prepared[p] # None

AsTruth(capture) ==
    [disk |-> capture.disk, seq |-> capture.seq, part |-> capture.part, size |-> capture.size, uuid |-> capture.uuid]

\* An identity is only handed out when it was the partition's whole identity
\* at one instant of the last check: the objects, the sequence, the size and
\* the UUID belong together, although each was read by itself while disks
\* were exchanged, media changed and partitions resized (prepare_from_root,
\* revalidate_with_operation).
IdentityWasTrue == subject = "identity" =>
    (DeviceAt("done") => AsTruth(op.second) \in device_seen[op.p])

\* A revalidated identity is the prepared one, and the disk it names is the
\* nearest ancestor that is a block device and no partition itself
\* (capture_once, require_capture_matches).
RevalidatedIsPrepared == subject = "identity" =>
    (\A p \in SysfsPartitions[subject] :
        /\ valid[p] # None => valid[p] = device_prepared[p]
        /\ device_prepared[p] # None => /\ sys.shape[device_prepared[p].parent] = "block"
                                        /\ \A i \in DOMAIN sys.shape : i > device_prepared[p].parent => sys.shape[i] \notin Blocks)

\* Two partitions are only said to have one parent when both have been part
\* of one disk object and medium, not one of a disk and the other of what
\* replaced it under the same number (has_same_revalidated_block_parent_snapshot).
OneDisk == subject = "pair" =>
    (told # None =>
        \E entry \in disks : /\ entry[3] = told[1].part
                             /\ <<entry[1], entry[2], told[2].part>> \in disks)

-----------------------------------------------------------------------------
(***************************************************************************)
(* The partition table a boot partition's role is read from                *)
(* (linux_fs/gpt_partition_role/parser.rs): a protective MBR, two headers  *)
(* and two entry arrays, read from a block image and accepted only when    *)
(* they say one thing.                                                     *)
(*                                                                         *)
(* A block holds one record.  A checksum is what it protects: a header     *)
(* carries `crc`, whether its own checksum is right, and the array its     *)
(* array checksum was computed from.  Sizes are scaled by the constants    *)
(* (the code's block is at least 512 bytes, its entry 128, its arrays 128  *)
(* to 4096 entries).  Read and work limits and the deadline only refuse    *)
(* and are left out.                                                       *)
(***************************************************************************)

Zero == "zero"

\* An unused entry: every byte is zero.
Unused == [type |-> Zero, uuid |-> Zero, first |-> 0, last |-> 0, reserved |-> FALSE]

IsUsed(entry) == entry.type # Zero

Slot(blocks, lba) == IF lba \in DOMAIN blocks THEN blocks[lba] ELSE None

EntryBlock(entries) == [kind |-> "entries", entries |-> entries]

\* The blocks of an image that hold a table: the protective record, the two
\* headers and the arrays (external: what a partitioning tool writes).
Header(lba, other, first, last, guid, at, array) ==
    [kind |-> "header", crc |-> TRUE, current |-> lba, alternate |-> other, first |-> first, last |-> last,
     guid |-> guid, entry_lba |-> at, count |-> Len(array), array |-> array]

ArrayBlocks(array) == Len(array) \div BlockEntries

Chunk(array, i) == EntryBlock(SubSeq(array, (i - 1) * BlockEntries + 1, i * BlockEntries))

\* The image of `total` blocks with these entries.
Format(total, array) ==
    LET n == ArrayBlocks(array)
        end == total - 1
    IN [lba \in 0..end |->
          CASE lba = 0 -> [kind |-> "pmbr", signed |-> TRUE, size |-> end, hybrid |-> FALSE]
            [] lba = 1 -> Header(1, end, n + 2, end - n - 1, "disk", 2, array)
            [] lba = end -> Header(end, 1, n + 2, end - n - 1, "disk", end - n, array)
            [] lba \in 2..(n + 1) -> Chunk(array, lba - 1)
            [] lba \in (end - n)..(end - 1) -> Chunk(array, lba - (end - n) + 1)
            [] OTHER -> [kind |-> "data"]]

------------------------------------------------------------------------------
(***************************************************************************)
(* The parser.                                                             *)
(***************************************************************************)
\* The first entry is the protective one, covers the image, and is alone.
validate_pmbr(blocks, total) ==
    LET pmbr == Slot(blocks, 0) IN
    pmbr.kind = "pmbr" /\ pmbr.signed /\ pmbr.size = total - 1 /\ ~pmbr.hybrid

parse_header(block) ==
    /\ block.kind = "header" /\ block.crc
    /\ block.guid # Zero
    /\ block.count \in MIN_GPT_ENTRIES..MAX_GPT_ENTRIES

\* Both headers are where the other says, and agree in everything else.
validate_header_pair(primary, backup, last_lba) ==
    /\ primary.current = 1 /\ primary.alternate = last_lba
    /\ backup.current = last_lba /\ backup.alternate = 1
    /\ primary.first = backup.first /\ primary.last = backup.last
    /\ primary.guid = backup.guid /\ primary.count = backup.count /\ primary.array = backup.array
    /\ primary.first <= primary.last

\* The arrays lie next to their headers, the usable space between them.
validate_metadata_layout(primary, backup, array_lbas, last_lba) ==
    /\ primary.entry_lba = 2
    /\ last_lba >= array_lbas /\ backup.entry_lba = last_lba - array_lbas
    /\ primary.first >= primary.entry_lba + array_lbas
    /\ primary.last < backup.entry_lba

\* The entries of the blocks from lba on; None where a block holds something else.
read_region(blocks, lba, array_lbas) ==
    LET region == [i \in 1..array_lbas |-> Slot(blocks, lba + i - 1)] IN
    IF \A i \in DOMAIN region : region[i] # None /\ region[i].kind = "entries"
    THEN FlattenSeq([i \in DOMAIN region |-> region[i].entries])
    ELSE None

\* One entry by itself.
EntryIsSound(entry, header) ==
    IF IsUsed(entry)
    THEN /\ entry.uuid # Zero /\ ~entry.reserved
         /\ entry.first <= entry.last
         /\ entry.first >= header.first /\ entry.last <= header.last
    ELSE entry = Unused

\* The used ranges in the order of their start, end and number.
Before(array, i, j) ==
    \/ array[i].first < array[j].first
    \/ array[i].first = array[j].first /\ array[i].last < array[j].last
    \/ array[i].first = array[j].first /\ array[i].last = array[j].last /\ i < j

UsedRanges(array) ==
    SetToSortSeq({i \in DOMAIN array : IsUsed(array[i])}, LAMBDA i, j : Before(array, i, j))

NeighboursOverlap(array) ==
    LET ranges == UsedRanges(array) IN
    \E k \in 1..(Len(ranges) - 1) : array[ranges[k + 1]].first <= array[ranges[k]].last

\* The entry of the expected number, with the expected UUID and role.
selects(entry, number, i, expected) == i = number /\ entry.uuid = expected.uuid /\ entry.type = expected.role

Repeats(array) ==
    \E i, j \in DOMAIN array : i # j /\ IsUsed(array[i]) /\ IsUsed(array[j]) /\ array[i].uuid = array[j].uuid

\* What the expected partition is in these entries; None when it is refused.
validate_entries(array, header, expected) ==
    LET found == {i \in DOMAIN array : IsUsed(array[i]) /\ selects(array[i], expected.number, i, expected)} IN
    IF /\ \A i \in DOMAIN array : EntryIsSound(array[i], header)
       /\ ~Repeats(array)
       /\ ~NeighboursOverlap(array)
       /\ found # {}
    THEN LET i == Min(found) IN
         [number |-> i, role |-> expected.role, uuid |-> array[i].uuid,
          start |-> array[i].first, size |-> array[i].last - array[i].first + 1]
    ELSE None

\* The whole table: blocks are those read from an image of `total` blocks.
authenticate(blocks, total, expected) ==
    LET primary == blocks[1]
        backup == blocks[total - 1]
        array_lbas == primary.count \div BlockEntries
        first == read_region(blocks, 2, array_lbas)
        second == read_region(blocks, backup.entry_lba, array_lbas)
    IN IF /\ total >= 6
          /\ validate_pmbr(blocks, total)
          /\ parse_header(primary) /\ parse_header(backup)
          /\ validate_header_pair(primary, backup, total - 1)
          /\ expected.number <= primary.count
          /\ primary.count % BlockEntries = 0
          /\ validate_metadata_layout(primary, backup, array_lbas, total - 1)
          /\ first # None /\ second # None
          /\ first = primary.array /\ second = backup.array
          /\ first = second
       THEN validate_entries(first, primary, expected)
       ELSE None

-----------------------------------------------------------------------------
(***************************************************************************)
(* The role of a boot partition, authenticated on the live disk            *)
(* (linux_fs/gpt_partition_device, gpt_partition_role/stable.rs and        *)
(* mount_namespace/attachment/gpt_device.rs).  The disk's node is opened   *)
(* by the name sysfs gave it below an authenticated devtmpfs, its table is *)
(* read twice through that descriptor, and node and geometry are observed  *)
(* before, between and after.  Meanwhile a partitioning tool may write     *)
(* blocks, the disk may be resized and the name may lead to another disk.  *)
(*                                                                         *)
(* The table is that above; a block is read in one step, an array in       *)
(* one step.  An observation (one fstat, one fcntl, two ioctls) is one     *)
(* step.  The deadline only refuses and is left out.                       *)
(***************************************************************************)
\* disk: the image behind the node that was named first
\* seen: every image of the disk since the first pass began

Total(image) == Cardinality(DOMAIN image)

GptIdle == [todo |-> <<>>, state |-> "idle", wanted |-> None, attached |-> None, opening |-> None,
         blocks |-> <<>>, first |-> None, evidence |-> None]

Pass == <<"pmbr", "primary", "backup", "first_array", "second_array">>

Protocol == <<"devtmpfs", "retain", "observe">> \o Pass \o <<"keep", "rebind", "observe">> \o Pass \o
    <<"compare", "observe", "reconcile", "rebind", "bind">>

authenticate_devtmpfs_gpt_partition_device(wanted, attached) ==
    /\ op.state = "idle"
    /\ op' = [GptIdle EXCEPT !.todo = Protocol, !.state = "runs", !.wanted = wanted, !.attached = attached]
    /\ UNCHANGED <<disk, device_edits, device_moves, named, device_seen, names>>

GptAt(step) == op.state = "runs" /\ op.todo[1] = step

GptGo(o) ==
    /\ op' = [o EXCEPT !.todo = Tail(@)]
    /\ UNCHANGED <<disk, device_edits, device_moves, named, device_seen, names>>

GptRefuse ==
    /\ op' = [GptIdle EXCEPT !.state = "refused", !.wanted = op.wanted, !.attached = op.attached]
    /\ device_seen' = {} /\ names' = {}
    /\ UNCHANGED <<disk, device_edits, device_moves, named>>

GptCheck(ok, o) == IF ok THEN GptGo(o) ELSE GptRefuse

\* The retained directory is the root of the devtmpfs mount the policy is about.
authenticate_devtmpfs ==
    /\ GptAt("devtmpfs")
    /\ GptCheck(op.attached.magic = "tmpfs" /\ op.attached.mount = op.attached.policy, op)

\* Node, device number and capacity behind a descriptor.
Observation(node) == [node |-> node, rdev |-> node.rdev, bytes |-> IF node.disk = 1 THEN Total(disk) ELSE node.total]

\* Node and geometry are those of the disk sysfs named, and hold the partition.
preflight_observation(observed, wanted) ==
    /\ observed.rdev = wanted.rdev
    /\ wanted.size > 0 /\ wanted.start % SECTORS = 0 /\ wanted.size % SECTORS = 0
    /\ wanted.start + wanted.size <= observed.bytes * SECTORS

retain_gpt_parent_block_device ==
    /\ GptAt("retain")
    /\ GptCheck(named.mount = op.attached.mount /\ preflight_observation(Observation(named), op.wanted),
             [op EXCEPT !.opening = Observation(named)])

rebind_same_name ==
    /\ GptAt("rebind")
    /\ GptCheck(named.mount = op.attached.mount /\ Observation(named) = op.opening, op)

\* The same descriptor still shows the same disk.
observe_until ==
    /\ GptAt("observe")
    /\ IF Observation(op.opening.node) = op.opening
       THEN /\ op' = [op EXCEPT !.todo = Tail(@), !.blocks = <<>>]
            /\ device_seen' = IF op.first = None THEN {disk} ELSE device_seen
            /\ names' = {named}
            /\ UNCHANGED <<disk, device_edits, device_moves, named>>
       ELSE GptRefuse

\* The blocks of the retained disk; what the parser rejects early is rejected
\* at the end of the pass here.
Has(lba) == lba \in DOMAIN disk

Take(lbas) ==
    LET there == {lba \in lbas : Has(lba)} IN
    GptCheck(there = lbas,
          [op EXCEPT !.blocks = [lba \in DOMAIN @ \cup lbas |-> IF lba \in lbas THEN disk[lba] ELSE @[lba]]])

read_pmbr ==
    /\ GptAt("pmbr")
    /\ op' = [op EXCEPT !.todo = Tail(@), !.blocks = [lba \in {0} |-> disk[0]]]
    /\ UNCHANGED <<disk, device_edits, device_moves, named, device_seen, names>>

read_primary == GptAt("primary") /\ Take({1})

read_backup == GptAt("backup") /\ Take({op.opening.bytes - 1})

ArrayAt(header) ==
    IF header.kind = "header" THEN header.entry_lba..(header.entry_lba + header.count \div BlockEntries - 1) ELSE {}

read_first_array == GptAt("first_array") /\ Take(ArrayAt(op.blocks[1]))

read_second_array == GptAt("second_array") /\ Take(ArrayAt(op.blocks[op.opening.bytes - 1]))

\* What one pass found; None when the table is refused.
Result == authenticate(op.blocks, op.opening.bytes, op.wanted)

end_first_pass ==
    /\ GptAt("keep")
    /\ GptCheck(Result # None, [op EXCEPT !.first = op.blocks])

\* The complete blocks of both passes are the same (require_exact_match).
SamePass(first, second) == first = second

end_second_pass ==
    /\ GptAt("compare")
    /\ GptCheck(Result # None /\ SamePass(op.first, op.blocks), [op EXCEPT !.evidence = Result])

\* The partition of the table is the partition of sysfs, in bytes.
reconcile_observations ==
    /\ GptAt("reconcile")
    /\ GptCheck(/\ op.evidence.number = op.wanted.number /\ op.evidence.uuid = op.wanted.uuid
                /\ op.evidence.start * SECTORS = op.wanted.start
                /\ op.evidence.size * SECTORS = op.wanted.size
                /\ op.evidence.start + op.evidence.size <= op.opening.bytes, op)

bind_authenticated_evidence ==
    /\ GptAt("bind")
    /\ op' = [op EXCEPT !.state = "done", !.todo = <<>>, !.blocks = op.first]
    /\ UNCHANGED <<disk, device_edits, device_moves, named, device_seen, names>>

------------------------------------------------------------------------------
Changed(image, where) ==
    /\ disk' = image
    /\ named' = where
    /\ device_seen' = IF device_seen = {} THEN {} ELSE device_seen \cup {image}
    /\ names' = IF names = {} THEN {} ELSE names \cup {where}

GptEdit ==
    /\ op.state = "idle" /\ device_edits < MaxGptEdits[subject]
    /\ \E image \in GptEdits(disk) : disk' = image
    /\ device_edits' = device_edits + 1
    /\ UNCHANGED <<device_moves, named, op, device_seen, names>>

GptCanMove == op.state = "runs" /\ op.opening # None /\ device_moves < MaxGptMoves[subject]

\* A tool writes one block.
Write ==
    /\ GptCanMove
    /\ \E write \in Writes(disk) : disk[write.lba] # write.block /\ Changed([disk EXCEPT ![write.lba] = write.block], named)
    /\ device_moves' = device_moves + 1
    /\ UNCHANGED <<device_edits, op>>

\* The disk grows by one block.
GptResize ==
    /\ GptCanMove
    /\ Changed([lba \in 0..Total(disk) |-> IF lba \in DOMAIN disk THEN disk[lba] ELSE [kind |-> "data"]], named)
    /\ device_moves' = device_moves + 1
    /\ UNCHANGED <<device_edits, op>>

\* The name leads to another disk of the same number and size, or back.
Rename ==
    /\ GptCanMove
    /\ Changed(disk, [named EXCEPT !.disk = 3 - @, !.total = Total(disk)])
    /\ device_moves' = device_moves + 1
    /\ UNCHANGED <<device_edits, op>>

GptInit ==
    /\ disk \in Images[subject]
    /\ device_edits = 0 /\ device_moves = 0
    /\ named = [disk |-> 1, rdev |-> 1, mount |-> 1, total |-> Total(disk)]
    /\ op = GptIdle
    /\ device_seen = {} /\ names = {}

GptNext ==
    \/ \E wanted \in Expected[subject], attached \in Attachments[subject] : authenticate_devtmpfs_gpt_partition_device(wanted, attached)
    \/ authenticate_devtmpfs \/ retain_gpt_parent_block_device \/ rebind_same_name \/ observe_until
    \/ read_pmbr \/ read_primary \/ read_backup \/ read_first_array \/ read_second_array
    \/ end_first_pass \/ end_second_pass \/ reconcile_observations \/ bind_authenticated_evidence
    \/ GptEdit \/ Write \/ GptResize \/ Rename

------------------------------------------------------------------------------
GptTypeOK ==
    /\ device_edits \in 0..MaxGptEdits[subject] /\ device_moves \in 0..MaxGptMoves[subject]
    /\ op.state \in {"idle", "runs", "refused", "done"}
    /\ op.state = "runs" <=> op.todo # <<>>
    /\ op.state = "done" => op.evidence # None
    /\ op.evidence # None => op.evidence.number = op.wanted.number /\ op.evidence.role \in Roles

Done == op.state = "done"

\* The partitions a reader sees that trusts the header at this block.
View(blocks, lba) ==
    LET header == blocks[lba]
        array == read_region(blocks, header.entry_lba, header.count \div BlockEntries)
    IN [i \in DOMAIN array |-> IF array[i].first \in header.first..header.last THEN array[i] ELSE Unused]

\* An accepted table says the same to a firmware that reads the primary
\* header and to one that reads the backup, in every partition and not only
\* in the expected one (authenticate_with_operation).
BothCopiesSayTheSame == subject = "gptedits" =>
    (Done => View(op.blocks, 1) = View(op.blocks, op.opening.bytes - 1))

\* The accepted partition owns its blocks: no other partition and no part of
\* the table itself lies in them, and no other partition has its UUID, so
\* what is published to it reaches nothing else (validate_entries).
PartitionOwnsItsBlocks == subject = "gptedits" =>
    (Done =>
        LET array == op.blocks[1].array
            mine == op.evidence.start..(op.evidence.start + op.evidence.size - 1)
        IN /\ mine \cap DOMAIN op.blocks = {}
           /\ \A i \in DOMAIN array : IsUsed(array[i]) /\ i # op.evidence.number =>
                 array[i].first..array[i].last \cap mine = {} /\ array[i].uuid # op.evidence.uuid)

\* A table as a tool writes it is accepted when it holds the expected
\* partition where sysfs says it is: nothing but a damaged or a changing
\* table, another devtmpfs or another geometry makes the check fail.
WrittenTablesAreRead == subject = "gpt" =>
    (op.state = "refused" /\ device_edits = 0 /\ device_moves = 0 /\ op.attached.mount = op.attached.policy /\ op.wanted.rdev = 1 =>
        \/ op.attached.magic # "tmpfs" \/ op.attached.mount # named.mount
        \/ op.wanted.number \notin DOMAIN disk[1].array
        \/ LET entry == disk[1].array[op.wanted.number] IN
           \/ ~IsUsed(entry) \/ entry.type # op.wanted.role \/ entry.uuid # op.wanted.uuid
           \/ entry.first * SECTORS # op.wanted.start
           \/ (entry.last - entry.first + 1) * SECTORS # op.wanted.size)

\* The accepted blocks were all on the disk at one instant of the check, even
\* though a tool was writing another table block by block (two passes and
\* require_exact_match).
TableWasWhole == subject = "gptmoves" =>
    (Done => \E image \in device_seen : \A lba \in DOMAIN op.blocks : lba \in DOMAIN image /\ image[lba] = op.blocks[lba])

\* The disk that was read was the one its name led to after the second pass:
\* the name is looked up once more when everything has been read.
DiskIsNamed == subject = "gptmoves" =>
    (Done => \E where \in names : where = op.opening.node)

-----------------------------------------------------------------------------
(* A behaviour exercises one part, chosen at the start; the variables of the
   other parts are not in use. *)
DeviceInit ==
    /\ subject \in Subjects
    /\ \/ subject \in {"block", "blockedits"} /\ BlockInit
          /\ sys = None /\ device_moves = None /\ op = None /\ device_prepared = None /\ valid = None /\ device_seen = None /\ disks = None /\ told = None
          /\ named = None /\ names = None
       \/ subject \in {"identity", "pair"} /\ IdentityInit
          /\ part = None /\ disk = None /\ texts = None /\ device_edits = None /\ edited = None /\ device_todo = None /\ read = None /\ named = None
          /\ names = None
       \/ subject \in {"gpt", "gptedits", "gptmoves"} /\ GptInit
          /\ part = None /\ texts = None /\ edited = None /\ device_todo = None /\ read = None /\ sys = None /\ device_prepared = None /\ valid = None
          /\ disks = None /\ told = None

BlockOnly == subject \in {"block", "blockedits"} /\ UNCHANGED <<subject, sys, device_moves, op, device_prepared, valid, device_seen,
                                                                disks, told, named, names>>
IdentityOnly == subject \in {"identity", "pair"} /\ UNCHANGED <<subject, part, disk, texts, device_edits, edited, device_todo,
                                                                read, named, names>>
GptOnly == subject \in {"gpt", "gptedits", "gptmoves"} /\ UNCHANGED <<subject, part, texts, edited, device_todo, read,
                                                                      sys, device_prepared, valid, disks, told>>
DeviceNext ==
    \/ BlockOnly /\ BlockNext
    \/ IdentityOnly /\ IdentityNext
    \/ GptOnly /\ GptNext

DeviceTypeOK ==
    /\ subject \in {"block", "blockedits"} => BlockTypeOK
    /\ subject \in {"identity", "pair"} => IdentityTypeOK
    /\ subject \in {"gpt", "gptedits", "gptmoves"} => GptTypeOK

-----------------------------------------------------------------------------
(* The instance that TLC checks. *)
Part(dev, number, seq, size) ==
    [dev |-> dev, number |-> number, uuid |-> "uuid1", seq |-> seq, name |-> <<"d", "1">>,
     start |-> 0, size |-> size]

DeviceWhole(dev, seq) == [dev |-> dev, number |-> None, uuid |-> None, seq |-> seq, name |-> <<"d">>]

MCPartitions == {Part(dev, number, seq, size) :
                    dev \in {<<8, 0>>, <<8, 1>>, <<11, 10>>}, number \in {1, 12}, seq \in {None, 1, 2}, size \in {0, 20}}

MCDisks == {DeviceWhole(dev, seq) : dev \in {<<8, 0>>}, seq \in {None, 1, 2}}

Up == <<"..", "/">>

MCLinks ==
    {Up \o Up \o <<"devices", "/", "d">>, Up \o Up \o <<"devices">>, Up \o <<"devices", "/", "d">>,
     Up \o Up \o Up \o <<"devices", "/", "d">>, Up \o Up \o <<"devices", "/", "..", "/", "d">>,
     Up \o Up \o <<"class", "/", "d">>, Up \o Up \o <<"devices", "/", "p", "/", "d">>, <<"/", "devices">>, <<>>}

MCSubsystems == {Up \o <<"class", "/", "block">>, Up \o <<"bus", "/", "nvme">>, <<"..">>}

\* The objects of the run with damaged texts.
OnePartition == {Part(<<8, 1>>, 12, 2, 20)}
BlockOneDisk == {DeviceWhole(<<8, 0>>, 2)}
OneLink == {Up \o Up \o <<"devices", "/", "d">>}
OneSubsystem == {Up \o <<"class", "/", "block">>}

DeviceMCDamage == {"0", "1", "=", "/", ".."}
BlockPartitions == [block |-> MCPartitions, blockedits |-> OnePartition]
BlockDisks == [block |-> MCDisks, blockedits |-> BlockOneDisk]
BlockLinks == [block |-> MCLinks, blockedits |-> OneLink]
BlockSubsystems == [block |-> MCSubsystems, blockedits |-> OneSubsystem]
BlockDamage == [block |-> {}, blockedits |-> DeviceMCDamage]
BlockMaxEdits == [block |-> 0, blockedits |-> 2]

MCShapes == {<<"bus", "block">>, <<"block", "missing">>, <<"block", "partition">>, <<"bus", "missing">>}

OneShape == {<<"bus", "block">>}
IdentityPartitions == [identity |-> {1}, pair |-> {1, 2}]
IdentityShapes == [identity |-> MCShapes, pair |-> OneShape]
IdentitySequences == [identity |-> {1}, pair |-> {1, None}]
IdentitySizes == [identity |-> {1, 2}, pair |-> {1}]
IdentityMaxMoves == [identity |-> 3, pair |-> 2]

Entry(type, uuid, first, last) == [type |-> type, uuid |-> uuid, first |-> first, last |-> last, reserved |-> FALSE]

\* Two tables of a small disk: the second gives the partition another role and place.
One == <<Entry("esp", "u1", 3, 4), Entry("other", "u2", 5, 5)>>
Two == <<Entry("esp", "u1", 3, 4), Entry("other", "u3", 5, 5)>>
Long == <<Entry("esp", "u1", 4, 5), Unused, Entry("xbootldr", "u2", 6, 6), Unused>>

MCImages == {Format(9, One), Format(11, Long)}
OneImage == {Format(9, One)}

Want(number, uuid, role, start, size) ==
    [number |-> number, uuid |-> uuid, role |-> role, start |-> start, size |-> size, rdev |-> 1]

MCExpected ==
    {Want(1, "u1", "esp", 6, 4), Want(1, "u1", "esp", 8, 4), Want(3, "u2", "xbootldr", 12, 2), Want(2, "u1", "esp", 6, 4),
     [Want(1, "u1", "esp", 6, 4) EXCEPT !.rdev = 2], Want(1, "u1", "esp", 3, 2)}

OneExpected == {Want(1, "u1", "esp", 6, 4)}

MCAttachments ==
    {[magic |-> "tmpfs", mount |-> 1, policy |-> 1], [magic |-> "ext4", mount |-> 1, policy |-> 1],
     [magic |-> "tmpfs", mount |-> 1, policy |-> 2], [magic |-> "tmpfs", mount |-> 2, policy |-> 2]}

OneAttachment == {[magic |-> "tmpfs", mount |-> 1, policy |-> 1]}

\* A tool writes the other table, or the first again, block by block.
MCWrites(image) ==
    {[lba |-> lba, block |-> table[lba]] : lba \in {1, 2, 7, 8}, table \in {Format(9, One), Format(9, Two)}}

HeaderEdits(header) ==
    {[header EXCEPT !.first = @ + d] : d \in {-1, 1}} \cup {[header EXCEPT !.last = @ + d] : d \in {-1, 1}}
    \cup {[header EXCEPT !.entry_lba = @ + d] : d \in {-1, 1}}
    \cup {[header EXCEPT !.count = @ + d] : d \in {-2, -1, 2}}
    \cup {[header EXCEPT !.crc = FALSE], [header EXCEPT !.guid = Zero], [header EXCEPT !.guid = "else"],
          [header EXCEPT !.current = 2], [header EXCEPT !.alternate = 3]}

EntryEdits(entry) ==
    {[entry EXCEPT !.first = @ + d] : d \in {-1, 1}} \cup {[entry EXCEPT !.last = @ + d] : d \in {-1, 1}}
    \cup {[entry EXCEPT !.uuid = u] : u \in {"u1", "u2", Zero}}
    \cup {[entry EXCEPT !.type = t] : t \in {"esp", Zero}} \cup {[entry EXCEPT !.reserved = TRUE]}

\* The array of one copy or of both is another one, with its checksum.
WithArray(image, copies, i, entry) ==
    LET total == Total(image)
        heads == {c \in {1, total - 1} : c \in copies}
        Places(c) == image[c].entry_lba..(image[c].entry_lba + ArrayBlocks(image[c].array) - 1)
        new == [image[1].array EXCEPT ![i] = entry]
    IN [lba \in DOMAIN image |->
          IF lba \in heads THEN [image[lba] EXCEPT !.array = new]
          ELSE IF \E c \in heads : lba \in Places(c)
          THEN LET c == CHOOSE c \in heads : lba \in Places(c) IN Chunk(new, lba - image[c].entry_lba + 1)
          ELSE image[lba]]

MCEdits(image) ==
    LET end == Total(image) - 1 IN
    {[image EXCEPT ![0] = p] : p \in {[image[0] EXCEPT !.hybrid = TRUE], [image[0] EXCEPT !.size = @ - 1], [image[0] EXCEPT !.signed = FALSE]}}
    \cup UNION {{[image EXCEPT ![c] = h] : h \in HeaderEdits(image[c])} : c \in {1, end}}
    \cup {[image EXCEPT ![1] = [@ EXCEPT !.first = @ + d], ![end] = [@ EXCEPT !.first = @ + d]] : d \in {-1, 1}}
    \cup {[image EXCEPT ![1] = [@ EXCEPT !.last = @ + d], ![end] = [@ EXCEPT !.last = @ + d]] : d \in {-1, 1}}
    \cup UNION {{WithArray(image, copies, i, e) : e \in EntryEdits(image[1].array[i]), copies \in {{1}, {end}, {1, end}}} :
                  i \in DOMAIN image[1].array}
GptImages == [gpt |-> MCImages, gptedits |-> OneImage, gptmoves |-> OneImage]
GptExpected == [gpt |-> MCExpected, gptedits |-> OneExpected, gptmoves |-> OneExpected]
GptAttachments == [gpt |-> MCAttachments, gptedits |-> OneAttachment, gptmoves |-> OneAttachment]
GptMaxEdits == [gpt |-> 1, gptedits |-> 2, gptmoves |-> 0]
GptMaxMoves == [gpt |-> 0, gptedits |-> 0, gptmoves |-> 4]
=============================================================================
