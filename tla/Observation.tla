---------------------------- MODULE Observation -----------------------------
(***************************************************************************)
(* A run over what is read of the kernel about mounts and devices: a       *)
(* behaviour exercises one part of one of the modules.                     *)
(***************************************************************************)
EXTENDS MountTable, Devices

MountOwn == <<ns, root, first, second, moves, pivots, count, prepared, attached, seen, table, text, ended,
              edits, todo, entries, total, asked, selected, policy>>
DeviceOwn == <<part, disk, texts, device_edits, edited, device_todo, read, sys, device_moves, device_prepared,
               valid, device_seen, disks, told, named, names>>
vars == <<subject, op, MountOwn, DeviceOwn>>

MountAbsent ==
    /\ ns = None /\ root = None /\ first = None /\ second = None /\ moves = None /\ pivots = None
    /\ count = None /\ prepared = None /\ attached = None /\ seen = None /\ table = None /\ text = None
    /\ ended = None /\ edits = None /\ todo = None /\ entries = None /\ total = None /\ asked = None
    /\ selected = None /\ policy = None
DeviceAbsent ==
    /\ part = None /\ disk = None /\ texts = None /\ device_edits = None /\ edited = None
    /\ device_todo = None /\ read = None /\ sys = None /\ device_moves = None /\ device_prepared = None
    /\ valid = None /\ device_seen = None /\ disks = None /\ told = None /\ named = None /\ names = None

Init ==
    \/ MountInit /\ DeviceAbsent
    \/ DeviceInit /\ MountAbsent

Next ==
    \/ MountNext /\ UNCHANGED <<DeviceOwn>>
    \/ DeviceNext /\ UNCHANGED <<MountOwn>>

Spec == Init /\ [][Next]_vars

-----------------------------------------------------------------------------
(* Properties *)

\* What is read of mounts is the kernel's table as one lookup sees it, under the
\* anchor that was prepared, and has one reading (mount_context, mountinfo).
MountsWereCurrent ==
    /\ MountTypeOK
    /\ AnchorHolds /\ ChainWasCurrent /\ MountInfoOfAnchor
    /\ KernelTextIsRead /\ SelectionIsLookup /\ BootPolicyIsTheMounts /\ DevPolicyIsTheMounts /\ OneReading

\* The identity and the partition table that are accepted were a partition's own
\* at one instant, read from texts with one spelling and from two copies that
\* agree (the sysfs and GPT readers).
DevicesWereTrue ==
    /\ DeviceTypeOK
    /\ ObjectsAreRead /\ LinkLeadsThere /\ TwoWitnesses /\ OneSpelling
    /\ IdentityWasTrue /\ RevalidatedIsPrepared /\ OneDisk
    /\ WrittenTablesAreRead /\ BothCopiesSayTheSame /\ PartitionOwnsItsBlocks /\ TableWasWhole /\ DiskIsNamed
=============================================================================
