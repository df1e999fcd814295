-------------------------- MODULE TransitionSteps ---------------------------
(***************************************************************************)
(* The stateful transition of install, remove and activate, step by step,  *)
(* for every set of states.  TransitionInv says where the trees of the     *)
(* candidate and of the previous state are before each step, forward and   *)
(* in recovery; every step keeps it, with an error, a kill or a power      *)
(* failure anywhere.                                                       *)
(***************************************************************************)
EXTENDS StateTransitions, TLAPS

Namespace ==
    [live : States \cup {Empty}, staging : Wrapper, slot : [States -> Wrapper \cup {None}],
     displaced : SUBSET States, spare : [States -> Int], quarantine : SUBSET States]

Failures == {"cleanup", "preserve", "invalidate", "boot", "restore", "reverse"}
Transition ==
    [step : Steps, origin : {"Fresh", "Archived", None}, cand : States \cup {None}, prev : States \cup {Empty, None},
     slot : {"none", "reused", "created"}, archived : BOOLEAN, cleanup : BOOLEAN, triggers : BOOLEAN, booted : BOOLEAN,
     swapped : BOOLEAN, retried : BOOLEAN, blocked : BOOLEAN, failures : SUBSET Failures]

Wrap(usr, marker) == [usr |-> usr, marker |-> marker]
Slotted(d, s) == d.slot[s] # None /\ d.slot[s].usr = s
Held(d, s) == d.live = s \/ d.staging.usr = s \/ s \in d.quarantine \/ Slotted(d, s)

(* A namespace in which every tree has one place: a slot holds the tree of the
   state it is named after or none, and a parked wrapper has no name. *)
OnePlace(d) ==
    /\ \A s \in States : d.slot[s] # None => d.slot[s].usr \in {s, None}
    /\ \A s \in d.displaced : d.slot[s] = None
    /\ \A s \in States :
         /\ d.live = s => d.staging.usr # s /\ s \notin d.quarantine /\ ~Slotted(d, s)
         /\ d.staging.usr = s => s \notin d.quarantine /\ ~Slotted(d, s)
         /\ s \in d.quarantine => ~Slotted(d, s)

(* The database knows what the namespace uses, and nothing old is lost. *)
Known(d) ==
    /\ d.live \in rows \cup {Empty}
    /\ \A s \in States : d.slot[s] # None => s \in rows
    /\ \A s \in rows \ New : Held(d, s)

NamespaceOK(d) == d \in Namespace /\ OnePlace(d) /\ Known(d)

(* The renames. *)
Exchanging(d) == [d EXCEPT !.live = d.staging.usr, !.staging.usr = d.live]
Staging(d, c) == [d EXCEPT !.staging = d.slot[c], !.slot[c] = d.staging]
Rearchiving(d, c) == [d EXCEPT !.slot[c] = d.staging, !.staging = d.slot[c]]
Moving(d, owner) == [d EXCEPT !.staging.usr = None, !.slot[owner].usr = owner]
MovingBack(d, owner) == [d EXCEPT !.slot[owner].usr = None, !.staging.usr = owner]
Quarantining(d, c) == [d EXCEPT !.quarantine = @ \cup {c}, !.staging.usr = None]
Filling(d, c) == [d EXCEPT !.staging.usr = c]
Parking(d, owner) == [d EXCEPT !.slot[owner] = None, !.displaced = @ \cup {owner}]

-----------------------------------------------------------------------------
(* Where the two trees are. *)
IsNew == t.origin = "Fresh"
Waits == ns.live = t.prev /\ ns.staging.usr = t.cand
Shelved == ns.live = t.prev /\ ns.staging = Bare /\ ns.slot[t.cand] = Wrap(t.cand, t.cand)
Over == ns.live = t.cand /\ ns.staging = Wrap(t.prev, None)
InPlace ==
    /\ ns.live = t.cand
    /\ t.prev = Empty => ns.staging = Wrap(Empty, None)
    /\ t.prev # Empty => ns.staging = Bare /\ Slotted(ns, t.prev)
Isolated == Quarantines /\ ns.live = t.prev /\ t.cand \in ns.quarantine /\ ns.staging = Bare

(* Where the wrapper that an archived candidate left is, and the marker. *)
Marked == ns.staging.marker = t.cand /\ ns.slot[t.cand] = Bare
Lent == ns.staging.marker = None /\ ns.slot[t.cand] = Wrap(None, t.cand)
GivenUp == ns.staging.marker = None /\ ns.slot[t.cand] = None /\ t.cand \in ns.displaced
LentIfOld == ~IsNew => Lent
SettledIfOld == ~IsNew => Lent \/ GivenUp

(* Whether a slot is left under the name of the previous state. *)
NoSlot == t.prev # Empty /\ ~t.blocked => ns.slot[t.prev] = None
NoSlotLeft == t.failures = {} => NoSlot
Plain == ~t.archived /\ ~t.cleanup /\ ~t.triggers
Archiving == Over /\ LentIfOld /\ t.prev # Empty /\ ~t.archived
Finishing == InPlace /\ ~t.cleanup /\ (t.archived <=> t.prev # Empty)
Restoring == SettledIfOld /\ t.prev # Empty /\ t.archived

PreviousIsBack ==
    /\ ns.live = t.prev /\ ns.staging = Bare /\ disk = {ns} /\ NoSlot
    /\ IsNew => t.cand \in ns.quarantine /\ t.cand \notin rows
    /\ ~IsNew /\ t.triggers => t.cand \in ns.quarantine /\ ns.slot[t.cand] = None
    /\ ~IsNew /\ ~t.triggers => ns.slot[t.cand] = Wrap(t.cand, t.cand)

(* What holds before each step of a transition, forward and back. *)
Table ==
    /\ t.step = "add" => IsNew /\ Waits /\ Plain /\ NoSlot
    /\ t.step = "identity" => (IsNew => Waits) /\ (~IsNew => Shelved) /\ Plain /\ NoSlot
    /\ t.step = "prepare" => IsNew /\ Waits /\ Plain /\ NoSlot
    /\ t.step = "stage" => ~IsNew /\ Shelved /\ Plain /\ NoSlot
    /\ t.step = "stage_marker" => ~IsNew /\ Waits /\ Marked /\ Plain /\ NoSlot
    /\ t.step \in {"stage_sync", "exchange"} => Waits /\ LentIfOld /\ Plain /\ NoSlot
    /\ t.step \in {"exchange_sync", "triggers"} => Over /\ LentIfOld /\ Plain /\ NoSlot
    /\ t.step = "archive" => Archiving /\ ~t.cleanup /\ NoSlot
    /\ t.step = "slot_publish" =>
          /\ Archiving /\ ~t.cleanup /\ t.slot # "none" /\ ns.slot[t.prev] = None
          /\ t.slot = "created" => t.prev \notin ns.displaced
    /\ t.step \in {"slot_sync", "move"} => Archiving /\ ~t.cleanup /\ t.slot # "none" /\ ns.slot[t.prev] # None
    /\ t.step = "slot_abort" => Archiving /\ t.cleanup /\ t.slot # "none"
    /\ t.step = "abort_sync" => Archiving /\ t.cleanup /\ NoSlot
    /\ t.step = "cleanup" => Archiving /\ (t.slot = "none" => NoSlot)
    /\ t.step = "cleanup_sync" => Archiving /\ NoSlot
    /\ t.step = "move_sync" => Finishing /\ LentIfOld /\ t.prev # Empty
    /\ t.step = "boot" => Finishing /\ LentIfOld /\ disk = {ns}
    /\ t.step = "retire" => ~IsNew /\ Finishing /\ LentIfOld
    /\ t.step = "retire_sync" => ~IsNew /\ Finishing /\ GivenUp
    /\ t.step = "committed" => Finishing /\ (~IsNew => GivenUp) /\ disk = {ns}
    /\ t.step = "restore" => Restoring /\ InPlace
    /\ t.step \in {"restore_sync", "unslot"} => Restoring /\ Over
    /\ t.step = "unslot_sync" => Restoring /\ Over /\ NoSlot
    /\ t.step = "reverse" => Over /\ SettledIfOld /\ NoSlotLeft
    /\ t.step = "reverse_sync" => Waits /\ SettledIfOld /\ NoSlotLeft
    /\ t.step = "preserve" => NoSlotLeft /\ (Waits \/ Isolated) /\ (~IsNew => Marked \/ Lent \/ GivenUp)
    /\ t.step = "quarantine_sync" => Isolated /\ SettledIfOld /\ NoSlotLeft
    /\ t.step = "retire_failed" => ~IsNew /\ Isolated /\ SettledIfOld /\ NoSlotLeft
    /\ t.step = "retire_failed_sync" => ~IsNew /\ Isolated /\ GivenUp /\ NoSlotLeft
    /\ t.step = "invalidate" => IsNew /\ Isolated /\ NoSlotLeft
    /\ t.step = "unpark_sync" => ~Quarantines /\ Waits /\ Lent /\ NoSlotLeft
    /\ t.step = "marker_back" => ~Quarantines /\ Waits /\ (Marked \/ Lent) /\ NoSlotLeft
    /\ t.step = "rearchive" => ~Quarantines /\ Waits /\ Marked /\ NoSlotLeft
    /\ t.step = "rearchive_sync" => ~Quarantines /\ Shelved /\ NoSlotLeft
    /\ t.step = "repair" => (t.failures = {} => PreviousIsBack)
    /\ t.step = "triggers" => disk = {ns}

HeldAll(s) == \A d \in disk : Held(d, s)

Parties ==
    /\ t.step # "idle" /\ t.origin \in {"Fresh", "Archived"} /\ t.cand \in States /\ t.prev \in rows \cup {Empty}
    /\ t.cand # t.prev
    /\ IsNew => t.cand \in New /\ ns.slot[t.cand] = None
    /\ ~IsNew => t.prev # Empty
    /\ Quarantines => ns.staging.marker = None
    /\ t.step \notin {"add", "repair"} => t.cand \in rows
    /\ t.prev # Empty => HeldAll(t.prev)
    /\ t.step \notin {"add", "identity"} => HeldAll(t.cand)

Running ==
    /\ Parties /\ Table
    /\ ~t.booted /\ t.failures = {} => boot = last.boot
    /\ last.result = "none"

Safe ==
    /\ rows \subseteq States /\ ns \in disk
    /\ \A d \in disk : NamespaceOK(d)
    /\ ns.live # Empty => HeldAll(ns.live)

TransitionInv == Safe /\ t \in Transition /\ (t # Idle => Running) /\ EndIsWhole
IInv == subject = "transition" => TransitionInv

-----------------------------------------------------------------------------
(* Wrappers are told apart by the tree they hold and by their marker. *)
LEMMA Wraps ==
  /\ \A usr \in States \cup {Empty, None}, marker \in States \cup {None} :
       Wrap(usr, marker) \in Wrapper /\ Wrap(usr, marker).usr = usr /\ Wrap(usr, marker).marker = marker
  /\ Bare = Wrap(None, None) /\ Bare \in Wrapper /\ Bare.usr = None /\ Bare.marker = None
  /\ None \notin Wrapper /\ None \notin States /\ Empty \notin States /\ None # Empty
BY Zenon, NamesAssumption DEF Wrap, Wrapper, Bare

(* A wrapper is its tree and its marker. *)
LEMMA SomeWrapper ==
  ASSUME NEW w \in Wrapper
  PROVE  /\ w = Wrap(w.usr, w.marker) /\ w.usr \in States \cup {Empty, None} /\ w.marker \in States \cup {None}
BY Zenon DEF Wrapper, Wrap

(* What a rename must show: it puts no tree in two places and loses none. *)
LEMMA StaysOK ==
  ASSUME NEW d, NamespaceOK(d), NEW m, m \in Namespace, OnePlace(m), m.live \in rows \cup {Empty},
         \A s \in States : m.slot[s] # None => s \in rows,
         \A s \in States : Held(d, s) => Held(m, s), rows \subseteq States
  PROVE  NamespaceOK(m)
BY Zenon DEF NamespaceOK, Known

(* The exchange of /usr with the staged tree (renameat2 with RENAME_EXCHANGE)
   loses no tree and names none twice. *)
LEMMA ExchangeKeeps ==
  ASSUME NEW d, NamespaceOK(d), d.staging.usr \in rows \cup {Empty}, rows \subseteq States
  PROVE  /\ NamespaceOK(Exchanging(d)) /\ \A s \in States : Held(d, s) => Held(Exchanging(d), s)
         /\ Exchanging(d).live = d.staging.usr /\ Exchanging(d).staging = Wrap(d.live, d.staging.marker)
         /\ Exchanging(d).slot = d.slot /\ Exchanging(d).displaced = d.displaced
         /\ Exchanging(d).quarantine = d.quarantine
<1> DEFINE m == Exchanging(d)
<1>1. d \in Namespace
  BY Zenon DEF NamespaceOK
<1>0. m = [d EXCEPT !.live = d.staging.usr, !.staging.usr = d.live]
  BY Zenon DEF Exchanging
<1>2. /\ m.live = d.staging.usr /\ m.staging = Wrap(d.live, d.staging.marker)
      /\ m.slot = d.slot /\ m.displaced = d.displaced /\ m.quarantine = d.quarantine
  BY Zenon, <1>0, <1>1 DEF Namespace, Wrap, Wrapper
<1>3. m.staging.usr = d.live
  BY <1>2 DEF Wrap
<1>4. m \in Namespace
  <2>1. d.staging.usr \in States \cup {Empty} /\ [d.staging EXCEPT !.usr = d.live] \in Wrapper
    BY Zenon, <1>1 DEF Namespace, Wrapper
  <2>2. [d EXCEPT !.live = d.staging.usr, !.staging.usr = d.live] \in Namespace
    BY <1>1, <2>1, Zenon DEF Namespace
  <2> QED
    BY Zenon, <1>0, <2>2
<1>5. \A s : Slotted(m, s) <=> Slotted(d, s)
  BY <1>2, Zenon DEF Slotted
<1>6. OnePlace(m)
  BY Zenon, <1>2, <1>3, <1>5 DEF OnePlace, NamespaceOK
<1>7. \A s : Held(d, s) => Held(m, s)
  BY Zenon, <1>2, <1>3, <1>5 DEF Held
<1> QED
  BY Zenon, <1>2, <1>4, <1>6, <1>7, StaysOK DEF NamespaceOK, Known

(* The exchange of roots/<id> with roots/staging loses no tree and names none
   twice. *)
LEMMA StageKeeps ==
  ASSUME NEW d, NamespaceOK(d), rows \subseteq States, NEW c \in States, d.staging = Bare, d.slot[c] = Wrap(c, c)
  PROVE  /\ NamespaceOK(Staging(d, c)) /\ \A s \in States : Held(d, s) => Held(Staging(d, c), s)
         /\ Staging(d, c).live = d.live /\ Staging(d, c).staging = Wrap(c, c)
         /\ Staging(d, c).slot = [d.slot EXCEPT ![c] = Bare] /\ Staging(d, c).displaced = d.displaced
         /\ Staging(d, c).quarantine = d.quarantine
<1> DEFINE m == Staging(d, c)
<1>1. d \in Namespace
  BY Zenon DEF NamespaceOK
<1>0. m = [d EXCEPT !.staging = d.slot[c], !.slot[c] = d.staging]
  BY Zenon DEF Staging
<1>2. /\ m.live = d.live /\ m.staging = Wrap(c, c)
      /\ m.slot = [d.slot EXCEPT ![c] = Bare] /\ m.displaced = d.displaced /\ m.quarantine = d.quarantine
  BY Zenon, <1>0, <1>1 DEF Namespace
<1>3. m.staging.usr = c /\ d.staging.usr = None /\ d.slot[c].usr = c
  BY <1>2, Wraps
<1>4. m \in Namespace
  <2>1. d.slot[c] \in Wrapper /\ d.staging \in Wrapper
    BY Wraps
  <2>2. [d EXCEPT !.staging = d.slot[c], !.slot[c] = d.staging] \in Namespace
    BY <1>1, <2>1, Zenon DEF Namespace
  <2> QED
    BY Zenon, <1>0, <2>2
<1>5. /\ m.slot[c] = Bare /\ \A s \in States \ {c} : m.slot[s] = d.slot[s]
      /\ Bare.usr = None /\ Bare # None /\ None \notin States /\ d.slot[c] # None
  BY <1>1, <1>2, Wraps DEF Namespace
<1>6. ~Slotted(m, c) /\ \A s \in States \ {c} : Slotted(m, s) <=> Slotted(d, s)
  BY Zenon, <1>5 DEF Slotted
<1>7. Slotted(d, c)
  BY Zenon, <1>3, <1>5 DEF Slotted
<1>8. OnePlace(m)
  BY <1>2, <1>3, <1>5, <1>6, <1>7 DEF OnePlace, NamespaceOK
<1>9. \A s \in States : Held(d, s) => Held(m, s)
  BY Zenon, <1>2, <1>3, <1>5, <1>6, <1>7 DEF Held
<1>10. \A s \in States : m.slot[s] # None => s \in rows
  BY Zenon, <1>5 DEF NamespaceOK, Known
<1> QED
  BY Zenon, <1>2, <1>4, <1>8, <1>9, <1>10, StaysOK DEF NamespaceOK, Known

(* The exchange back of roots/staging with roots/<id> loses no tree and names
   none twice. *)
LEMMA RearchiveKeeps ==
  ASSUME NEW d, NamespaceOK(d), rows \subseteq States, NEW c \in States, d.staging = Wrap(c, c), d.slot[c] = Bare
  PROVE  /\ NamespaceOK(Rearchiving(d, c)) /\ \A s \in States : Held(d, s) => Held(Rearchiving(d, c), s)
         /\ Rearchiving(d, c).live = d.live /\ Rearchiving(d, c).staging = Bare
         /\ Rearchiving(d, c).slot = [d.slot EXCEPT ![c] = Wrap(c, c)] /\ Rearchiving(d, c).displaced = d.displaced
         /\ Rearchiving(d, c).quarantine = d.quarantine
<1> DEFINE m == Rearchiving(d, c)
<1>1. d \in Namespace
  BY Zenon DEF NamespaceOK
<1>0. m = [d EXCEPT !.slot[c] = d.staging, !.staging = d.slot[c]]
  BY Zenon DEF Rearchiving
<1>2. /\ m.live = d.live /\ m.staging = Bare
      /\ m.slot = [d.slot EXCEPT ![c] = Wrap(c, c)] /\ m.displaced = d.displaced /\ m.quarantine = d.quarantine
  BY Zenon, <1>0, <1>1 DEF Namespace
<1>3. m.staging.usr = None /\ d.staging.usr = c
  BY <1>2, Wraps
<1>4. m \in Namespace
  <2>1. d.slot[c] \in Wrapper /\ d.staging \in Wrapper
    BY Wraps
  <2>2. [d EXCEPT !.slot[c] = d.staging, !.staging = d.slot[c]] \in Namespace
    BY <1>1, <2>1, Zenon DEF Namespace
  <2> QED
    BY Zenon, <1>0, <2>2
<1>5. /\ m.slot[c] = Wrap(c, c) /\ \A s \in States \ {c} : m.slot[s] = d.slot[s]
      /\ m.slot[c].usr = c /\ m.slot[c] # None /\ None \notin States /\ d.slot[c] # None /\ d.slot[c].usr = None
  BY <1>1, <1>2, Wraps DEF Namespace
<1>6. Slotted(m, c) /\ ~Slotted(d, c) /\ \A s \in States \ {c} : Slotted(m, s) <=> Slotted(d, s)
  BY Zenon, <1>5 DEF Slotted
<1>8. OnePlace(m)
  BY <1>2, <1>3, <1>5, <1>6 DEF OnePlace, NamespaceOK
<1>9. \A s \in States : Held(d, s) => Held(m, s)
  BY Zenon, <1>2, <1>3, <1>5, <1>6 DEF Held
<1>10. \A s \in States : m.slot[s] # None => s \in rows
  BY Zenon, <1>5 DEF NamespaceOK, Known
<1> QED
  BY Zenon, <1>2, <1>4, <1>8, <1>9, <1>10, StaysOK DEF NamespaceOK, Known

(* A rename that moves no tree: markers and spare parking directories. *)
LEMMA MarkersKeep ==
  ASSUME NEW d, NamespaceOK(d), rows \subseteq States, NEW m \in Namespace,
         m.live = d.live, m.staging.usr = d.staging.usr, m.displaced = d.displaced, m.quarantine = d.quarantine,
         \A s \in States : (m.slot[s] = None <=> d.slot[s] = None) /\ (d.slot[s] # None => m.slot[s].usr = d.slot[s].usr)
  PROVE  NamespaceOK(m) /\ \A s \in States : Held(d, s) => Held(m, s)
<1>1. \A s \in States : Slotted(m, s) <=> Slotted(d, s)
  BY Zenon DEF Slotted
<1>2. d.displaced \subseteq States
  BY Zenon DEF NamespaceOK, Namespace
<1>3. OnePlace(m)
  BY Zenon, <1>1, <1>2 DEF OnePlace, NamespaceOK
<1>4. \A s \in States : Held(d, s) => Held(m, s)
  BY Zenon, <1>1 DEF Held
<1> QED
  BY Zenon, <1>3, <1>4, StaysOK DEF NamespaceOK, Known

(* An empty wrapper takes a free name. *)
LEMMA PublishKeeps ==
  ASSUME NEW d, NamespaceOK(d), rows \subseteq States, NEW owner \in rows, d.slot[owner] = None,
         NEW m \in Namespace, NEW w \in Wrapper, w.usr = None, m.live = d.live, m.staging = d.staging,
         m.slot = [d.slot EXCEPT ![owner] = w], m.displaced = d.displaced \ {owner}, m.quarantine = d.quarantine
  PROVE  NamespaceOK(m) /\ \A s \in States : Held(d, s) => Held(m, s)
<1>1. d \in Namespace
  BY Zenon DEF NamespaceOK
<1>2. m.slot[owner] = w /\ (\A s \in States \ {owner} : m.slot[s] = d.slot[s]) /\ w # None /\ None \notin States
  BY <1>1, Wraps DEF Namespace
<1>3. \A s \in States : Slotted(m, s) <=> Slotted(d, s)
  BY Zenon, <1>2 DEF Slotted
<1>4. OnePlace(m)
  BY <1>1, <1>2, <1>3 DEF OnePlace, NamespaceOK, Namespace
<1>5. \A s \in States : Held(d, s) => Held(m, s)
  BY Zenon, <1>3 DEF Held
<1> QED
  BY Zenon, <1>2, <1>4, <1>5, StaysOK DEF NamespaceOK, Known

(* A wrapper without a tree gives its name up. *)
LEMMA ParkKeeps ==
  ASSUME NEW d, NamespaceOK(d), rows \subseteq States, NEW owner \in States, ~Slotted(d, owner),
         NEW m \in Namespace, m.live = d.live, m.staging = d.staging,
         m.slot = [d.slot EXCEPT ![owner] = None], m.displaced \subseteq d.displaced \cup {owner},
         m.quarantine = d.quarantine
  PROVE  NamespaceOK(m) /\ \A s \in States : Held(d, s) => Held(m, s)
<1>1. d \in Namespace
  BY Zenon DEF NamespaceOK
<1>2. m.slot[owner] = None /\ (\A s \in States \ {owner} : m.slot[s] = d.slot[s])
  BY Zenon, <1>1 DEF Namespace
<1>3. \A s \in States : Slotted(m, s) <=> Slotted(d, s)
  BY Zenon, <1>2 DEF Slotted
<1>4. OnePlace(m)
  BY Zenon, <1>1, <1>2, <1>3 DEF OnePlace, NamespaceOK, Namespace
<1>5. \A s \in States : Held(d, s) => Held(m, s)
  BY Zenon, <1>3 DEF Held
<1> QED
  BY Zenon, <1>2, <1>4, <1>5, StaysOK DEF NamespaceOK, Known

(* The previous tree enters the slot of its name. *)
LEMMA ArchiveKeeps ==
  ASSUME NEW d, NamespaceOK(d), rows \subseteq States, NEW owner \in States, d.staging = Wrap(owner, None),
         d.slot[owner] # None
  PROVE  /\ NamespaceOK(Moving(d, owner)) /\ \A s \in States : Held(d, s) => Held(Moving(d, owner), s)
         /\ Moving(d, owner).live = d.live /\ Moving(d, owner).staging = Bare /\ Slotted(Moving(d, owner), owner)
         /\ \A s \in States \ {owner} : Moving(d, owner).slot[s] = d.slot[s]
         /\ Moving(d, owner).displaced = d.displaced /\ Moving(d, owner).quarantine = d.quarantine
<1> DEFINE m == Moving(d, owner)
<1>1. d \in Namespace
  BY Zenon DEF NamespaceOK
<1>0. m = [d EXCEPT !.staging.usr = None, !.slot[owner].usr = owner]
  BY Zenon DEF Moving
<1>2. /\ m.live = d.live /\ m.staging = [d.staging EXCEPT !.usr = None] /\ m.displaced = d.displaced
      /\ m.quarantine = d.quarantine /\ m.slot = [d.slot EXCEPT ![owner] = [d.slot[owner] EXCEPT !.usr = owner]]
  BY Zenon, <1>0, <1>1 DEF Namespace
<1>3. m.staging = Bare
  BY <1>2 DEF Wrap, Bare
<1>4. /\ d.slot[owner] \in Wrapper /\ [d.slot[owner] EXCEPT !.usr = owner] \in Wrapper
      /\ [d.slot[owner] EXCEPT !.usr = owner].usr = owner
  BY Zenon, <1>1 DEF Namespace, Wrapper
<1>5. m \in Namespace
  <2>1. [d.staging EXCEPT !.usr = None] \in Wrapper
    BY <1>2, <1>3, Wraps
  <2>2. [d EXCEPT !.staging.usr = None, !.slot[owner].usr = owner] \in Namespace
    BY <1>1, <1>4, <2>1, Zenon DEF Namespace
  <2> QED
    BY Zenon, <1>0, <2>2
<1>6. /\ m.slot[owner] # None /\ m.slot[owner].usr = owner /\ m.staging.usr = None /\ d.staging.usr = owner
      /\ None \notin States
      /\ \A s \in States \ {owner} : m.slot[s] = d.slot[s]
  <2>1. d.slot \in [States -> Wrapper \cup {None}]
    BY Zenon, <1>1 DEF Namespace
  <2>2. m.slot[owner] = [d.slot[owner] EXCEPT !.usr = owner] /\ \A s \in States \ {owner} : m.slot[s] = d.slot[s]
    BY Zenon, <1>2, <2>1
  <2>3. m.slot[owner] # None /\ m.slot[owner].usr = owner
    BY <1>4, <2>2, Wraps, Zenon
  <2>4. m.staging.usr = None /\ d.staging.usr = owner /\ None \notin States
    BY <1>3, Wraps
  <2> QED
    BY Zenon, <2>2, <2>3, <2>4
<1>7. Slotted(m, owner) /\ \A s \in States \ {owner} : Slotted(m, s) <=> Slotted(d, s)
  BY <1>6, Zenon DEF Slotted
<1>8. OnePlace(m)
  BY <1>1, <1>2, <1>6, <1>7 DEF OnePlace, NamespaceOK, Namespace
<1>9. \A s \in States : Held(d, s) => Held(m, s)
  BY <1>2, <1>6, <1>7, Zenon DEF Held
<1>10. \A s \in States : m.slot[s] # None => s \in rows
  BY Zenon, <1>6 DEF NamespaceOK, Known
<1> QED
  BY Zenon, <1>2, <1>3, <1>5, <1>6, <1>7, <1>8, <1>9, <1>10, StaysOK DEF NamespaceOK, Known

(* It comes back out. *)
LEMMA RestoreKeeps ==
  ASSUME NEW d, NamespaceOK(d), rows \subseteq States, NEW owner \in States, d.staging = Bare, Slotted(d, owner)
  PROVE  /\ NamespaceOK(MovingBack(d, owner)) /\ \A s \in States : Held(d, s) => Held(MovingBack(d, owner), s)
         /\ MovingBack(d, owner).live = d.live /\ MovingBack(d, owner).staging = Wrap(owner, None)
         /\ \A s \in States \ {owner} : MovingBack(d, owner).slot[s] = d.slot[s]
         /\ MovingBack(d, owner).displaced = d.displaced /\ MovingBack(d, owner).quarantine = d.quarantine
<1> DEFINE m == MovingBack(d, owner)
<1>1. d \in Namespace
  BY Zenon DEF NamespaceOK
<1>0. m = [d EXCEPT !.slot[owner].usr = None, !.staging.usr = owner]
  BY Zenon DEF MovingBack
<1>2. /\ m.live = d.live /\ m.staging = [d.staging EXCEPT !.usr = owner] /\ m.displaced = d.displaced
      /\ m.quarantine = d.quarantine /\ m.slot = [d.slot EXCEPT ![owner] = [d.slot[owner] EXCEPT !.usr = None]]
  BY Zenon, <1>0, <1>1 DEF Namespace
<1>3. m.staging = Wrap(owner, None)
  BY <1>2 DEF Wrap, Bare
<1>4. /\ d.slot[owner] \in Wrapper /\ [d.slot[owner] EXCEPT !.usr = None] \in Wrapper
      /\ [d.slot[owner] EXCEPT !.usr = None].usr = None
  BY Zenon, <1>1 DEF Namespace, Wrapper, Slotted
<1>5. m \in Namespace
  <2>1. [d.staging EXCEPT !.usr = owner] \in Wrapper
    BY <1>2, <1>3, Wraps
  <2>2. [d EXCEPT !.slot[owner].usr = None, !.staging.usr = owner] \in Namespace
    BY <1>1, <1>4, <2>1, Zenon DEF Namespace
  <2> QED
    BY Zenon, <1>0, <2>2
<1>6. /\ m.slot[owner] # None /\ m.slot[owner].usr = None /\ m.staging.usr = owner /\ d.staging.usr = None
      /\ None \notin States
      /\ \A s \in States \ {owner} : m.slot[s] = d.slot[s]
  <2>1. d.slot \in [States -> Wrapper \cup {None}]
    BY Zenon, <1>1 DEF Namespace
  <2>2. m.slot[owner] = [d.slot[owner] EXCEPT !.usr = None] /\ \A s \in States \ {owner} : m.slot[s] = d.slot[s]
    BY Zenon, <1>2, <2>1
  <2>3. m.slot[owner] # None /\ m.slot[owner].usr = None
    BY <1>4, <2>2, Wraps
  <2>4. m.staging.usr = owner /\ d.staging.usr = None /\ None \notin States
    BY Zenon, <1>3, Wraps
  <2> QED
    BY Zenon, <2>2, <2>3, <2>4
<1>7. ~Slotted(m, owner) /\ \A s \in States \ {owner} : Slotted(m, s) <=> Slotted(d, s)
  BY <1>6, Zenon DEF Slotted
<1>8. OnePlace(m)
  <2>1. d.slot[owner] # None /\ d.displaced \subseteq States
    BY Zenon, <1>1 DEF Slotted, Namespace
  <2> QED
    BY <1>2, <1>6, <1>7, <2>1 DEF OnePlace, NamespaceOK
<1>9. \A s \in States : Held(d, s) => Held(m, s)
  BY <1>2, <1>6, <1>7, Zenon DEF Held
<1>10. \A s \in States : m.slot[s] # None => s \in rows
  BY Zenon, <1>6 DEF NamespaceOK, Known, Slotted
<1> QED
  BY Zenon, <1>2, <1>3, <1>5, <1>6, <1>8, <1>9, <1>10, StaysOK DEF NamespaceOK, Known

(* A failed candidate enters the quarantine. *)
LEMMA QuarantineKeeps ==
  ASSUME NEW d, NamespaceOK(d), rows \subseteq States, NEW c \in States, d.staging = Wrap(c, None)
  PROVE  /\ NamespaceOK(Quarantining(d, c)) /\ \A s \in States : Held(d, s) => Held(Quarantining(d, c), s)
         /\ Quarantining(d, c).live = d.live /\ Quarantining(d, c).staging = Bare /\ Quarantining(d, c).slot = d.slot
         /\ Quarantining(d, c).displaced = d.displaced
         /\ Quarantining(d, c).quarantine = d.quarantine \cup {c}
<1> DEFINE m == Quarantining(d, c)
<1>1. d \in Namespace
  BY Zenon DEF NamespaceOK
<1>0. m = [d EXCEPT !.quarantine = @ \cup {c}, !.staging.usr = None]
  BY Zenon DEF Quarantining
<1>2. /\ m.live = d.live /\ m.staging = [d.staging EXCEPT !.usr = None] /\ m.displaced = d.displaced
      /\ m.slot = d.slot /\ m.quarantine = d.quarantine \cup {c}
  BY Zenon, <1>0, <1>1 DEF Namespace
<1>3. m.staging = Bare
  BY <1>2 DEF Wrap, Bare
<1>4. m \in Namespace
  <2>1. [d.staging EXCEPT !.usr = None] \in Wrapper
    BY <1>2, <1>3, Wraps
  <2>2. [d EXCEPT !.quarantine = @ \cup {c}, !.staging.usr = None] \in Namespace
    BY <1>1, <2>1, Zenon DEF Namespace
  <2> QED
    BY Zenon, <1>0, <2>2
<1>5. m.staging.usr = None /\ d.staging.usr = c /\ None \notin States
  BY Zenon, <1>3, Wraps
<1>6. \A s : Slotted(m, s) <=> Slotted(d, s)
  BY <1>2, Zenon DEF Slotted
<1>7. OnePlace(m)
  BY <1>2, <1>5, <1>6 DEF OnePlace, NamespaceOK
<1>8. \A s \in States : Held(d, s) => Held(m, s)
  BY Zenon, <1>2, <1>5, <1>6 DEF Held
<1> QED
  BY Zenon, <1>2, <1>3, <1>4, <1>7, <1>8, StaysOK DEF NamespaceOK, Known

(* A new tree appears in the staging wrapper. *)
LEMMA MaterializeKeeps ==
  ASSUME NEW d, NamespaceOK(d), rows \subseteq States, NEW c \in States, d.staging = Bare,
         c \notin rows \cup d.quarantine
  PROVE  /\ NamespaceOK(Filling(d, c)) /\ \A s \in States : Held(d, s) => Held(Filling(d, c), s)
         /\ Filling(d, c).live = d.live /\ Filling(d, c).staging = Wrap(c, None) /\ Filling(d, c).slot = d.slot
         /\ Filling(d, c).displaced = d.displaced
         /\ Filling(d, c).quarantine = d.quarantine
<1> DEFINE m == Filling(d, c)
<1>1. d \in Namespace
  BY Zenon DEF NamespaceOK
<1>0. m = [d EXCEPT !.staging.usr = c]
  BY Zenon DEF Filling
<1>2. /\ m.live = d.live /\ m.staging = [d.staging EXCEPT !.usr = c] /\ m.displaced = d.displaced
      /\ m.slot = d.slot /\ m.quarantine = d.quarantine
  BY Zenon, <1>0, <1>1 DEF Namespace
<1>3. m.staging = Wrap(c, None)
  BY <1>2 DEF Wrap, Bare
<1>4. m \in Namespace
  <2>1. [d.staging EXCEPT !.usr = c] \in Wrapper
    BY <1>2, <1>3, Wraps
  <2>2. [d EXCEPT !.staging.usr = c] \in Namespace
    BY <1>1, <2>1, Zenon DEF Namespace
  <2> QED
    BY Zenon, <1>0, <2>2
<1>5. m.staging.usr = c /\ d.staging.usr = None /\ None \notin States /\ Empty \notin States
  BY Zenon, <1>3, Wraps
<1>6. (\A s : Slotted(m, s) <=> Slotted(d, s)) /\ ~Slotted(d, c) /\ d.live # c
  BY Zenon, <1>2, <1>5 DEF Slotted, NamespaceOK, Known
<1>7. OnePlace(m)
  BY Zenon, <1>2, <1>5, <1>6 DEF OnePlace, NamespaceOK
<1>8. \A s \in States : Held(d, s) => Held(m, s)
  BY Zenon, <1>2, <1>5, <1>6 DEF Held
<1> QED
  BY Zenon, <1>2, <1>3, <1>4, <1>7, <1>8, StaysOK DEF NamespaceOK, Known

-----------------------------------------------------------------------------
(* A rename adds a namespace that a power failure may leave. *)
LEMMA RenameStep ==
  ASSUME Safe, NEW m, ns' = m, disk' = disk \cup {m}, rows' = rows, NamespaceOK(m),
         \A s \in States : Held(ns, s) => Held(m, s),
         m.live = Empty \/ (m.live \in States /\ HeldAll(m.live))
  PROVE  Safe' /\ \A s \in States : HeldAll(s) => HeldAll(s)'
<1>1. ns' = m /\ disk' = disk \cup {m} /\ rows' = rows /\ ns \in disk
  BY Zenon DEF Safe
<1>2. \A s \in States : HeldAll(s) => HeldAll(s)'
  BY <1>1, Zenon DEF HeldAll, Held, Slotted
<1>3. \A d \in disk' : NamespaceOK(d)'
  <2>1. \A d \in disk' : NamespaceOK(d)
    BY Zenon, <1>1 DEF Safe
  <2> QED
    BY <1>1, <2>1, Zenon DEF NamespaceOK, OnePlace, Known, Held, Slotted
<1> QED
  BY <1>1, <1>2, <1>3, Zenon DEF Safe

(* A sync of the directories leaves one. *)
LEMMA SyncStep ==
  ASSUME Safe, disk' = {ns}, ns' = ns, rows' = rows
  PROVE  Safe' /\ \A s \in States : Held(ns, s) => HeldAll(s)'
<1>1. \A s \in States : Held(ns, s) => HeldAll(s)'
  BY Zenon DEF HeldAll, Held, Slotted
<1>2. \A d \in disk' : NamespaceOK(d)'
  <2>1. \A d \in disk' : NamespaceOK(d)
    BY Zenon DEF Safe
  <2> QED
    BY <2>1, Zenon DEF NamespaceOK, OnePlace, Known, Held, Slotted
<1>3. ns.live # Empty => HeldAll(ns.live)'
  BY Zenon DEF HeldAll, Held, Slotted
<1> QED
  BY <1>1, <1>2, <1>3, Zenon DEF Safe

(* A step that renames nothing keeps every namespace as it was. *)
LEMMA StillStep ==
  ASSUME Safe, disk' = disk, ns' = ns, rows' = rows
  PROVE  Safe' /\ \A s : HeldAll(s) => HeldAll(s)'
<1>1. \A s : HeldAll(s) => HeldAll(s)'
  BY Zenon DEF HeldAll, Held, Slotted
<1>2. \A d \in disk' : NamespaceOK(d)'
  BY Zenon DEF NamespaceOK, OnePlace, Known, Held, Slotted, Safe
<1> QED
  BY <1>1, <1>2, Zenon DEF Safe

-----------------------------------------------------------------------------
(* The fields of the transition that a step leaves alone. *)
SameParties == t'.origin = t.origin /\ t'.cand = t.cand /\ t'.prev = t.prev /\ t'.blocked = t.blocked
SameCourse == t'.triggers = t.triggers /\ t'.booted = t.booted /\ t'.failures = t.failures
SameFlags == t'.slot = t.slot /\ t'.archived = t.archived /\ t'.cleanup = t.cleanup

SameTrees ==
    /\ ns'.live = ns.live /\ ns'.staging = ns.staging /\ ns'.slot = ns.slot
    /\ ns'.displaced = ns.displaced /\ ns'.quarantine = ns.quarantine

(* A step that only goes on changes neither the parties of the transition nor
   what it has done. *)
LEMMA GotoFields ==
  ASSUME t \in Transition, NEW x \in Steps, Goto(x) \/ Retry(x) \/ t' = [t EXCEPT !.step = x]
  PROVE  t' \in Transition /\ t'.step = x /\ SameParties /\ SameCourse /\ SameFlags
BY Zenon DEF Transition, Goto, Retry, SameParties, SameCourse, SameFlags

(* Before a step of a running transition the facts of its step hold. *)
LEMMA NowRunning ==
  ASSUME TransitionInv, t.step # "idle"
  PROVE  /\ Safe /\ t \in Transition /\ Running /\ Parties /\ Table /\ t # Idle
         /\ rows \subseteq States /\ ns \in disk /\ NamespaceOK(ns) /\ ns \in Namespace
<1>1. t # Idle
  BY DEF Idle
<1> QED
  BY <1>1, Zenon DEF TransitionInv, Running, Safe, NamespaceOK

(* The facts of the table are about the namespace and the two parties. *)
LEMMA FrameFacts ==
  ASSUME SameTrees, SameParties
  PROVE  /\ IsNew' <=> IsNew
         /\ Waits' <=> Waits
         /\ Shelved' <=> Shelved
         /\ Over' <=> Over
         /\ InPlace' <=> InPlace
         /\ Marked' <=> Marked
         /\ Lent' <=> Lent
         /\ GivenUp' <=> GivenUp
         /\ LentIfOld' <=> LentIfOld
         /\ SettledIfOld' <=> SettledIfOld
         /\ NoSlot' <=> NoSlot
<1>1. /\ IsNew' <=> IsNew
      /\ Waits' <=> Waits
      /\ Shelved' <=> Shelved
      /\ Over' <=> Over
      /\ InPlace' <=> InPlace
  BY Zenon DEF SameTrees, SameParties, IsNew, Waits, Shelved, Over, InPlace, Slotted, Wrap, Bare
<1>2. /\ Marked' <=> Marked
      /\ Lent' <=> Lent
      /\ GivenUp' <=> GivenUp
      /\ NoSlot' <=> NoSlot
  BY Zenon DEF SameTrees, SameParties, Marked, Lent, GivenUp, NoSlot, Wrap, Bare
<1> QED
  BY <1>1, <1>2, Zenon DEF LentIfOld, SettledIfOld

(* A step that moves no tree and changes no row: what the table asks of the
   next step is all there is to show. *)
LEMMA Walk ==
  ASSUME TransitionInv, t.step # "idle", ns' = ns, rows' = rows, last' = last, t' \in Transition, SameParties,
         disk' = disk \/ disk' = {ns},
         t'.step \notin {"idle", "add", "identity"},
         t.step \notin {"add", "identity"} \/ (disk' = {ns} /\ Held(ns, t.cand)),
         t.step \notin {"add", "repair"} \/ t'.step = "repair",
         t'.triggers = t.triggers \/ ns.staging.marker = None,
         ~t'.booted /\ t'.failures = {} => boot' = boot /\ ~t.booted /\ t.failures = {},
         Table'
  PROVE  TransitionInv'
<1>1. /\ Safe /\ t \in Transition /\ Running /\ Parties /\ ns \in disk /\ rows \subseteq States
  BY NowRunning, Zenon
<1>2. Safe' /\ \A s \in States : HeldAll(s) => HeldAll(s)'
  <2>1. CASE disk' = disk
    BY <1>1, <2>1, StillStep, Zenon
  <2>2. CASE disk' = {ns}
    BY <1>1, <2>2, SyncStep, Zenon DEF HeldAll
  <2> QED
    BY Zenon, <2>1, <2>2
<1>3. t.cand \in States /\ HeldAll(t.cand)'
  <2>1. t.cand \in States
    BY <1>1, Zenon DEF Parties
  <2>2. CASE t.step \notin {"add", "identity"}
    BY <1>1, <1>2, <2>1, <2>2, Zenon DEF Parties, SameParties
  <2>3. CASE disk' = {ns} /\ Held(ns, t.cand)
    BY <1>1, <2>1, <2>3, SyncStep, Zenon DEF SameParties
  <2> QED
    BY Zenon, <2>1, <2>2, <2>3
<1>4. t.prev # Empty => HeldAll(t.prev)'
  BY <1>1, <1>2, Zenon DEF Parties, SameParties
<1>5. Parties'
  <2>1. IsNew' <=> IsNew
    BY Zenon DEF IsNew, SameParties
  <2>2. Quarantines' => ns'.staging.marker = None
    BY <1>1, Zenon DEF Quarantines, SameParties, Parties
  <2>3. t'.step \notin {"add", "repair"} => t'.cand \in rows'
    BY <1>1, Zenon DEF SameParties, Parties
  <2> QED
    BY <1>1, <1>3, <1>4, <2>1, <2>2, <2>3, Zenon DEF Parties, SameParties
<1>6. Running'
  BY <1>1, <1>5, Zenon DEF Running
<1>7. EndIsWhole'
  BY <1>1, Zenon DEF EndIsWhole, Running
<1> QED
  BY <1>2, <1>6, <1>7, Zenon DEF TransitionInv

(* A step that renames. *)
LEMMA Move ==
  ASSUME TransitionInv, t.step \notin {"idle", "add", "identity", "repair"}, NEW m, Rename(m), NamespaceOK(m),
         \A s \in States : Held(ns, s) => Held(m, s), m.live \in {t.prev, t.cand},
         t' \in Transition, SameParties, SameCourse, t'.step # "idle",
         IsNew => m.slot[t.cand] = None, Quarantines => m.staging.marker = None, Table'
  PROVE  TransitionInv'
<1>1. /\ Safe /\ t \in Transition /\ Running /\ Parties /\ ns \in disk /\ rows \subseteq States
  BY NowRunning, Zenon
<1>2. /\ ns' = m /\ disk' = disk \cup {m} /\ rows' = rows /\ boot' = boot /\ last' = last
      /\ t.cand \in States /\ HeldAll(t.cand) /\ t.cand \in rows
      /\ t.prev \in rows \cup {Empty} /\ (t.prev # Empty => HeldAll(t.prev))
  BY <1>1, Zenon DEF Parties, Rename
<1>3. Safe' /\ \A s \in States : HeldAll(s) => HeldAll(s)'
  BY <1>1, <1>2, RenameStep, Zenon
<1>5. Parties'
  <2>1. IsNew' <=> IsNew
    BY Zenon DEF IsNew, SameParties
  <2>2. Quarantines' => ns'.staging.marker = None
    BY <1>2, Zenon DEF Quarantines, SameParties, SameCourse
  <2> QED
    BY <1>1, <1>2, <1>3, <2>1, <2>2, Zenon DEF Parties, SameParties
<1>6. Running'
  BY <1>1, <1>2, <1>5, Zenon DEF Running, SameCourse
<1>7. EndIsWhole'
  BY <1>1, <1>2, Zenon DEF EndIsWhole, Running
<1> QED
  BY <1>3, <1>6, <1>7, Zenon DEF TransitionInv

(* The steps of a transition other than idle. *)
LEMMA StepNames ==
  {"add", "identity", "prepare", "stage", "stage_marker", "stage_sync", "exchange", "exchange_sync", "triggers",
   "archive", "slot_publish", "slot_sync", "move", "move_sync", "slot_abort", "abort_sync", "boot", "retire",
   "retire_sync", "committed", "cleanup", "cleanup_sync", "restore", "restore_sync", "unslot", "unslot_sync",
   "reverse", "reverse_sync", "preserve", "quarantine_sync", "retire_failed", "retire_failed_sync", "unpark_sync",
   "marker_back", "rearchive", "rearchive_sync", "invalidate", "repair"} \subseteq Steps
BY DEF Steps

(* What a step that moves no tree leaves true or false. *)
Kept ==
    /\ (IsNew' <=> IsNew) /\ (Waits' <=> Waits) /\ (Shelved' <=> Shelved) /\ (Over' <=> Over)
    /\ (InPlace' <=> InPlace) /\ (Marked' <=> Marked) /\ (Lent' <=> Lent) /\ (GivenUp' <=> GivenUp)
    /\ (LentIfOld' <=> LentIfOld) /\ (SettledIfOld' <=> SettledIfOld) /\ (NoSlot' <=> NoSlot) /\ (Isolated' <=> Isolated)
    /\ (Quarantines' <=> Quarantines) /\ (NoSlotLeft' <=> NoSlotLeft) /\ (Plain' <=> Plain) /\ (Archiving' <=> Archiving)
    /\ (Finishing' <=> Finishing) /\ (Restoring' <=> Restoring)
WentOn(x) == t' \in Transition /\ t'.step = x /\ SameParties /\ SameCourse /\ SameFlags /\ ns' = ns

(* A step that leaves the trees and the course of the transition leaves every
   fact of the table. *)
LEMMA FrameAll ==
  ASSUME SameTrees, SameParties, SameCourse, SameFlags
  PROVE  Kept
<1>1. /\ (Quarantines' <=> Quarantines) /\ (Isolated' <=> Isolated)
      /\ (Plain' <=> Plain)
  BY Zenon DEF SameTrees, SameParties, SameCourse, SameFlags, Quarantines, Isolated, Plain, Bare
<1>2. NoSlotLeft' <=> NoSlotLeft
  BY FrameFacts, Zenon DEF SameCourse, NoSlotLeft
<1>3. /\ (Archiving' <=> Archiving) /\ (Restoring' <=> Restoring)
  BY FrameFacts, Zenon DEF SameParties, SameFlags, Archiving, Restoring
<1>4. Finishing' <=> Finishing
  BY FrameFacts, Zenon DEF SameParties, SameFlags, Finishing
<1> QED
  BY <1>1, <1>2, <1>3, <1>4, FrameFacts, Zenon DEF Kept

(* A step that only goes on, to step x. *)
LEMMA WalkOn ==
  ASSUME TransitionInv, t.step \notin {"idle", "add", "identity", "repair"},
         NEW x \in Steps \ {"idle", "add", "identity"}, Goto(x) \/ Retry(x) \/ t' = [t EXCEPT !.step = x],
         Still \/ Sync
  PROVE  WentOn(x) /\ Kept /\ (Table' => TransitionInv')
<1>1. t \in Transition /\ t' \in Transition /\ t'.step = x /\ SameParties /\ SameCourse /\ SameFlags
  BY GotoFields, Zenon DEF TransitionInv
<1>2. ns' = ns /\ rows' = rows /\ boot' = boot /\ last' = last /\ (disk' = disk \/ disk' = {ns})
  BY Zenon DEF Still, Sync
<1>3. Table' => TransitionInv'
  <2>1. t.step # "idle"
    BY Zenon
  <2>2. /\ t'.step \notin {"idle", "add", "identity"} /\ t.step \notin {"add", "identity"}
        /\ t.step \notin {"add", "repair"}
    BY Zenon, <1>1
  <2>3. t'.triggers = t.triggers /\ (~t'.booted /\ t'.failures = {} => boot' = boot /\ ~t.booted /\ t.failures = {})
    BY <1>1, <1>2, Zenon DEF SameCourse
  <2> QED
    BY <1>1, <1>2, <2>1, <2>2, <2>3, Walk, Zenon
<1>4. SameTrees
  BY <1>2, Zenon DEF SameTrees
<1> QED
  BY <1>1, <1>2, <1>3, <1>4, FrameAll, Zenon DEF WentOn

(* A transition that ends. *)
LEMMA EndsWhole ==
  ASSUME TransitionInv, t' = Idle, ns' = ns, disk' = disk, rows' = rows, EndIsWhole'
  PROVE  TransitionInv'
<1>1. Idle \in Transition
  BY Zenon DEF Idle, Transition, Steps
<1>2. Safe'
  BY StillStep, Zenon DEF TransitionInv
<1> QED
  BY <1>1, <1>2, Zenon DEF TransitionInv

(* A transition that ends with an error, or is killed, leaves the namespaces
   as they are. *)
LEMMA EndsEarly ==
  ASSUME TransitionInv, t' = Idle, ns' = ns, disk' = disk, rows' = rows,
         last'.result \notin {"committed", "restored", "preserved"}
  PROVE  TransitionInv'
<1>1. EndIsWhole'
  BY Zenon DEF EndIsWhole
<1> QED
  BY <1>1, EndsWhole, Zenon

-----------------------------------------------------------------------------
(* stage_archived_candidate: the wrappers roots/<id> and roots/staging are
   exchanged. *)
LEMMA StageStep ==
  ASSUME TransitionInv, t.step = "stage", Goto("stage_marker"),
         Rename([ns EXCEPT !.staging = ns.slot[t.cand], !.slot[t.cand] = ns.staging])
  PROVE  TransitionInv'
<1> DEFINE m == Staging(ns, t.cand)
<1>5. Rename(m) /\ ns' = m
  BY Zenon DEF Rename, Staging
<1>1. /\ t \in Transition /\ Parties /\ Table /\ rows \subseteq States /\ NamespaceOK(ns) /\ ns \in Namespace
  BY NowRunning, Zenon
<1>2. ~IsNew /\ Shelved /\ Plain /\ NoSlot
  BY <1>1, Zenon DEF Table
<1>3. t.cand \in States /\ t.prev \in States /\ t.cand # t.prev /\ ~Quarantines
  BY Zenon, <1>1, <1>2 DEF Parties, Plain, Quarantines, IsNew
<1>4. /\ NamespaceOK(m) /\ \A s \in States : Held(ns, s) => Held(m, s)
      /\ m.live = ns.live /\ m.staging = Wrap(t.cand, t.cand) /\ m.slot = [ns.slot EXCEPT ![t.cand] = Bare]
  <2>1. ns.live = t.prev /\ ns.staging = Bare /\ ns.slot[t.cand] = Wrap(t.cand, t.cand)
    BY <1>2, Zenon DEF Shelved
  <2> QED
    BY <1>1, <1>3, <2>1, StageKeeps, Zenon
<1>6. t' \in Transition /\ t'.step = "stage_marker" /\ SameParties /\ SameCourse /\ SameFlags
  BY Zenon, <1>1, GotoFields, StepNames
<1>7. /\ m.staging.usr = t.cand /\ m.staging.marker = t.cand /\ m.slot[t.cand] = Bare
      /\ m.slot[t.prev] = ns.slot[t.prev] /\ m.live = t.prev
  BY <1>1, <1>2, <1>3, <1>4, Wraps DEF Namespace, Shelved
<1>8. ~IsNew' /\ Waits' /\ Marked' /\ Plain' /\ NoSlot'
  BY Zenon, <1>2, <1>5, <1>6, <1>7 DEF SameParties, SameCourse, SameFlags, IsNew, Waits, Marked, Plain, NoSlot
<1>9. Table'
  BY Zenon, <1>6, <1>8 DEF Table
<1> QED
  BY Zenon, <1>2, <1>3, <1>4, <1>5, <1>6, <1>7, <1>9, Move

(* ensure_slot_marker_location: the marker stays with the wrapper that is now
   roots/<id>. *)
LEMMA StageMarkerStep ==
  ASSUME TransitionInv, t.step = "stage_marker", t' = [t EXCEPT !.step = "stage_sync"],
         Rename([ns EXCEPT !.staging.marker = None, !.slot[t.cand].marker = t.cand])
  PROVE  TransitionInv'
<1> DEFINE m == [ns EXCEPT !.staging.marker = None, !.slot[t.cand].marker = t.cand]
<1>1. /\ t \in Transition /\ Parties /\ Table /\ rows \subseteq States /\ NamespaceOK(ns) /\ ns \in Namespace
  BY NowRunning, Zenon
<1>2. ~IsNew /\ Waits /\ Marked /\ Plain /\ NoSlot
  BY <1>1, Zenon DEF Table
<1>3. t.cand \in States /\ t.prev \in States /\ t.cand # t.prev
  BY Zenon, <1>1, <1>2 DEF Parties
<1>4. /\ ns.staging \in Wrapper /\ ns.slot \in [States -> Wrapper \cup {None}] /\ ns.staging.usr = t.cand
      /\ ns.slot[t.cand] = Bare
  BY Zenon, <1>1, <1>2 DEF Namespace, Waits, Marked
<1>5. [ns.staging EXCEPT !.marker = None] = Wrap(t.cand, None) /\ [Bare EXCEPT !.marker = t.cand] = Wrap(None, t.cand)
  BY <1>4 DEF Wrapper, Wrap, Bare
<1>6. /\ m.live = ns.live /\ m.staging = Wrap(t.cand, None)
      /\ m.slot = [ns.slot EXCEPT ![t.cand] = Wrap(None, t.cand)]
      /\ m.displaced = ns.displaced /\ m.quarantine = ns.quarantine
  BY Zenon, <1>1, <1>4, <1>5 DEF Namespace
<1>7. m \in Namespace
  <2>1. [ns.staging EXCEPT !.marker = None] \in Wrapper /\ [ns.slot[t.cand] EXCEPT !.marker = t.cand] \in Wrapper
    BY <1>3, <1>4, <1>5, Wraps
  <2> QED
    BY <1>1, <2>1, Zenon DEF Namespace
<1>8. Rename(m) /\ ns' = m
  BY Zenon DEF Rename
<1> HIDE DEF m
<1>9. /\ m.slot[t.cand] = Wrap(None, t.cand) /\ \A s \in States \ {t.cand} : m.slot[s] = ns.slot[s]
  BY Zenon, <1>3, <1>4, <1>6
<1>10. /\ m.staging.usr = t.cand /\ m.staging.marker = None /\ m.slot[t.cand] # None /\ m.slot[t.cand].usr = None
       /\ Bare # None /\ Bare.usr = None
  BY <1>3, <1>6, <1>9, Wraps
<1>11. NamespaceOK(m) /\ \A s \in States : Held(ns, s) => Held(m, s)
  <2>1. \A s \in States : (m.slot[s] = None <=> ns.slot[s] = None) /\ (ns.slot[s] # None => m.slot[s].usr = ns.slot[s].usr)
    BY Zenon, <1>4, <1>9, <1>10
  <2> QED
    BY Zenon, <1>1, <1>4, <1>6, <1>7, <1>10, <2>1, MarkersKeep
<1>12. t' \in Transition /\ t'.step = "stage_sync" /\ SameParties /\ SameCourse /\ SameFlags
  BY Zenon, <1>1, GotoFields, StepNames
<1>13. ~IsNew' /\ Waits' /\ Lent' /\ Plain' /\ NoSlot'
  <2>1. m.slot[t.prev] = ns.slot[t.prev]
    BY Zenon, <1>3, <1>9
  <2>2. Waits' /\ Lent'
    BY <1>2, <1>6, <1>8, <1>9, <1>10, <1>12, Zenon DEF SameParties, Waits, Lent, Wrap
  <2> QED
    BY <1>2, <1>8, <1>12, <2>1, <2>2, Zenon DEF SameParties, SameCourse, SameFlags, IsNew, Plain, NoSlot
<1>14. Table'
  BY Zenon, <1>12, <1>13 DEF Table, LentIfOld
<1> QED
  BY Zenon, <1>2, <1>6, <1>8, <1>10, <1>11, <1>12, <1>14, Move DEF Waits

(* exchange_live_and_staged: the candidate is live and the previous tree is
   in roots/staging. *)
LEMMA ExchangeStep ==
  ASSUME TransitionInv, t.step = "exchange", Goto("exchange_sync"),
         Rename([ns EXCEPT !.live = ns.staging.usr, !.staging.usr = ns.live])
  PROVE  TransitionInv'
<1> DEFINE m == Exchanging(ns)
<1>5. Rename(m) /\ ns' = m
  BY Zenon DEF Rename, Exchanging
<1>1. /\ t \in Transition /\ Parties /\ Table /\ rows \subseteq States /\ NamespaceOK(ns) /\ ns \in Namespace
  BY NowRunning, Zenon
<1>2. Waits /\ LentIfOld /\ Plain /\ NoSlot
  BY Zenon, <1>1 DEF Table
<1>3. t.cand \in rows /\ ns.staging.usr = t.cand /\ ns.live = t.prev /\ ns.staging.marker = None /\ (IsNew => ns.slot[t.cand] = None)
  BY Zenon, <1>1, <1>2 DEF Parties, Waits, LentIfOld, Lent, Quarantines, IsNew
<1>4. /\ NamespaceOK(m) /\ \A s \in States : Held(ns, s) => Held(m, s)
      /\ m.live = t.cand /\ m.staging = Wrap(t.prev, None)
      /\ m.slot = ns.slot /\ m.displaced = ns.displaced /\ m.quarantine = ns.quarantine
  BY <1>1, <1>3, ExchangeKeeps, Zenon
<1>6. t' \in Transition /\ t'.step = "exchange_sync" /\ SameParties /\ SameCourse /\ SameFlags
  BY Zenon, <1>1, GotoFields, StepNames
<1>7. m.staging.marker = None
  BY <1>1, <1>4, Wraps DEF Parties
<1>8. Over' /\ LentIfOld' /\ Plain' /\ NoSlot'
  BY Zenon, <1>2, <1>4, <1>5, <1>6, <1>7 DEF SameParties, SameCourse, SameFlags, Over, LentIfOld, IsNew, Lent, Plain,
     NoSlot, Wrap
<1>9. Table'
  BY Zenon, <1>6, <1>8 DEF Table
<1> QED
  BY Zenon, <1>3, <1>4, <1>5, <1>6, <1>7, <1>9, Move

(* create_previous_archive_attempt: a new slot directory, under a spare name. *)
LEMMA CreateStep ==
  ASSUME TransitionInv, t.step = "archive", ns.slot[t.prev] = None, t.prev \notin ns.displaced,
         t' = [t EXCEPT !.step = "slot_publish", !.slot = "created", !.retried = FALSE],
         Rename([ns EXCEPT !.spare[t.prev] = @ + 1])
  PROVE  TransitionInv'
<1> DEFINE m == [ns EXCEPT !.spare[t.prev] = @ + 1]
<1>1. /\ t \in Transition /\ Parties /\ Table /\ rows \subseteq States /\ NamespaceOK(ns) /\ ns \in Namespace
  BY NowRunning, Zenon
<1>2. Archiving /\ ~t.cleanup /\ NoSlot
  BY <1>1, Zenon DEF Table
<1>3. /\ m.live = ns.live /\ m.staging = ns.staging /\ m.slot = ns.slot /\ m.displaced = ns.displaced
      /\ m.quarantine = ns.quarantine
  BY Zenon, <1>1 DEF Namespace
<1>4. m \in Namespace
  <2>1. t.prev \in States /\ ns.spare \in [States -> Int]
    BY Zenon, <1>1, <1>2 DEF Namespace, Parties, Archiving
  <2>2. ns.spare[t.prev] + 1 \in Int
    BY <2>1
  <2> QED
    BY <1>1, <2>1, <2>2, Zenon DEF Namespace
<1>5. Rename(m) /\ ns' = m
  BY Zenon DEF Rename
<1> HIDE DEF m
<1>6. NamespaceOK(m) /\ \A s \in States : Held(ns, s) => Held(m, s)
  BY <1>1, <1>3, <1>4, MarkersKeep, Zenon
<1>7. /\ t' \in Transition /\ t'.step = "slot_publish" /\ SameParties /\ SameCourse
      /\ t'.slot = "created" /\ t'.archived = t.archived /\ t'.cleanup = t.cleanup
  BY <1>1, StepNames, Zenon DEF Transition, SameParties, SameCourse
<1>8. SameTrees
  BY <1>3, <1>5, Zenon DEF SameTrees
<1>9. Archiving'
  BY <1>2, <1>7, <1>8, FrameFacts, Zenon DEF Archiving, SameParties
<1>10. Table'
  BY Zenon, <1>2, <1>3, <1>5, <1>7, <1>9 DEF Table, SameParties
<1>11. m.live = t.cand /\ (IsNew => m.slot[t.cand] = None) /\ (Quarantines => m.staging.marker = None)
  BY <1>1, <1>2, <1>3, Zenon DEF Archiving, Over, Parties
<1> QED
  BY Zenon, <1>5, <1>6, <1>7, <1>10, <1>11, Move

(* finish_previous_archive_slot_creation: the slot gets the name of the
   previous state. *)
LEMMA PublishStep ==
  ASSUME TransitionInv, t.step = "slot_publish", Goto("slot_sync"), Rename(Published)
  PROVE  TransitionInv'
<1>1. /\ t \in Transition /\ Parties /\ Table /\ rows \subseteq States /\ NamespaceOK(ns) /\ ns \in Namespace
  BY NowRunning, Zenon
<1>2. /\ Archiving /\ ~t.cleanup /\ t.slot # "none" /\ ns.slot[t.prev] = None
      /\ t.slot = "created" => t.prev \notin ns.displaced
  BY <1>1, Zenon DEF Table
<1>3. /\ t.prev \in rows /\ t.prev \in States /\ t.cand \in States /\ t.cand # t.prev
      /\ (IsNew => ns.slot[t.cand] = None)
      /\ (Quarantines => ns.staging.marker = None)
  BY Zenon, <1>1, <1>2 DEF Parties, Archiving
<1>4. \E w \in Wrapper : /\ w.usr = None /\ Published.slot = [ns.slot EXCEPT ![t.prev] = w]
                         /\ Published.displaced = ns.displaced \ {t.prev} /\ Published \in Namespace
                         /\ Published.live = ns.live /\ Published.staging = ns.staging
                         /\ Published.quarantine = ns.quarantine
  <2>1. CASE t.slot = "reused"
    <3> DEFINE w == [Bare EXCEPT !.marker = t.prev]
    <3>1. w \in Wrapper /\ w.usr = None
      BY Zenon, <1>3 DEF Bare, Wrapper
    <3>2. Published = [ns EXCEPT !.displaced = @ \ {t.prev}, !.slot[t.prev] = w]
      BY Zenon, <2>1 DEF Published
    <3> HIDE DEF w
    <3>3. Published \in Namespace
      BY <1>1, <3>1, <3>2, Zenon DEF Namespace
    <3>4. /\ Published.slot = [ns.slot EXCEPT ![t.prev] = w] /\ Published.displaced = ns.displaced \ {t.prev}
          /\ Published.live = ns.live /\ Published.staging = ns.staging /\ Published.quarantine = ns.quarantine
      BY Zenon, <1>1, <3>2 DEF Namespace
    <3> QED
      BY <3>1, <3>3, <3>4, Zenon
  <2>2. CASE t.slot = "created"
    <3>1. Published = [ns EXCEPT !.spare[t.prev] = @ - 1, !.slot[t.prev] = Bare]
      BY Zenon, <2>2 DEF Published
    <3>2. ns.spare[t.prev] - 1 \in Int
      BY <1>1, <1>3 DEF Namespace
    <3>3. Published \in Namespace
      BY <1>1, <3>1, <3>2, Wraps, Zenon DEF Namespace
    <3>4. /\ Published.slot = [ns.slot EXCEPT ![t.prev] = Bare] /\ Published.displaced = ns.displaced
          /\ Published.live = ns.live /\ Published.staging = ns.staging /\ Published.quarantine = ns.quarantine
      BY Zenon, <1>1, <3>1 DEF Namespace
    <3>5. ns.displaced = ns.displaced \ {t.prev}
      BY Zenon, <1>2, <2>2
    <3> QED
      BY <3>3, <3>4, <3>5, Wraps, Zenon
  <2> QED
    BY <1>1, <1>2, <2>1, <2>2, Zenon DEF Transition
<1>5. PICK w \in Wrapper : /\ w.usr = None /\ Published.slot = [ns.slot EXCEPT ![t.prev] = w]
                           /\ Published.displaced = ns.displaced \ {t.prev} /\ Published \in Namespace
                           /\ Published.live = ns.live /\ Published.staging = ns.staging
                           /\ Published.quarantine = ns.quarantine
  BY <1>4, Zenon
<1>6. NamespaceOK(Published) /\ \A s \in States : Held(ns, s) => Held(Published, s)
  BY <1>1, <1>2, <1>3, <1>5, PublishKeeps, Zenon
<1>7. t' \in Transition /\ t'.step = "slot_sync" /\ SameParties /\ SameCourse /\ SameFlags
  BY Zenon, <1>1, GotoFields, StepNames
<1>8. /\ ns'.live = ns.live /\ ns'.staging = ns.staging /\ ns'.slot[t.prev] # None
      /\ ns'.slot[t.cand] = ns.slot[t.cand]
      /\ Published.slot[t.cand] = ns.slot[t.cand]
  BY <1>1, <1>3, <1>5, Wraps DEF Rename, Namespace
<1>9. Archiving'
  BY Zenon, <1>2, <1>7, <1>8 DEF Archiving, SameParties, SameFlags, Over, LentIfOld, Lent, IsNew, Wrap
<1>10. Table'
  BY Zenon, <1>2, <1>7, <1>8, <1>9 DEF Table, SameParties, SameFlags
<1> QED
  BY <1>2, <1>3, <1>5, <1>6, <1>7, <1>8, <1>10, Move, Zenon DEF Archiving, Over

(* archive_previous: the previous tree moves from roots/staging to its slot. *)
LEMMA ArchiveStep ==
  ASSUME TransitionInv, t.step = "move", t' = [t EXCEPT !.step = "move_sync", !.archived = TRUE, !.retried = FALSE],
         Rename([ns EXCEPT !.staging.usr = None, !.slot[t.prev].usr = t.prev])
  PROVE  TransitionInv'
<1> DEFINE m == Moving(ns, t.prev)
<1>5. Rename(m) /\ ns' = m
  BY Zenon DEF Rename, Moving
<1>1. /\ t \in Transition /\ Parties /\ Table /\ rows \subseteq States /\ NamespaceOK(ns) /\ ns \in Namespace
  BY NowRunning, Zenon
<1>2. Archiving /\ ~t.cleanup /\ ns.slot[t.prev] # None
  BY Zenon, <1>1 DEF Table
<1>3. /\ t.prev \in States /\ t.cand \in States /\ t.cand # t.prev /\ (IsNew => ns.slot[t.cand] = None)
      /\ t.prev # Empty /\ ns.staging = Wrap(t.prev, None) /\ ns.live = t.cand
  BY Zenon, <1>1, <1>2 DEF Parties, Archiving, Over
<1>4. /\ NamespaceOK(m) /\ \A s \in States : Held(ns, s) => Held(m, s)
      /\ m.live = ns.live /\ m.staging = Bare /\ Slotted(m, t.prev) /\ m.slot[t.cand] = ns.slot[t.cand]
  BY <1>1, <1>2, <1>3, ArchiveKeeps, Zenon
<1>6. /\ t' \in Transition /\ t'.step = "move_sync" /\ SameParties /\ SameCourse
      /\ t'.archived = TRUE /\ t'.cleanup = t.cleanup
  BY <1>1, StepNames, Zenon DEF Transition, SameParties, SameCourse
<1>7. m.staging.marker = None
  BY Zenon, <1>4, Wraps
<1>8. LentIfOld'
  BY Zenon, <1>2, <1>4, <1>5, <1>6, <1>7 DEF Archiving, LentIfOld, IsNew, Lent, SameParties, Wrap
<1>9. Finishing'
  <2>1. InPlace'
    BY Zenon, <1>3, <1>4, <1>5, <1>6 DEF InPlace, SameParties, Slotted, Bare
  <2> QED
    BY Zenon, <1>2, <1>3, <1>6, <2>1 DEF Finishing, SameParties
<1>10. Table'
  BY Zenon, <1>3, <1>6, <1>8, <1>9 DEF Table, SameParties
<1> QED
  BY Zenon, <1>3, <1>4, <1>5, <1>6, <1>7, <1>10, Move

(* The wrapper of the previous state is parked again, on three ways back. *)
LEMMA ParkedKeeps ==
  ASSUME TransitionInv, t.step \in {"slot_abort", "cleanup", "unslot"}, Over, t.prev # Empty
  PROVE  /\ NamespaceOK(Parked) /\ \A s \in States : Held(ns, s) => Held(Parked, s)
         /\ Parked.live = ns.live /\ Parked.staging = ns.staging /\ Parked.quarantine = ns.quarantine
         /\ Parked.slot[t.prev] = None /\ Parked.slot[t.cand] = ns.slot[t.cand]
         /\ t.cand \in Parked.displaced <=> t.cand \in ns.displaced
<1>1. /\ t \in Transition /\ Parties /\ rows \subseteq States /\ NamespaceOK(ns) /\ ns \in Namespace
  BY NowRunning, Zenon
<1>2. /\ t.prev \in States /\ t.cand \in States /\ t.cand # t.prev /\ ns.staging = Wrap(t.prev, None)
  BY Zenon, <1>1 DEF Parties, Over
<1>3. ns.staging.usr = t.prev
  BY <1>2, Wraps
<1>4. ~Slotted(ns, t.prev)
  BY <1>1, <1>2, <1>3, Zenon DEF NamespaceOK, OnePlace
<1>5. /\ Parked \in Namespace /\ Parked.live = ns.live /\ Parked.staging = ns.staging
      /\ Parked.quarantine = ns.quarantine
      /\ Parked.slot = [ns.slot EXCEPT ![t.prev] = None] /\ ns.displaced \subseteq Parked.displaced
      /\ Parked.displaced \subseteq ns.displaced \cup {t.prev}
  <2>1. CASE t.slot = "reused"
    <3>1. Parked = [ns EXCEPT !.displaced = @ \cup {t.prev}, !.slot[t.prev] = None]
      BY Zenon, <2>1 DEF Parked
    <3>2. Parked \in Namespace
      BY <1>1, <1>2, <3>1, Zenon DEF Namespace
    <3> QED
      BY Zenon, <1>1, <3>1, <3>2 DEF Namespace
  <2>2. CASE t.slot # "reused"
    <3>1. Parked = [ns EXCEPT !.spare[t.prev] = @ + 1, !.slot[t.prev] = None]
      BY Zenon, <2>2 DEF Parked
    <3>2. ns.spare[t.prev] + 1 \in Int
      BY <1>1, <1>2 DEF Namespace
    <3>3. Parked \in Namespace
      BY <1>1, <1>2, <3>1, <3>2, Zenon DEF Namespace
    <3> QED
      BY Zenon, <1>1, <3>1, <3>3 DEF Namespace
  <2> QED
    BY Zenon, <2>1, <2>2
<1>6. NamespaceOK(Parked) /\ \A s \in States : Held(ns, s) => Held(Parked, s)
  BY <1>1, <1>2, <1>4, <1>5, ParkKeeps, Zenon
<1>7. Parked.slot[t.prev] = None /\ Parked.slot[t.cand] = ns.slot[t.cand]
  BY Zenon, <1>1, <1>2, <1>5 DEF Namespace
<1> QED
  BY Zenon, <1>2, <1>5, <1>6, <1>7

(* The slot of an archive that was not applied, or was undone, is parked
   under a spare name. *)
LEMMA ParkStep ==
  ASSUME TransitionInv, NEW x \in {"abort_sync", "cleanup_sync", "unslot_sync"},
         Goto(x) \/ t' = [t EXCEPT !.step = x],
         Rename(Parked), \/ t.step = "slot_abort" /\ x = "abort_sync"
                         \/ t.step = "cleanup" /\ x = "cleanup_sync"
                         \/ t.step = "unslot" /\ x = "unslot_sync"
  PROVE  TransitionInv'
<1>1. /\ t \in Transition /\ Parties /\ Table
  BY Zenon, NowRunning
<1>2. Over /\ t.prev # Empty
  BY Zenon, <1>1 DEF Table, Archiving, Restoring
<1>3. /\ NamespaceOK(Parked) /\ \A s \in States : Held(ns, s) => Held(Parked, s)
      /\ Parked.live = ns.live /\ Parked.staging = ns.staging
      /\ Parked.slot[t.prev] = None /\ Parked.slot[t.cand] = ns.slot[t.cand]
      /\ t.cand \in Parked.displaced <=> t.cand \in ns.displaced
  BY Zenon, <1>2, ParkedKeeps
<1>4. t' \in Transition /\ t'.step = x /\ SameParties /\ SameCourse /\ SameFlags /\ ns' = Parked
  BY Zenon, <1>1, GotoFields, StepNames DEF Rename
<1>5. /\ Over' /\ NoSlot' /\ (IsNew' <=> IsNew) /\ (Lent' <=> Lent) /\ (GivenUp' <=> GivenUp)
  BY <1>2, <1>3, <1>4 DEF SameParties, Over, NoSlot, IsNew, Lent, GivenUp, Wrap
<1>6. Table'
  BY Zenon, <1>1, <1>4, <1>5 DEF Table, Archiving, Restoring, LentIfOld, SettledIfOld, SameParties, SameFlags
<1>7. /\ Parked.live = t.cand
      /\ (IsNew => Parked.slot[t.cand] = None) /\ (Quarantines => Parked.staging.marker = None)
  BY <1>1, <1>2, <1>3, Zenon DEF Parties, Over
<1> QED
  BY Zenon, <1>3, <1>4, <1>6, <1>7, Move

(* The empty wrapper that took an archived candidate's name is parked, when
   the candidate is committed and when it is quarantined. *)
LEMMA RetiredKeeps ==
  ASSUME TransitionInv, t.step \in {"retire", "retire_failed"}, ~IsNew, Lent
  PROVE  /\ NamespaceOK(Parking(ns, t.cand)) /\ \A s \in States : Held(ns, s) => Held(Parking(ns, t.cand), s)
         /\ Parking(ns, t.cand).live = ns.live /\ Parking(ns, t.cand).staging = ns.staging
         /\ Parking(ns, t.cand).quarantine = ns.quarantine
         /\ Parking(ns, t.cand).slot[t.cand] = None /\ Parking(ns, t.cand).slot[t.prev] = ns.slot[t.prev]
         /\ t.cand \in Parking(ns, t.cand).displaced
<1> DEFINE m == Parking(ns, t.cand)
<1>0. m = [ns EXCEPT !.slot[t.cand] = None, !.displaced = @ \cup {t.cand}]
  BY Zenon DEF Parking
<1>1. /\ t \in Transition /\ Parties /\ rows \subseteq States /\ NamespaceOK(ns) /\ ns \in Namespace
  BY NowRunning, Zenon
<1>2. /\ t.prev \in States /\ t.cand \in States /\ t.cand # t.prev /\ ns.slot[t.cand] = Wrap(None, t.cand)
  BY Zenon, <1>1 DEF Parties, Lent
<1>3. ~Slotted(ns, t.cand)
  BY <1>2, Wraps DEF Slotted
<1>4. m \in Namespace
  <2>1. [ns EXCEPT !.slot[t.cand] = None, !.displaced = @ \cup {t.cand}] \in Namespace
    BY <1>1, <1>2, Zenon DEF Namespace
  <2> QED
    BY Zenon, <1>0, <2>1
<1>5. /\ m.live = ns.live /\ m.staging = ns.staging /\ m.quarantine = ns.quarantine
      /\ m.slot = [ns.slot EXCEPT ![t.cand] = None] /\ m.displaced = ns.displaced \cup {t.cand}
      /\ m.displaced \subseteq ns.displaced \cup {t.cand}
  BY Zenon, <1>0, <1>1 DEF Namespace
<1>6. NamespaceOK(m) /\ \A s \in States : Held(ns, s) => Held(m, s)
  BY <1>1, <1>2, <1>3, <1>4, <1>5, ParkKeeps, Zenon
<1> QED
  BY Zenon, <1>1, <1>2, <1>5, <1>6 DEF Namespace

(* retire_displaced_archived_candidate_slot: the wrapper the candidate came
   from is parked. *)
LEMMA RetireStep ==
  ASSUME TransitionInv, t.step = "retire", Goto("retire_sync"),
         Rename([ns EXCEPT !.slot[t.cand] = None, !.displaced = @ \cup {t.cand}])
  PROVE  TransitionInv'
<1> DEFINE m == Parking(ns, t.cand)
<1>4. Rename(m) /\ ns' = m
  BY Zenon DEF Rename, Parking
<1>1. /\ t \in Transition /\ Parties /\ Table
  BY Zenon, NowRunning
<1>2. ~IsNew /\ Finishing /\ Lent
  BY <1>1, Zenon DEF Table, LentIfOld
<1>3. /\ NamespaceOK(m) /\ \A s \in States : Held(ns, s) => Held(m, s)
      /\ m.live = ns.live /\ m.staging = ns.staging
      /\ m.slot[t.cand] = None /\ m.slot[t.prev] = ns.slot[t.prev] /\ t.cand \in m.displaced
  BY Zenon, <1>2, RetiredKeeps
<1>5. t' \in Transition /\ t'.step = "retire_sync" /\ SameParties /\ SameCourse /\ SameFlags
  BY Zenon, <1>1, GotoFields, StepNames
<1>6. ~IsNew' /\ GivenUp' /\ InPlace'
  BY Zenon, <1>2, <1>3, <1>4, <1>5 DEF SameParties, IsNew, GivenUp, InPlace, Finishing, Lent, Slotted, Wrap, Bare
<1>7. Table'
  BY Zenon, <1>2, <1>5, <1>6 DEF Table, Finishing, SameParties, SameFlags
<1>8. m.live = t.cand /\ m.staging.marker = None
  BY <1>2, <1>3, Zenon DEF Finishing, InPlace, Lent
<1> QED
  BY Zenon, <1>2, <1>3, <1>4, <1>5, <1>7, <1>8, Move

(* The same for a candidate that failed and went to the quarantine. *)
LEMMA RetireFailedStep ==
  ASSUME TransitionInv, t.step = "retire_failed", t' = [t EXCEPT !.step = "retire_failed_sync"],
         t.cand \notin ns.displaced,
         Rename([ns EXCEPT !.slot[t.cand] = None, !.displaced = @ \cup {t.cand}])
  PROVE  TransitionInv'
<1> DEFINE m == Parking(ns, t.cand)
<1>4. Rename(m) /\ ns' = m
  BY Zenon DEF Rename, Parking
<1>1. /\ t \in Transition /\ Parties /\ Table
  BY Zenon, NowRunning
<1>2. ~IsNew /\ Isolated /\ Lent /\ NoSlotLeft
  BY <1>1, Zenon DEF Table, SettledIfOld, GivenUp
<1>3. /\ NamespaceOK(m) /\ \A s \in States : Held(ns, s) => Held(m, s)
      /\ m.live = ns.live /\ m.staging = ns.staging /\ m.quarantine = ns.quarantine
      /\ m.slot[t.cand] = None /\ m.slot[t.prev] = ns.slot[t.prev] /\ t.cand \in m.displaced
  BY Zenon, <1>2, RetiredKeeps
<1>5. t' \in Transition /\ t'.step = "retire_failed_sync" /\ SameParties /\ SameCourse /\ SameFlags
  BY Zenon, <1>1, GotoFields, StepNames
<1>6. ~IsNew' /\ GivenUp' /\ Isolated' /\ NoSlotLeft'
  BY Zenon, <1>2, <1>3, <1>4, <1>5
     DEF SameParties, SameCourse, IsNew, GivenUp, Isolated, Quarantines, NoSlotLeft, NoSlot, Lent, Bare
<1>7. Table'
  BY Zenon, <1>5, <1>6 DEF Table
<1>8. m.live = t.prev /\ m.staging.marker = None
  BY <1>2, <1>3, Zenon DEF Isolated, Lent
<1> QED
  BY Zenon, <1>2, <1>3, <1>4, <1>5, <1>7, <1>8, Move

(* restore_previous_to_staging: the previous tree moves back from its slot. *)
LEMMA RestoreStep ==
  ASSUME TransitionInv, t.step = "restore", Goto("restore_sync"),
         Rename([ns EXCEPT !.slot[t.prev].usr = None, !.staging.usr = t.prev])
  PROVE  TransitionInv'
<1> DEFINE m == MovingBack(ns, t.prev)
<1>5. Rename(m) /\ ns' = m
  BY Zenon DEF Rename, MovingBack
<1>1. /\ t \in Transition /\ Parties /\ Table /\ rows \subseteq States /\ NamespaceOK(ns)
  BY NowRunning, Zenon
<1>2. Restoring /\ InPlace
  BY <1>1, Zenon DEF Table
<1>3. /\ t.prev \in States /\ t.cand \in States /\ t.cand # t.prev /\ (IsNew => ns.slot[t.cand] = None)
      /\ t.prev # Empty /\ ns.staging = Bare /\ Slotted(ns, t.prev) /\ ns.live = t.cand
  BY Zenon, <1>1, <1>2 DEF Parties, Restoring, InPlace
<1>4. /\ NamespaceOK(m) /\ \A s \in States : Held(ns, s) => Held(m, s)
      /\ m.live = ns.live /\ m.staging = Wrap(t.prev, None) /\ m.slot[t.cand] = ns.slot[t.cand]
      /\ m.displaced = ns.displaced
  BY <1>1, <1>3, RestoreKeeps, Zenon
<1>6. t' \in Transition /\ t'.step = "restore_sync" /\ SameParties /\ SameCourse /\ SameFlags
  BY Zenon, <1>1, GotoFields, StepNames
<1>7. m.staging.marker = None
  BY <1>3, <1>4, Wraps
<1>8. Over' /\ SettledIfOld'
  BY <1>2, <1>3, <1>4, <1>5, <1>6, <1>7 DEF Restoring, SettledIfOld, IsNew, Lent, GivenUp, SameParties, Over, Wrap
<1>9. Table'
  BY Zenon, <1>2, <1>6, <1>8 DEF Table, Restoring, SameParties, SameFlags
<1> QED
  BY Zenon, <1>3, <1>4, <1>5, <1>6, <1>7, <1>9, Move

(* exchange_staging_and_live_usr: the previous tree is live again. *)
LEMMA ReverseStep ==
  ASSUME TransitionInv, t.step = "reverse", Goto("reverse_sync"),
         Rename([ns EXCEPT !.live = ns.staging.usr, !.staging.usr = ns.live])
  PROVE  TransitionInv'
<1> DEFINE m == Exchanging(ns)
<1>6. Rename(m) /\ ns' = m
  BY Zenon DEF Rename, Exchanging
<1>1. /\ t \in Transition /\ Parties /\ Table /\ rows \subseteq States /\ NamespaceOK(ns)
  BY NowRunning, Zenon
<1>2. Over /\ SettledIfOld /\ NoSlotLeft
  BY <1>1, Zenon DEF Table
<1>3. /\ t.prev \in rows \cup {Empty} /\ t.cand \in States /\ ns.staging = Wrap(t.prev, None) /\ ns.live = t.cand
      /\ (IsNew => ns.slot[t.cand] = None)
  BY <1>1, <1>2, Zenon DEF Parties, Over
<1>4. ns.staging.usr = t.prev /\ ns.staging.marker = None
  BY <1>1, <1>3, Wraps
<1>5. /\ NamespaceOK(m) /\ \A s \in States : Held(ns, s) => Held(m, s)
      /\ m.live = t.prev /\ m.staging = Wrap(t.cand, None)
      /\ m.slot = ns.slot /\ m.displaced = ns.displaced /\ m.quarantine = ns.quarantine
  BY <1>1, <1>3, <1>4, ExchangeKeeps, Zenon
<1>7. t' \in Transition /\ t'.step = "reverse_sync" /\ SameParties /\ SameCourse /\ SameFlags
  BY Zenon, <1>1, GotoFields, StepNames
<1>8. m.staging.usr = t.cand /\ m.staging.marker = None
  BY <1>3, <1>5, Wraps
<1>9. Waits' /\ SettledIfOld' /\ NoSlotLeft'
  BY Zenon, <1>2, <1>4, <1>5, <1>6, <1>7, <1>8
     DEF SameParties, SameCourse, Waits, SettledIfOld, NoSlotLeft, NoSlot, IsNew, Lent, GivenUp, Wrap
<1>10. Table'
  BY Zenon, <1>7, <1>9 DEF Table
<1> QED
  BY Zenon, <1>3, <1>5, <1>6, <1>7, <1>8, <1>10, Move

(* quarantine_candidate: the tree of a failed candidate moves to the
   quarantine. *)
LEMMA QuarantineStep ==
  ASSUME TransitionInv, t.step = "preserve", Quarantines, t.cand \notin ns.quarantine,
         t' = [t EXCEPT !.step = "quarantine_sync"],
         Rename([ns EXCEPT !.quarantine = @ \cup {t.cand}, !.staging.usr = None])
  PROVE  TransitionInv'
<1> DEFINE m == Quarantining(ns, t.cand)
<1>6. Rename(m) /\ ns' = m
  BY Zenon DEF Rename, Quarantining
<1>1. /\ t \in Transition /\ Parties /\ Table /\ rows \subseteq States /\ NamespaceOK(ns) /\ ns \in Namespace
  BY NowRunning, Zenon
<1>2. NoSlotLeft /\ Waits /\ (~IsNew => Marked \/ Lent \/ GivenUp)
  BY <1>1, Zenon DEF Table, Isolated
<1>3. /\ t.cand \in States
      /\ (IsNew => ns.slot[t.cand] = None) /\ ns.staging.marker = None /\ ns.staging.usr = t.cand /\ ns.live = t.prev
  BY <1>1, <1>2, Zenon DEF Parties, Waits
<1>4. ns.staging = Wrap(t.cand, None) /\ SettledIfOld
  <2>1. ns.staging = Wrap(t.cand, None)
    BY Zenon, <1>1, <1>3, SomeWrapper DEF Namespace
  <2>2. ~Marked
    BY Zenon, <1>3, Wraps DEF Marked
  <2> QED
    BY <1>2, <2>1, <2>2, Zenon DEF SettledIfOld
<1>5. /\ NamespaceOK(m) /\ \A s \in States : Held(ns, s) => Held(m, s)
      /\ m.live = ns.live /\ m.staging = Bare /\ m.slot = ns.slot /\ m.displaced = ns.displaced
      /\ m.quarantine = ns.quarantine \cup {t.cand}
  <2>1. NamespaceOK(ns) /\ rows \subseteq States /\ t.cand \in States /\ ns.staging = Wrap(t.cand, None)
    BY <1>1, <1>3, <1>4, Zenon
  <2> QED
    BY <2>1, QuarantineKeeps
<1>7. t' \in Transition /\ t'.step = "quarantine_sync" /\ SameParties /\ SameCourse /\ SameFlags
  BY Zenon, <1>1, GotoFields, StepNames
<1>8. m.staging.marker = None
  BY Zenon, <1>5, Wraps
<1>9. Isolated' /\ SettledIfOld' /\ NoSlotLeft'
  BY Zenon, <1>2, <1>3, <1>4, <1>5, <1>6, <1>7, <1>8
     DEF SameParties, SameCourse, Isolated, Quarantines, SettledIfOld, NoSlotLeft, NoSlot, IsNew, Lent, GivenUp, Wrap, Bare
<1>10. Table'
  BY Zenon, <1>7, <1>9 DEF Table
<1> QED
  BY Zenon, <1>3, <1>5, <1>6, <1>7, <1>8, <1>10, Move

(* rearchive_archived_candidate takes the parked wrapper of the candidate
   back first. *)
LEMMA UnparkStep ==
  ASSUME TransitionInv, t.step = "preserve", ~Quarantines, t.cand \in ns.displaced,
         t' = [t EXCEPT !.step = "unpark_sync"],
         Rename([ns EXCEPT !.displaced = @ \ {t.cand}, !.slot[t.cand] = [Bare EXCEPT !.marker = t.cand]])
  PROVE  TransitionInv'
<1> DEFINE m == [ns EXCEPT !.displaced = @ \ {t.cand}, !.slot[t.cand] = [Bare EXCEPT !.marker = t.cand]]
<1>1. /\ t \in Transition /\ Parties /\ Table /\ rows \subseteq States /\ NamespaceOK(ns) /\ ns \in Namespace
  BY NowRunning, Zenon
<1>2. NoSlotLeft /\ Waits /\ ~IsNew /\ (Marked \/ Lent \/ GivenUp)
  BY <1>1, Zenon DEF Table, Isolated, IsNew, Quarantines
<1>3. /\ t.cand \in States /\ t.prev \in States /\ t.cand # t.prev /\ t.cand \in rows
  BY Zenon, <1>1, <1>2 DEF Parties
<1>4. ns.slot[t.cand] = None
  BY <1>1, Zenon DEF NamespaceOK, OnePlace
<1>5. ns.staging.marker = None
  BY Zenon, <1>2, <1>4, Wraps DEF Marked, Lent, GivenUp
<1>6. /\ [Bare EXCEPT !.marker = t.cand] = Wrap(None, t.cand) /\ Wrap(None, t.cand) \in Wrapper
      /\ Wrap(None, t.cand).usr = None
  BY <1>3, Wraps DEF Bare, Wrap
<1>7. m \in Namespace
  BY <1>1, <1>6, Zenon DEF Namespace
<1>8. /\ m.live = ns.live /\ m.staging = ns.staging /\ m.slot = [ns.slot EXCEPT ![t.cand] = Wrap(None, t.cand)]
      /\ m.displaced = ns.displaced \ {t.cand} /\ m.quarantine = ns.quarantine
  BY Zenon, <1>1, <1>6 DEF Namespace
<1>9. Rename(m) /\ ns' = m
  BY Zenon DEF Rename
<1> HIDE DEF m
<1>10. NamespaceOK(m) /\ \A s \in States : Held(ns, s) => Held(m, s)
  BY <1>1, <1>3, <1>4, <1>6, <1>7, <1>8, PublishKeeps, Zenon
<1>11. t' \in Transition /\ t'.step = "unpark_sync" /\ SameParties /\ SameCourse /\ SameFlags
  BY Zenon, <1>1, GotoFields, StepNames
<1>12. m.slot[t.cand] = Wrap(None, t.cand) /\ m.slot[t.prev] = ns.slot[t.prev]
  BY Zenon, <1>1, <1>3, <1>8 DEF Namespace
<1>13. ~Quarantines' /\ Waits' /\ Lent' /\ NoSlotLeft'
  BY <1>2, <1>5, <1>8, <1>9, <1>11, <1>12, Zenon
     DEF SameParties, SameCourse, Quarantines, Waits, Lent, NoSlotLeft, NoSlot, Wrap
<1>14. Table'
  BY Zenon, <1>11, <1>13 DEF Table
<1> QED
  BY Zenon, <1>2, <1>8, <1>9, <1>10, <1>11, <1>14, Move DEF Waits

(* The marker goes back to the wrapper that holds the candidate. *)
LEMMA MarkerBackStep ==
  ASSUME TransitionInv, t.step = "marker_back", ns.staging.marker # t.cand, t' = [t EXCEPT !.step = "rearchive"],
         Rename([ns EXCEPT !.staging.marker = t.cand, !.slot[t.cand].marker = None])
  PROVE  TransitionInv'
<1> DEFINE m == [ns EXCEPT !.staging.marker = t.cand, !.slot[t.cand].marker = None]
<1>1. /\ t \in Transition /\ Parties /\ Table /\ rows \subseteq States /\ NamespaceOK(ns) /\ ns \in Namespace
  BY NowRunning, Zenon
<1>2. NoSlotLeft /\ Waits /\ ~Quarantines /\ Lent /\ ~IsNew
  BY <1>1, Zenon DEF Table, Marked, IsNew, Quarantines
<1>3. /\ t.cand \in States /\ t.prev \in States /\ t.cand # t.prev
  BY Zenon, <1>1, <1>2 DEF Parties
<1>4. /\ ns.staging \in Wrapper /\ ns.slot \in [States -> Wrapper \cup {None}] /\ ns.staging.usr = t.cand
      /\ ns.slot[t.cand] = Wrap(None, t.cand)
  BY Zenon, <1>1, <1>2 DEF Namespace, Waits, Lent
<1>5. /\ [ns.staging EXCEPT !.marker = t.cand] = Wrap(t.cand, t.cand)
      /\ [Wrap(None, t.cand) EXCEPT !.marker = None] = Bare
  BY <1>4 DEF Wrapper, Wrap, Bare
<1>6. /\ m.live = ns.live /\ m.staging = Wrap(t.cand, t.cand) /\ m.slot = [ns.slot EXCEPT ![t.cand] = Bare]
      /\ m.displaced = ns.displaced /\ m.quarantine = ns.quarantine
  BY Zenon, <1>1, <1>4, <1>5 DEF Namespace
<1>7. m \in Namespace
  <2>1. [ns.slot[t.cand] EXCEPT !.marker = None] = Bare
    BY Zenon, <1>4, <1>5
  <2>2. [ns.staging EXCEPT !.marker = t.cand] \in Wrapper /\ [ns.slot[t.cand] EXCEPT !.marker = None] \in Wrapper
    <3>1. Wrap(t.cand, t.cand) \in Wrapper /\ Bare \in Wrapper
      BY Zenon, <1>3, Wraps
    <3> QED
      BY Zenon, <1>5, <2>1, <3>1
  <2> QED
    BY <1>1, <2>2, Zenon DEF Namespace
<1>8. Rename(m) /\ ns' = m
  BY Zenon DEF Rename
<1> HIDE DEF m
<1>9. /\ m.slot[t.cand] = Bare /\ \A s \in States \ {t.cand} : m.slot[s] = ns.slot[s]
  BY Zenon, <1>3, <1>4, <1>6
<1>10. /\ m.staging.usr = t.cand /\ m.staging.marker = t.cand /\ Bare # None /\ Bare.usr = None
       /\ ns.slot[t.cand] # None /\ ns.slot[t.cand].usr = None
  BY <1>3, <1>4, <1>6, Wraps
<1>11. NamespaceOK(m) /\ \A s \in States : Held(ns, s) => Held(m, s)
  <2>1. \A s \in States : (m.slot[s] = None <=> ns.slot[s] = None) /\ (ns.slot[s] # None => m.slot[s].usr = ns.slot[s].usr)
    BY Zenon, <1>9, <1>10
  <2> QED
    BY Zenon, <1>1, <1>4, <1>6, <1>7, <1>10, <2>1, MarkersKeep
<1>12. t' \in Transition /\ t'.step = "rearchive" /\ SameParties /\ SameCourse /\ SameFlags
  BY Zenon, <1>1, GotoFields, StepNames
<1>13. ~Quarantines' /\ Waits' /\ Marked' /\ NoSlotLeft'
  <2>1. m.slot[t.prev] = ns.slot[t.prev]
    BY Zenon, <1>3, <1>9
  <2>2. Waits' /\ Marked'
    BY <1>2, <1>6, <1>8, <1>9, <1>10, <1>12, Zenon DEF SameParties, Waits, Marked, Bare
  <2>3. ~Quarantines' /\ NoSlotLeft'
    BY <1>2, <1>8, <1>12, <2>1, Zenon DEF SameParties, SameCourse, Quarantines, NoSlotLeft, NoSlot
  <2> QED
    BY Zenon, <2>2, <2>3
<1>14. Table'
  BY Zenon, <1>12, <1>13 DEF Table
<1> QED
  BY Zenon, <1>2, <1>6, <1>8, <1>11, <1>12, <1>14, Move DEF Waits

(* rearchive_archived_candidate: the candidate is back under its own name. *)
LEMMA RearchiveStep ==
  ASSUME TransitionInv, t.step = "rearchive", Goto("rearchive_sync"),
         Rename([ns EXCEPT !.slot[t.cand] = ns.staging, !.staging = ns.slot[t.cand]])
  PROVE  TransitionInv'
<1> DEFINE m == Rearchiving(ns, t.cand)
<1>6. Rename(m) /\ ns' = m
  BY Zenon DEF Rename, Rearchiving
<1>1. /\ t \in Transition /\ Parties /\ Table /\ rows \subseteq States /\ NamespaceOK(ns) /\ ns \in Namespace
  BY NowRunning, Zenon
<1>2. NoSlotLeft /\ Waits /\ ~Quarantines /\ Marked /\ ~IsNew
  BY <1>1, Zenon DEF Table, IsNew, Quarantines
<1>3. /\ t.cand \in States /\ t.prev \in States /\ t.cand # t.prev
  BY Zenon, <1>1, <1>2 DEF Parties
<1>4. ns.staging = Wrap(t.cand, t.cand) /\ ns.slot[t.cand] = Bare
  BY Zenon, <1>1, <1>2, SomeWrapper DEF Namespace, Waits, Marked
<1>5. /\ NamespaceOK(m) /\ \A s \in States : Held(ns, s) => Held(m, s)
      /\ m.live = ns.live /\ m.staging = Bare /\ m.slot = [ns.slot EXCEPT ![t.cand] = Wrap(t.cand, t.cand)]
  BY <1>1, <1>3, <1>4, RearchiveKeeps, Zenon
<1>7. t' \in Transition /\ t'.step = "rearchive_sync" /\ SameParties /\ SameCourse /\ SameFlags
  BY Zenon, <1>1, GotoFields, StepNames
<1>8. m.slot[t.cand] = Wrap(t.cand, t.cand) /\ m.slot[t.prev] = ns.slot[t.prev]
  BY Zenon, <1>1, <1>3, <1>5 DEF Namespace
<1>9. ~Quarantines' /\ Shelved' /\ NoSlotLeft'
  BY <1>2, <1>5, <1>6, <1>7, <1>8, Zenon
     DEF SameParties, SameCourse, Quarantines, Waits, Shelved, NoSlotLeft, NoSlot, Wrap, Bare
<1>10. Table'
  BY Zenon, <1>7, <1>9 DEF Table
<1> QED
  BY Zenon, <1>2, <1>5, <1>6, <1>7, <1>10, Move DEF Waits

-----------------------------------------------------------------------------
(* The ends. *)
LEMMA EndWithEarly ==
  ASSUME TransitionInv, NEW x, x \notin {"committed", "restored", "preserved"}, EndWith(x)
  PROVE  TransitionInv'
<1>1. last'.result = x /\ t' = Idle /\ ns' = ns /\ disk' = disk /\ rows' = rows
  BY Zenon DEF EndWith
<1> QED
  BY <1>1, EndsEarly, Zenon

(* A recovery that cannot tell the names apart stops and reports it. *)
LEMMA RecoveryErrorEnds ==
  ASSUME TransitionInv, NEW x, stateful_recovery_error(x)
  PROVE  TransitionInv'
<1>1. last'.result = "recovery_failed" /\ t' = Idle /\ ns' = ns /\ disk' = disk /\ rows' = rows
  BY Zenon DEF stateful_recovery_error
<1> QED
  BY Zenon, <1>1, EndsEarly

(* commit_stateful_staging: what is reported as committed is committed. *)
LEMMA CommitStep ==
  ASSUME TransitionInv, commit_stateful_staging
  PROVE  TransitionInv'
<1>1. t.step = "committed" /\ EndWith("committed")
  BY Zenon DEF commit_stateful_staging
<1>2. /\ t \in Transition /\ Parties /\ Table
  BY Zenon, <1>1, NowRunning
<1>3. Finishing /\ (~IsNew => GivenUp) /\ disk = {ns}
  BY <1>1, <1>2, Zenon DEF Table
<1>4. /\ last'.result = "committed" /\ last'.t.cand = t.cand /\ last'.t.prev = t.prev
      /\ t' = Idle /\ ns' = ns /\ disk' = disk /\ rows' = rows
  BY Zenon, <1>1, <1>2 DEF EndWith, Transition
<1>5. /\ ns.live = t.cand /\ ns.slot[t.cand] = None /\ t.cand \in rows
      /\ t.prev # Empty => ns.staging = Bare /\ ns.slot[t.prev].usr = t.prev
  BY Zenon, <1>1, <1>2, <1>3 DEF Finishing, InPlace, GivenUp, Parties, Slotted
<1>6. EndIsWhole'
  BY Zenon, <1>3, <1>4, <1>5 DEF EndIsWhole, Bare
<1> QED
  BY <1>4, <1>6, EndsWhole, Zenon

(* The end of recovery: what is reported as restored or preserved is. *)
LEMMA RecoveredStep ==
  ASSUME TransitionInv, Recovered
  PROVE  TransitionInv'
<1>1. t.step = "repair" /\ ~t.booted
  BY Zenon DEF Recovered
<1>2. /\ t \in Transition /\ Running /\ Table
  BY Zenon, <1>1, NowRunning
<1>3. CASE t.failures # {}
  <2>1. EndWith("recovery_failed")
    BY Zenon, <1>3 DEF Recovered
  <2> QED
    BY Zenon, <2>1, EndWithEarly
<1>4. CASE t.failures = {}
  <2>1. PreviousIsBack /\ boot = last.boot
    BY Zenon, <1>1, <1>2, <1>4 DEF Table, Running
  <2>2. /\ last'.result \in {"restored", "preserved"} /\ last'.boot = last.boot
        /\ last'.t.cand = t.cand /\ last'.t.prev = t.prev /\ last'.t.blocked = t.blocked
        /\ last'.t.origin = t.origin /\ last'.t.triggers = t.triggers
        /\ t' = Idle /\ ns' = ns /\ disk' = disk /\ rows' = rows /\ boot' = boot
    BY Zenon, <1>2, <1>4 DEF Recovered, EndWith, Transition
  <2>3. EndIsWhole'
    BY Zenon, <2>1, <2>2 DEF EndIsWhole, PreviousIsBack, NoSlot, IsNew, Wrap, Bare
  <2> QED
    BY <2>2, <2>3, EndsWhole, Zenon
<1> QED
  BY Zenon, <1>3, <1>4

(* A power failure leaves one of the namespaces that may survive. *)
LEMMA PowerLossStep ==
  ASSUME TransitionInv, PowerLoss
  PROVE  TransitionInv'
<1>1. PICK d \in disk : ns' = d /\ disk' = {d}
  BY Zenon DEF PowerLoss
<1>2. t' = Idle /\ rows' = rows /\ last'.result = "killed" /\ NamespaceOK(d) /\ rows \subseteq States
  BY Zenon DEF PowerLoss, TransitionInv, Safe
<1>3. NamespaceOK(d)'
  BY <1>2, Zenon DEF NamespaceOK, OnePlace, Known, Held, Slotted
<1>4. HeldAll(ns.live)'
  BY <1>1, Zenon DEF HeldAll, Held
<1>5. Safe'
  BY <1>1, <1>2, <1>3, <1>4, Zenon DEF Safe
<1>6. Idle \in Transition
  BY Zenon DEF Idle, Transition, Steps
<1>7. EndIsWhole'
  BY Zenon, <1>2 DEF EndIsWhole
<1> QED
  BY <1>2, <1>5, <1>6, <1>7, Zenon DEF TransitionInv

(* The transition record that materialize_stateful_candidate and activate_state
   start with. *)
Begun(s, o, c, p, b) == [Idle EXCEPT !.step = s, !.origin = o, !.cand = c, !.prev = p, !.blocked = b]

(* It is a record of a transition whose course is still to come. *)
LEMMA BegunFields ==
  ASSUME NEW s \in {"add", "identity"}, NEW o \in {"Fresh", "Archived"}, NEW c \in States,
         NEW p \in States \cup {Empty},
         NEW b \in BOOLEAN
  PROVE  LET u == Begun(s, o, c, p, b)
         IN  /\ u \in Transition /\ u.step = s /\ u.origin = o /\ u.cand = c /\ u.prev = p /\ u.blocked = b
             /\ ~u.archived /\ ~u.cleanup /\ ~u.triggers
<1> DEFINE u == Begun(s, o, c, p, b)
<1>1. /\ u.step = s /\ u.origin = o /\ u.cand = c /\ u.prev = p /\ u.blocked = b
      /\ ~u.archived /\ ~u.cleanup /\ ~u.triggers
  BY Zenon DEF Idle, Begun
<1>2. s \in Steps
  BY Zenon, StepNames
<1>3. u \in Transition
  BY <1>2, Zenon DEF Idle, Begun, Transition
<1> QED
  BY Zenon, <1>1, <1>3

-----------------------------------------------------------------------------
(* The beginnings. *)
LEMMA MaterializeStep ==
  ASSUME TransitionInv, NEW c \in States, c \in New, materialize_stateful_candidate(c)
  PROVE  TransitionInv'
<1> DEFINE m == Filling(ns, c)
<1>1. /\ Safe /\ rows \subseteq States /\ ns \in disk /\ NamespaceOK(ns) /\ ns \in Namespace
  BY Zenon DEF TransitionInv, Safe, NamespaceOK
<1>2. /\ c \notin rows \cup ns.quarantine /\ ns.staging = Bare /\ ns' = m /\ disk' = disk \cup {m} /\ rows' = rows
      /\ boot' = boot
  BY Zenon DEF materialize_stateful_candidate, Filling
<1>3. /\ NamespaceOK(m) /\ \A s \in States : Held(ns, s) => Held(m, s)
      /\ m.live = ns.live /\ m.staging = Wrap(c, None) /\ m.slot = ns.slot
  BY <1>1, <1>2, MaterializeKeeps, Zenon
<1>4. ns.live \in rows \cup {Empty} /\ ns.slot[c] = None
  BY <1>1, <1>2, Zenon DEF NamespaceOK, Known
<1>5. Safe'
  <2>1. m.live = Empty \/ (m.live \in States /\ HeldAll(m.live))
    BY Zenon, <1>1, <1>3, <1>4 DEF Safe
  <2> QED
    BY <1>1, <1>2, <1>3, <2>1, RenameStep, Zenon
<1>6. /\ t' \in Transition /\ t'.step = "add" /\ t'.origin = "Fresh" /\ t'.cand = c /\ t'.prev = ns.live
      /\ t'.blocked = (ns.live # Empty /\ ns.slot[ns.live] # None)
      /\ ~t'.archived /\ ~t'.cleanup /\ ~t'.triggers
  <2> DEFINE b == ns.live # Empty /\ ns.slot[ns.live] # None
  <2>1. t' = Begun("add", "Fresh", c, ns.live, b)
    BY Zenon DEF materialize_stateful_candidate, Begun
  <2>2. b \in BOOLEAN /\ ns.live \in States \cup {Empty}
    BY <1>1, <1>4, Zenon
  <2> HIDE DEF b
  <2>3. /\ t' \in Transition /\ t'.step = "add" /\ t'.origin = "Fresh" /\ t'.cand = c /\ t'.prev = ns.live
        /\ t'.blocked = b /\ ~t'.archived /\ ~t'.cleanup /\ ~t'.triggers
    BY <2>1, <2>2, BegunFields
  <2> QED
    BY <2>3, Zenon DEF b
<1>7. last'.result = "none" /\ last'.boot = boot
  BY Zenon DEF materialize_stateful_candidate
<1>8. m.staging.usr = c /\ m.staging.marker = None
  BY <1>3, Wraps
<1>9. Parties'
  <2>1. c # ns.live
    BY <1>2, <1>4, Wraps
  <2>2. ns.live # Empty => HeldAll(ns.live)'
    BY <1>2, <1>3, <1>5, Zenon DEF Safe
  <2> QED
    BY Zenon, <1>2, <1>3, <1>4, <1>6, <1>8, <2>1, <2>2 DEF Parties, IsNew
<1>10. Table'
  <2>1. IsNew' /\ Waits' /\ Plain' /\ NoSlot'
    BY <1>2, <1>3, <1>6, <1>8, Zenon DEF IsNew, Waits, Plain, NoSlot
  <2> QED
    BY Zenon, <1>6, <2>1 DEF Table
<1>11. Running'
  BY <1>2, <1>7, <1>9, <1>10, Zenon DEF Running
<1>12. EndIsWhole'
  BY Zenon, <1>7 DEF EndIsWhole
<1> QED
  BY <1>5, <1>6, <1>11, <1>12, Zenon DEF TransitionInv

(* activate_state marks the slot of the archived candidate and starts. *)
LEMMA ActivateStep ==
  ASSUME TransitionInv, NEW c \in States, activate_state(c)
  PROVE  TransitionInv'
<1> DEFINE m == [ns EXCEPT !.slot[c].marker = c]
<1>1. /\ Safe /\ rows \subseteq States /\ ns \in disk /\ NamespaceOK(ns) /\ ns \in Namespace
  BY Zenon DEF TransitionInv, Safe, NamespaceOK
<1>2. /\ c \in rows /\ ns.live \notin {c, Empty} /\ ns.slot[c] # None /\ ns.slot[c].usr = c /\ ns.staging = Bare
      /\ ns' = m /\ disk' = disk \cup {m} /\ rows' = rows /\ boot' = boot
  BY Zenon DEF activate_state
<1>3. /\ ns.slot[c] \in Wrapper /\ [ns.slot[c] EXCEPT !.marker = c] = Wrap(c, c) /\ Wrap(c, c) \in Wrapper
      /\ Wrap(c, c) # None /\ Wrap(c, c).usr = c
  <2>1. ns.slot[c] \in Wrapper
    BY Zenon, <1>1, <1>2 DEF Namespace
  <2>2. [ns.slot[c] EXCEPT !.marker = c] = Wrap(c, c)
    BY <1>2, <2>1 DEF Wrapper, Wrap
  <2> QED
    BY <2>1, <2>2, Wraps
<1>4. m \in Namespace
  BY <1>1, <1>3, Zenon DEF Namespace
<1>5. /\ m.live = ns.live /\ m.staging = ns.staging /\ m.displaced = ns.displaced /\ m.quarantine = ns.quarantine
      /\ m.slot = [ns.slot EXCEPT ![c] = Wrap(c, c)]
  BY Zenon, <1>1, <1>3 DEF Namespace
<1> HIDE DEF m
<1>6. m.slot[c] = Wrap(c, c) /\ \A s \in States \ {c} : m.slot[s] = ns.slot[s]
  BY Zenon, <1>1, <1>5 DEF Namespace
<1>7. NamespaceOK(m) /\ \A s \in States : Held(ns, s) => Held(m, s)
  <2>1. \A s \in States : (m.slot[s] = None <=> ns.slot[s] = None) /\ (ns.slot[s] # None => m.slot[s].usr = ns.slot[s].usr)
    BY Zenon, <1>2, <1>3, <1>6
  <2> QED
    BY <1>1, <1>4, <1>5, <2>1, MarkersKeep, Zenon
<1>8. ns.live \in rows /\ ns.live \in States
  BY <1>1, <1>2, Zenon DEF NamespaceOK, Known
<1>9. Safe'
  <2>1. m.live \in States /\ HeldAll(m.live)
    BY Zenon, <1>1, <1>2, <1>5, <1>8 DEF Safe
  <2> QED
    BY <1>1, <1>2, <1>7, <2>1, RenameStep, Zenon
<1>10. /\ t' \in Transition /\ t'.step = "identity" /\ t'.origin = "Archived" /\ t'.cand = c /\ t'.prev = ns.live
       /\ t'.blocked = (ns.live # Empty /\ ns.slot[ns.live] # None)
       /\ ~t'.archived /\ ~t'.cleanup /\ ~t'.triggers
  <2> DEFINE b == ns.live # Empty /\ ns.slot[ns.live] # None
  <2>1. t' = Begun("identity", "Archived", c, ns.live, b)
    BY Zenon DEF activate_state, Begun
  <2>2. b \in BOOLEAN /\ ns.live \in States \cup {Empty}
    BY <1>8, Zenon
  <2> HIDE DEF b
  <2>3. /\ t' \in Transition /\ t'.step = "identity" /\ t'.origin = "Archived" /\ t'.cand = c /\ t'.prev = ns.live
        /\ t'.blocked = b /\ ~t'.archived /\ ~t'.cleanup /\ ~t'.triggers
    BY <2>1, <2>2, BegunFields
  <2> QED
    BY <2>3, Zenon DEF b
<1>11. last'.result = "none" /\ last'.boot = boot
  BY Zenon DEF activate_state
<1>12. Parties'
  <2>1. t'.prev = ns'.live /\ ns'.live # Empty /\ t'.prev \in rows' /\ t'.cand \in rows' /\ t'.cand # t'.prev
    BY Zenon, <1>2, <1>5, <1>8, <1>10
  <2>2. HeldAll(t.prev)'
    BY <1>9, <2>1, Zenon DEF Safe
  <2>3. ~IsNew' /\ ~Quarantines'
    BY Zenon, <1>10 DEF IsNew, Quarantines
  <2> QED
    <3>1. /\ t'.step # "idle" /\ t'.origin \in {"Fresh", "Archived"} /\ t'.step \in {"add", "identity"}
          /\ t'.cand \in States
          /\ t'.prev \in rows' \cup {Empty} /\ t'.prev # Empty
      BY Zenon, <1>10, <2>1
    <3> QED
      BY <2>1, <2>2, <2>3, <3>1, Zenon DEF Parties
<1>13. Table'
  <2>1. ~IsNew' /\ Shelved' /\ Plain'
    BY Zenon, <1>2, <1>5, <1>6, <1>10 DEF IsNew, Shelved, Plain
  <2>2. ~t'.blocked => ns.slot[ns.live] = None
    BY <1>2, <1>10, Zenon
  <2>3. NoSlot'
    <3>1. m.slot[ns.live] = ns.slot[ns.live]
      BY Zenon, <1>2, <1>6, <1>8
    <3> QED
      BY Zenon, <1>2, <1>10, <2>2, <3>1 DEF NoSlot
  <2> QED
    BY Zenon, <1>10, <2>1, <2>3 DEF Table
<1>14. Running'
  BY <1>2, <1>11, <1>12, <1>13, Zenon DEF Running
<1>15. EndIsWhole'
  BY Zenon, <1>11 DEF EndIsWhole
<1> QED
  BY <1>9, <1>10, <1>14, <1>15, Zenon DEF TransitionInv

(* A new state's row is added when nothing else of it is known. *)
LEMMA NewStateStep ==
  ASSUME TransitionInv, new_state
  PROVE  TransitionInv'
<1>1. /\ t.step = "add" /\ rows' = rows \cup {t.cand} /\ Goto("identity") /\ ns' = ns /\ disk' = disk /\ boot' = boot
      /\ last' = last
  BY Zenon DEF new_state
<1>2. /\ Safe /\ t \in Transition /\ Running /\ Parties /\ Table
  BY Zenon, <1>1, NowRunning
<1>3. IsNew /\ Waits /\ Plain /\ NoSlot /\ t.cand \in States /\ t.cand \in New
  BY <1>1, <1>2, Zenon DEF Table, Parties
<1>4. t' \in Transition /\ t'.step = "identity" /\ SameParties /\ SameCourse /\ SameFlags
  BY Zenon, <1>1, <1>2, GotoFields, StepNames
<1>5. \A s : HeldAll(s) => HeldAll(s)'
  BY <1>1, Zenon DEF HeldAll, Held, Slotted
<1>6. Safe'
  <2>1. \A d \in disk' : NamespaceOK(d)'
    <3> SUFFICES ASSUME NEW d \in disk' PROVE NamespaceOK(d)'
      BY Zenon
    <3>1. NamespaceOK(d)
      BY Zenon, <1>1, <1>2 DEF Safe
    <3>2. d \in Namespace' /\ OnePlace(d)'
      BY <3>1, Zenon DEF NamespaceOK, OnePlace, Slotted, Namespace, Wrapper, States
    <3>3. Known(d)'
      BY <1>1, <1>3, <3>1, Zenon DEF NamespaceOK, Known, Held, Slotted
    <3> QED
      BY <3>2, <3>3, Zenon DEF NamespaceOK
  <2> QED
    BY <1>1, <1>2, <1>3, <1>5, <2>1, Zenon DEF Safe
<1>7. SameTrees
  BY <1>1, Zenon DEF SameTrees
<1>8. Table'
  <2>1. IsNew' /\ Waits' /\ Plain' /\ NoSlot'
    BY <1>3, <1>4, <1>7, FrameAll, Zenon DEF Kept
  <2> QED
    BY Zenon, <1>4, <2>1 DEF Table
<1>9. Parties'
  <2>1. IsNew' /\ (Quarantines' <=> Quarantines)
    BY <1>3, <1>4, <1>7, FrameAll, Zenon DEF Kept
  <2> QED
    BY Zenon, <1>1, <1>2, <1>3, <1>4, <1>5, <2>1 DEF Parties, SameParties
<1>10. Running'
  BY <1>1, <1>2, <1>4, <1>8, <1>9, Zenon DEF Running, SameCourse
<1>11. EndIsWhole'
  BY <1>1, <1>2, Zenon DEF EndIsWhole, Running
<1> QED
  BY <1>4, <1>6, <1>10, <1>11, Zenon DEF TransitionInv

(* prepare_candidate seals the candidate, and its tree is on disk from then
   on. *)
LEMMA PrepareStep ==
  ASSUME TransitionInv, prepare_candidate
  PROVE  TransitionInv'
<1>1. t.step = "identity"
  BY Zenon DEF prepare_candidate
<1>2. /\ t \in Transition /\ Parties /\ Table
  BY Zenon, <1>1, NowRunning
<1>3. (IsNew => Waits) /\ (~IsNew => Shelved) /\ Plain /\ NoSlot /\ t.cand \in States /\ t.cand \in rows
  BY <1>1, <1>2, Zenon DEF Table, Parties
<1>4. CASE EndWith("unprepared")
  BY Zenon, <1>4, EndWithEarly
<1>5. CASE Goto(IF t.origin = "Fresh" THEN "prepare" ELSE "stage") /\ Sync
  <2>1. ns' = ns /\ rows' = rows /\ last' = last /\ boot' = boot /\ disk' = {ns}
    BY <1>5, Zenon DEF Sync
  <2>2. /\ t' \in Transition /\ SameParties /\ SameCourse /\ SameFlags
        /\ (IsNew => t'.step = "prepare") /\ (~IsNew => t'.step = "stage")
    <3>1. CASE IsNew
      BY Zenon, <1>2, <1>5, <3>1, GotoFields, StepNames DEF IsNew
    <3>2. CASE ~IsNew
      BY Zenon, <1>2, <1>5, <3>2, GotoFields, StepNames DEF IsNew
    <3> QED
      BY Zenon, <3>1, <3>2
  <2>3. Held(ns, t.cand)
    BY <1>3, Wraps DEF Held, Slotted, Waits, Shelved
  <2>4. SameTrees
    BY <2>1, Zenon DEF SameTrees
  <2>5. (IsNew' <=> IsNew) /\ (Waits' <=> Waits) /\ (Shelved' <=> Shelved) /\ (Plain' <=> Plain) /\ (NoSlot' <=> NoSlot)
    BY <2>2, <2>4, FrameAll, Zenon DEF Kept
  <2>6. Table'
    BY Zenon, <1>3, <2>2, <2>5 DEF Table
  <2> QED
    BY Zenon, <1>1, <2>1, <2>2, <2>3, <2>6, Walk DEF SameCourse
<1> QED
  BY Zenon, <1>4, <1>5 DEF prepare_candidate

-----------------------------------------------------------------------------
(* The way back starts where the trees are. *)
LEMMA Recovers ==
  ASSUME TransitionInv, t.step \notin {"idle", "add", "identity", "repair"}, t' \in Transition, SameParties,
         t'.slot = t.slot, t'.archived = t.archived, t'.step = RecoverAt(t'),
         ns' = ns, disk' = disk, rows' = rows, last' = last,
         t'.triggers = t.triggers \/ ns.staging.marker = None,
         ~t'.booted /\ t'.failures = {} => boot' = boot /\ ~t.booted /\ t.failures = {},
         SettledIfOld,
         t'.cleanup => Archiving /\ (t.slot = "none" => NoSlot),
         ~t'.cleanup /\ t.archived => InPlace /\ t.prev # Empty,
         ~t'.cleanup /\ ~t.archived => Over /\ NoSlot
  PROVE  TransitionInv'
<1>1. SameTrees
  BY Zenon DEF SameTrees
<1>2. /\ SettledIfOld'
      /\ (Over' <=> Over) /\ (InPlace' <=> InPlace) /\ (NoSlot' <=> NoSlot) /\ (LentIfOld' <=> LentIfOld)
  BY <1>1, FrameFacts, Zenon
<1>3. CASE t'.cleanup
  <2>1. t'.step = "cleanup" /\ Archiving'
    BY Zenon, <1>2, <1>3 DEF RecoverAt, Archiving, SameParties
  <2>2. Table'
    BY Zenon, <1>2, <1>3, <2>1 DEF Table
  <2> QED
    BY Zenon, <2>1, <2>2, Walk
<1>4. CASE ~t'.cleanup /\ t.archived
  <2>1. t'.step = "restore" /\ Restoring' /\ InPlace'
    BY Zenon, <1>2, <1>4 DEF RecoverAt, Restoring, SameParties
  <2>2. Table'
    BY Zenon, <2>1 DEF Table
  <2> QED
    BY Zenon, <2>1, <2>2, Walk
<1>5. CASE ~t'.cleanup /\ ~t.archived
  <2>1. t'.step = "reverse" /\ Over' /\ NoSlotLeft'
    BY Zenon, <1>2, <1>5 DEF RecoverAt, NoSlotLeft
  <2>2. Table'
    BY Zenon, <1>2, <2>1 DEF Table
  <2> QED
    BY Zenon, <2>1, <2>2, Walk
<1> QED
  BY Zenon, <1>3, <1>4, <1>5

(* recover_swapped_candidate changes the record of the transition only. *)
LEMMA RecoverFields ==
  ASSUME t \in Transition, NEW r1 \in Transition, recover_swapped_candidate(r1)
  PROVE  /\ t' \in Transition /\ t'.step = RecoverAt(t') /\ ns' = ns /\ disk' = disk /\ rows' = rows /\ last' = last
         /\ boot' = boot
         /\ t'.origin = r1.origin /\ t'.cand = r1.cand /\ t'.prev = r1.prev /\ t'.blocked = r1.blocked
         /\ t'.slot = r1.slot /\ t'.archived = r1.archived /\ t'.cleanup = r1.cleanup
         /\ t'.triggers = r1.triggers /\ t'.booted = r1.booted /\ t'.failures = r1.failures
<1>1. ns' = ns /\ disk' = disk /\ rows' = rows /\ last' = last /\ boot' = boot
  BY Zenon DEF recover_swapped_candidate, Still
<1>2. RecoverAt(r1) \in Steps
  BY Zenon, StepNames DEF RecoverAt
<1>3. t' = [r1 EXCEPT !.step = RecoverAt(r1), !.retried = FALSE, !.swapped = TRUE]
  BY Zenon DEF recover_swapped_candidate
<1>4. /\ t' \in Transition /\ t'.step = RecoverAt(r1)
      /\ t'.origin = r1.origin /\ t'.cand = r1.cand /\ t'.prev = r1.prev /\ t'.blocked = r1.blocked
      /\ t'.slot = r1.slot /\ t'.archived = r1.archived /\ t'.cleanup = r1.cleanup
      /\ t'.triggers = r1.triggers /\ t'.booted = r1.booted /\ t'.failures = r1.failures
  BY <1>2, <1>3, Zenon DEF Transition
<1> QED
  BY Zenon, <1>1, <1>4 DEF RecoverAt

(* From where a forward step may be given up. *)
LEMMA BackFrom ==
  ASSUME TransitionInv,
         t.step \in {"exchange_sync", "triggers", "slot_abort", "abort_sync", "move_sync", "boot", "retire", "retire_sync"}
  PROVE  /\ SettledIfOld
         /\ t.cleanup => Archiving /\ (t.slot = "none" => NoSlot)
         /\ ~t.cleanup /\ t.archived => InPlace /\ t.prev # Empty
         /\ ~t.cleanup /\ ~t.archived => Over /\ NoSlot
<1>1. Table /\ Parties
  BY Zenon, NowRunning
<1>2. CASE t.step \in {"exchange_sync", "triggers"}
  <2>1. Over /\ LentIfOld /\ Plain /\ NoSlot
    BY Zenon, <1>1, <1>2 DEF Table
  <2> QED
    BY Zenon, <2>1 DEF LentIfOld, SettledIfOld, Plain
<1>3. CASE t.step \in {"slot_abort", "abort_sync"}
  <2>1. Archiving /\ t.cleanup /\ (t.slot = "none" => NoSlot)
    BY Zenon, <1>1, <1>3 DEF Table
  <2> QED
    BY Zenon, <2>1 DEF LentIfOld, SettledIfOld, Archiving
<1>4. CASE t.step \in {"move_sync", "boot", "retire", "retire_sync"}
  <2>1. Finishing /\ SettledIfOld
    BY Zenon, <1>1, <1>4 DEF Table, LentIfOld, SettledIfOld
  <2>2. t.prev = Empty => Over /\ NoSlot
    BY Zenon, <2>1 DEF Finishing, InPlace, Over, NoSlot
  <2> QED
    BY Zenon, <2>1, <2>2 DEF Finishing
<1> QED
  BY Zenon, <1>2, <1>3, <1>4

(* From every step after the exchange, recover_swapped_candidate starts where
   the trees are. *)
LEMMA BackStep ==
  ASSUME TransitionInv, recover_swapped_candidate(t),
         t.step \in {"exchange_sync", "triggers", "slot_abort", "abort_sync", "move_sync", "boot", "retire", "retire_sync"}
  PROVE  TransitionInv'
<1>1. t \in Transition
  BY Zenon DEF TransitionInv
<1>2. /\ t' \in Transition /\ t'.step = RecoverAt(t') /\ SameParties /\ SameCourse /\ SameFlags
      /\ ns' = ns /\ disk' = disk /\ rows' = rows /\ last' = last /\ boot' = boot
  BY Zenon, <1>1, RecoverFields DEF SameParties, SameCourse, SameFlags
<1>3. t.step \notin {"idle", "add", "identity", "repair"}
  BY Zenon
<1> QED
  BY Zenon, <1>2, <1>3, BackFrom, Recovers DEF SameCourse, SameFlags

-----------------------------------------------------------------------------
(* The forward steps, one by one. *)
LEMMA BlitStep ==
  ASSUME TransitionInv, apply_stateful_blit_with_capability
  PROVE  TransitionInv'
<1>1. t.step = "prepare" /\ Still /\ (Goto("exchange") \/ Goto("preserve"))
  BY Zenon DEF apply_stateful_blit_with_capability
<1>2. IsNew /\ Waits /\ Plain /\ NoSlot
  BY Zenon, <1>1, NowRunning DEF Table
<1>3. LentIfOld /\ NoSlotLeft
  BY <1>2, Zenon DEF LentIfOld, NoSlotLeft
<1>4. CASE Goto("exchange")
  <2>1. WentOn("exchange") /\ Kept /\ (Table' => TransitionInv')
    BY <1>1, <1>4, WalkOn, StepNames
  <2> QED
    BY <1>2, <1>3, <2>1, Zenon DEF Table, WentOn, Kept
<1>5. CASE Goto("preserve")
  <2>1. WentOn("preserve") /\ Kept /\ (Table' => TransitionInv')
    BY <1>1, <1>5, WalkOn, StepNames
  <2> QED
    BY Zenon, <1>2, <1>3, <2>1 DEF Table, WentOn, Kept
<1> QED
  BY Zenon, <1>1, <1>4, <1>5

(* The steps that stage an archived candidate. *)
LEMMA StageSteps ==
  ASSUME TransitionInv,
         \/ stage_archived_candidate \/ ensure_slot_marker_location \/ finish_move \/ finish_applied_archived_candidate_stage
  PROVE  TransitionInv'
<1>1. CASE stage_archived_candidate
  BY Zenon, <1>1, StageStep, EndWithEarly DEF stage_archived_candidate
<1>2. CASE ensure_slot_marker_location
  BY Zenon, <1>2, StageMarkerStep DEF ensure_slot_marker_location
<1>3. CASE finish_move
  <2>1. t.step = "stage_sync" /\ Goto("exchange") /\ Sync /\ Table
    BY Zenon, <1>3, NowRunning DEF finish_move
  <2>2. Waits /\ LentIfOld /\ Plain /\ NoSlot
    BY Zenon, <2>1 DEF Table
  <2> QED
    <3>1. WentOn("exchange") /\ Kept /\ (Table' => TransitionInv')
      BY <2>1, WalkOn, StepNames
    <3> QED
      BY <2>2, <3>1, Zenon DEF Table, WentOn, Kept
<1>4. CASE finish_applied_archived_candidate_stage
  <2>1. t.step \in {"stage_marker", "stage_sync"} /\ Still /\ (Goto("preserve") \/ Retry(t.step)) /\ Table
    BY Zenon, <1>4, NowRunning DEF finish_applied_archived_candidate_stage
  <2>2. Waits /\ Plain /\ NoSlot /\ NoSlotLeft /\ (~IsNew => Marked \/ Lent)
    BY Zenon, <2>1 DEF Table, LentIfOld, NoSlotLeft
  <2>3. t.step = "stage_marker" => ~IsNew /\ Marked
    BY Zenon, <2>1 DEF Table
  <2>4. t.step = "stage_sync" => LentIfOld
    BY Zenon, <2>1 DEF Table
  <2>5. CASE Goto("preserve")
    <3>1. WentOn("preserve") /\ Kept /\ (Table' => TransitionInv')
      BY <2>1, <2>5, WalkOn, StepNames
    <3> QED
      BY <2>2, <3>1, Zenon DEF Table, WentOn, Kept
  <2>6. CASE Retry("stage_marker") /\ t.step = "stage_marker"
    <3>1. WentOn("stage_marker") /\ Kept /\ (Table' => TransitionInv')
      BY Zenon, <2>1, <2>6, WalkOn, StepNames
    <3> QED
      BY <2>2, <2>3, <2>6, <3>1, Zenon DEF Table, WentOn, Kept
  <2>7. CASE Retry("stage_sync") /\ t.step = "stage_sync"
    <3>1. WentOn("stage_sync") /\ Kept /\ (Table' => TransitionInv')
      BY Zenon, <2>1, <2>7, WalkOn, StepNames
    <3> QED
      BY <2>2, <2>4, <2>7, <3>1, Zenon DEF Table, WentOn, Kept
  <2> QED
    BY Zenon, <2>1, <2>5, <2>6, <2>7
<1> QED
  BY Zenon, <1>1, <1>2, <1>3, <1>4

(* The exchange and its sync. *)
LEMMA ExchangeSteps ==
  ASSUME TransitionInv, exchange_live_and_staged \/ finish_exchange
  PROVE  TransitionInv'
<1>1. CASE exchange_live_and_staged
  <2>1. t.step = "exchange" /\ Table
    BY Zenon, <1>1, NowRunning DEF exchange_live_and_staged
  <2>2. Waits /\ LentIfOld /\ Plain /\ NoSlot
    BY Zenon, <2>1 DEF Table
  <2>3. NoSlotLeft /\ (~IsNew => Lent)
    BY Zenon, <2>2 DEF LentIfOld, NoSlotLeft
  <2>4. CASE preserve_unswapped_candidate
    <3>1. WentOn("preserve") /\ Kept /\ (Table' => TransitionInv')
      BY <2>1, <2>4, WalkOn, StepNames DEF preserve_unswapped_candidate
    <3> QED
      BY <2>2, <2>3, <3>1, Zenon DEF Table, WentOn, Kept
  <2> QED
    BY Zenon, <1>1, <2>4, ExchangeStep DEF exchange_live_and_staged
<1>2. CASE finish_exchange
  <2>1. t.step = "exchange_sync" /\ Table
    BY Zenon, <1>2, NowRunning DEF finish_exchange
  <2>2. Over /\ LentIfOld /\ Plain /\ NoSlot
    BY Zenon, <2>1 DEF Table
  <2>3. CASE Goto("triggers") /\ Sync
    <3>1. disk' = {ns'}
      BY Zenon, <2>3 DEF Sync
    <3> QED
      <4>1. WentOn("triggers") /\ Kept /\ (Table' => TransitionInv')
        BY <2>1, <2>3, WalkOn, StepNames
      <4> QED
        BY <2>2, <3>1, <4>1, Zenon DEF Table, WentOn, Kept
  <2>4. CASE recover_swapped_candidate(t)
    BY Zenon, <2>1, <2>4, BackStep
  <2> QED
    BY Zenon, <1>2, <2>3, <2>4 DEF finish_exchange
<1> QED
  BY Zenon, <1>1, <1>2

(* apply_triggers: a failure or an interruption leads back. *)
LEMMA TriggersStep ==
  ASSUME TransitionInv, apply_triggers
  PROVE  TransitionInv'
<1>1. t.step = "triggers" /\ Table /\ t \in Transition /\ Parties
  BY Zenon, NowRunning DEF apply_triggers
<1>2. Over /\ LentIfOld /\ Plain /\ NoSlot /\ disk = {ns}
  BY Zenon, <1>1 DEF Table
<1>3. CASE Goto(AfterTriggers) /\ Still
  <2>1. disk' = disk /\ ns' = ns
    BY Zenon, <1>3 DEF Still
  <2>2. CASE t.prev = Empty
    <3>1. Finishing
      BY Zenon, <1>2, <2>2 DEF Finishing, InPlace, Over, Plain
    <3>2. Goto("boot")
      BY Zenon, <1>3, <2>2 DEF AfterTriggers
    <3> QED
      <4>1. WentOn("boot") /\ Kept /\ (Table' => TransitionInv')
        BY <1>1, <1>3, <3>2, WalkOn, StepNames
      <4> QED
        BY <1>2, <2>1, <3>1, <4>1, Zenon DEF Table, WentOn, Kept
  <2>3. CASE t.prev # Empty
    <3>1. Archiving /\ ~t.cleanup
      BY Zenon, <1>2, <2>3 DEF Archiving, Plain
    <3>2. Goto("archive")
      BY Zenon, <1>3, <2>3 DEF AfterTriggers
    <3> QED
      <4>1. WentOn("archive") /\ Kept /\ (Table' => TransitionInv')
        BY <1>1, <1>3, <3>2, WalkOn, StepNames
      <4> QED
        BY <1>2, <3>1, <4>1, Zenon DEF Table, WentOn, Kept, SameFlags
  <2> QED
    BY Zenon, <2>2, <2>3
<1>4. CASE recover_swapped_candidate(t)
  BY Zenon, <1>1, <1>4, BackStep
<1>5. CASE recover_swapped_candidate([t EXCEPT !.triggers = TRUE])
  <2> DEFINE r1 == [t EXCEPT !.triggers = TRUE]
  <2>1. /\ r1 \in Transition /\ r1.origin = t.origin /\ r1.cand = t.cand /\ r1.prev = t.prev /\ r1.blocked = t.blocked
        /\ r1.slot = t.slot /\ r1.archived = t.archived /\ r1.cleanup = t.cleanup /\ r1.booted = t.booted
        /\ r1.failures = t.failures
    BY <1>1, Zenon DEF Transition
  <2> HIDE DEF r1
  <2>2. recover_swapped_candidate(r1)
    BY Zenon, <1>5 DEF r1
  <2>3. /\ t' \in Transition /\ t'.step = RecoverAt(t') /\ SameParties /\ SameFlags /\ t'.booted = t.booted
        /\ t'.failures = t.failures
        /\ ns' = ns /\ disk' = disk /\ rows' = rows /\ last' = last /\ boot' = boot
    BY Zenon, <1>1, <2>1, <2>2, RecoverFields DEF SameParties, SameFlags
  <2>4. ns.staging.marker = None
    BY <1>1, <1>2, Wraps DEF Over, Transition
  <2>5. t.step \notin {"idle", "add", "identity", "repair"}
    BY Zenon, <1>1
  <2> QED
    BY Zenon, <1>1, <2>3, <2>4, <2>5, BackFrom, Recovers DEF SameFlags
<1> QED
  BY Zenon, <1>3, <1>4, <1>5 DEF apply_triggers

(* An archive that is refused before anything moved leads to the cleanup of
   its slot. *)
LEMMA ArchiveRefusedStep ==
  ASSUME TransitionInv, ArchiveRefused
  PROVE  TransitionInv'
<1> DEFINE r1 == [t EXCEPT !.cleanup = TRUE]
<1>1. t.step = "archive" /\ Table /\ t \in Transition
  BY Zenon, NowRunning DEF ArchiveRefused
<1>2. Archiving /\ NoSlot /\ SettledIfOld
  BY Zenon, <1>1 DEF Table, Archiving, SettledIfOld, LentIfOld
<1>3. /\ r1 \in Transition /\ r1.origin = t.origin /\ r1.cand = t.cand /\ r1.prev = t.prev /\ r1.blocked = t.blocked
      /\ r1.slot = t.slot /\ r1.archived = t.archived /\ r1.cleanup = TRUE /\ r1.triggers = t.triggers
      /\ r1.booted = t.booted /\ r1.failures = t.failures
  BY <1>1, Zenon DEF Transition
<1>4. recover_swapped_candidate(r1)
  BY Zenon DEF ArchiveRefused
<1> HIDE DEF r1
<1>5. /\ t' \in Transition /\ t'.step = RecoverAt(t') /\ SameParties /\ SameCourse
      /\ t'.slot = t.slot /\ t'.archived = t.archived /\ t'.cleanup = TRUE
      /\ ns' = ns /\ disk' = disk /\ rows' = rows /\ last' = last /\ boot' = boot
  BY Zenon, <1>1, <1>3, <1>4, RecoverFields DEF SameParties, SameCourse
<1>6. t.step \notin {"idle", "add", "identity", "repair"}
  BY Zenon, <1>1
<1> QED
  BY Zenon, <1>2, <1>5, <1>6, Recovers DEF SameCourse

(* create_previous_archive_attempt, with a new slot or with the one that is
   there. *)
LEMMA AttemptStep ==
  ASSUME TransitionInv, create_previous_archive_attempt
  PROVE  TransitionInv'
<1>1. t.step = "archive" /\ ns.slot[t.prev] = None /\ Table /\ t \in Transition
  BY Zenon, NowRunning DEF create_previous_archive_attempt
<1>2. Archiving /\ ~t.cleanup
  BY Zenon, <1>1 DEF Table
<1>3. CASE t' = [t EXCEPT !.step = "slot_publish", !.slot = "reused", !.retried = FALSE] /\ Still
  <2>1. /\ t' \in Transition /\ t'.step = "slot_publish" /\ t'.slot = "reused" /\ SameParties /\ SameCourse
        /\ t'.archived = t.archived /\ t'.cleanup = t.cleanup
    BY <1>1, <1>3, StepNames, Zenon DEF Transition, SameParties, SameCourse
  <2>2. ns' = ns /\ disk' = disk /\ rows' = rows /\ last' = last /\ boot' = boot
    BY Zenon, <1>3 DEF Still
  <2>3. Archiving'
    <3>1. SameTrees
      BY <2>2, Zenon DEF SameTrees
    <3> QED
      BY <1>2, <2>1, <3>1, FrameFacts, Zenon DEF Archiving, SameParties
  <2>4. Table'
    BY Zenon, <1>1, <1>2, <2>1, <2>2, <2>3 DEF Table, SameParties
  <2> QED
    BY Zenon, <1>1, <2>1, <2>2, <2>4, Walk DEF SameCourse
<1> QED
  BY Zenon, <1>1, <1>3, CreateStep DEF create_previous_archive_attempt

(* The publication of the slot, and the move of the previous tree into it. *)
LEMMA SlotSteps ==
  ASSUME TransitionInv,
         \/ finish_previous_archive_slot_creation \/ archive_previous \/ reconcile_previous_pre_move_failure
  PROVE  TransitionInv'
<1>1. CASE t.step = "slot_sync" /\ Goto("move") /\ Sync
  <2>1. Archiving /\ ~t.cleanup /\ t.slot # "none" /\ ns.slot[t.prev] # None
    BY Zenon, <1>1, NowRunning DEF Table
  <2>2. ns' = ns
    BY Zenon, <1>1 DEF Sync
  <2> QED
    <3>1. WentOn("move") /\ Kept /\ (Table' => TransitionInv')
      BY <1>1, WalkOn, StepNames
    <3> QED
      BY <2>1, <2>2, <3>1, Zenon DEF Table, WentOn, Kept, SameParties, SameFlags
<1>2. CASE archive_previous
  BY Zenon, <1>2, ArchiveStep DEF archive_previous
<1>3. CASE reconcile_previous_pre_move_failure
  <2>1. /\ t.step \in {"slot_publish", "slot_sync", "move"}
        /\ t' = [t EXCEPT !.step = "slot_abort", !.cleanup = TRUE, !.retried = FALSE]
        /\ ns' = ns /\ disk' = disk /\ rows' = rows /\ last' = last /\ boot' = boot /\ Table /\ t \in Transition
    BY Zenon, <1>3, NowRunning DEF reconcile_previous_pre_move_failure, Still
  <2>2. Archiving /\ t.slot # "none"
    BY Zenon, <2>1 DEF Table
  <2>3. /\ t' \in Transition /\ t'.step = "slot_abort" /\ SameParties /\ SameCourse
        /\ t'.slot = t.slot /\ t'.archived = t.archived /\ t'.cleanup
    BY <2>1, StepNames, Zenon DEF Transition, SameParties, SameCourse
  <2>4. Archiving'
    <3>1. SameTrees
      BY <2>1, Zenon DEF SameTrees
    <3> QED
      BY <2>2, <2>3, <3>1, FrameFacts, Zenon DEF Archiving, SameParties
  <2>5. Table'
    BY Zenon, <2>2, <2>3, <2>4 DEF Table
  <2> QED
    BY Zenon, <2>1, <2>3, <2>5, Walk DEF SameCourse
<1> QED
  BY Zenon, <1>1, <1>2, <1>3, PublishStep DEF finish_previous_archive_slot_creation

(* finish_not_applied_previous_archive: the slot of a move that did not
   happen is parked again. *)
LEMMA AbortSteps ==
  ASSUME TransitionInv, finish_not_applied_previous_archive
  PROVE  TransitionInv'
<1>1. CASE t.step = "slot_abort" /\ Goto("abort_sync") /\ Still /\ ns.slot[t.prev] = None
  <2>1. Archiving /\ t.cleanup
    BY Zenon, <1>1, NowRunning DEF Table
  <2>2. NoSlot
    BY Zenon, <1>1 DEF NoSlot
  <2> QED
    <3>1. WentOn("abort_sync") /\ Kept /\ (Table' => TransitionInv')
      BY <1>1, WalkOn, StepNames
    <3> QED
      BY <2>1, <2>2, <3>1, Zenon DEF Table, WentOn, Kept, SameFlags
<1>2. CASE t.step = "slot_abort" /\ Goto("abort_sync") /\ Rename(Parked)
  BY Zenon, <1>2, ParkStep
<1>3. CASE /\ t.step = "abort_sync" /\ Sync
           /\ t' = [t EXCEPT !.step = RecoverAt([t EXCEPT !.cleanup = FALSE]), !.slot = "none", !.swapped = TRUE]
  <2>1. Archiving /\ NoSlot /\ t \in Transition
    BY Zenon, <1>3, NowRunning DEF Table
  <2>2. Over /\ SettledIfOld /\ ~t.archived
    BY Zenon, <2>1 DEF Archiving, LentIfOld, SettledIfOld
  <2>3. RecoverAt([t EXCEPT !.cleanup = FALSE]) = "reverse"
    BY Zenon, <2>1, <2>2 DEF RecoverAt, Transition
  <2>4. t' \in Transition /\ t'.step = "reverse" /\ SameParties /\ SameCourse
    BY <1>3, <2>1, <2>3, StepNames, Zenon DEF Transition, SameParties, SameCourse
  <2>5. ns' = ns /\ disk' = {ns} /\ rows' = rows /\ last' = last /\ boot' = boot
    BY Zenon, <1>3 DEF Sync
  <2>6. Over' /\ SettledIfOld' /\ NoSlotLeft'
    <3>1. SameTrees
      BY <2>5, Zenon DEF SameTrees
    <3> QED
      BY <2>1, <2>2, <2>4, <3>1, FrameFacts, Zenon DEF NoSlotLeft
  <2>7. Table'
    BY Zenon, <2>4, <2>6 DEF Table
  <2> QED
    BY Zenon, <1>3, <2>4, <2>5, <2>7, Walk DEF SameCourse
<1>4. CASE t.step \in {"slot_abort", "abort_sync"} /\ recover_swapped_candidate(t)
  BY Zenon, <1>4, BackStep
<1> QED
  BY Zenon, <1>1, <1>2, <1>3, <1>4 DEF finish_not_applied_previous_archive

(* The sync after the move of the previous tree. *)
LEMMA MovedSteps ==
  ASSUME TransitionInv, finish_previous_move \/ finish_applied_previous_archive
  PROVE  TransitionInv'
<1>1. t.step = "move_sync" /\ Table
  BY Zenon, NowRunning DEF finish_previous_move, finish_applied_previous_archive
<1>2. Finishing /\ LentIfOld /\ t.prev # Empty
  BY Zenon, <1>1 DEF Table
<1>3. CASE Goto("boot") /\ Sync
  <2>1. disk' = {ns'}
    BY Zenon, <1>3 DEF Sync
  <2> QED
    <3>1. WentOn("boot") /\ Kept /\ (Table' => TransitionInv')
      BY <1>1, <1>3, WalkOn, StepNames
    <3> QED
      BY <1>2, <2>1, <3>1, Zenon DEF Table, WentOn, Kept
<1>4. CASE Retry("move_sync") /\ Still
  <2>1. WentOn("move_sync") /\ Kept /\ (Table' => TransitionInv')
    BY Zenon, <1>1, <1>4, WalkOn, StepNames
  <2> QED
    BY <1>2, <2>1, Zenon DEF Table, WentOn, Kept, SameParties
<1>5. CASE recover_swapped_candidate(t)
  BY Zenon, <1>1, <1>5, BackStep
<1> QED
  BY Zenon, <1>3, <1>4, <1>5 DEF finish_previous_move, finish_applied_previous_archive

(* synchronize: the boot volume is written once the namespace is durable. *)
LEMMA BootStep ==
  ASSUME TransitionInv, synchronize
  PROVE  TransitionInv'
<1>1. t.step = "boot" /\ Table /\ t \in Transition /\ Parties
  BY Zenon, NowRunning DEF synchronize
<1>2. Finishing /\ LentIfOld /\ disk = {ns} /\ (t.origin = "Archived" <=> ~IsNew)
  BY Zenon, <1>1 DEF Table, Parties, IsNew
<1>3. CASE t' = [t EXCEPT !.step = AfterBoot, !.booted = TRUE] /\ UNCHANGED <<ns, disk, rows, last>>
  <2>1. /\ t' \in Transition /\ SameParties /\ SameFlags /\ t'.triggers = t.triggers /\ t'.booted
        /\ (IsNew => t'.step = "committed") /\ (~IsNew => t'.step = "retire")
    BY <1>1, <1>2, <1>3, StepNames, Zenon DEF Transition, SameParties, SameFlags, AfterBoot
  <2>2. ns' = ns /\ disk' = disk /\ rows' = rows /\ last' = last /\ SameTrees
    BY <1>3, Zenon DEF SameTrees
  <2>3. (IsNew' <=> IsNew) /\ LentIfOld' /\ Finishing'
    BY <1>2, <2>1, <2>2, FrameFacts, Zenon DEF Finishing, SameParties, SameFlags
  <2>4. Table'
    BY Zenon, <1>2, <2>1, <2>2, <2>3 DEF Table
  <2>5. t'.step \notin {"idle", "add", "identity"} /\ t.step \notin {"idle", "add", "identity", "repair"}
    BY Zenon, <1>1, <2>1
  <2> QED
    BY Zenon, <2>1, <2>2, <2>4, <2>5, Walk
<1>4. CASE t.origin = "Archived" /\ Goto("retire") /\ Still
  <2>1. WentOn("retire") /\ Kept /\ (Table' => TransitionInv')
    BY <1>1, <1>4, WalkOn, StepNames
  <2> QED
    BY <1>2, <1>4, <2>1, Zenon DEF Table, WentOn, Kept
<1>5. CASE recover_swapped_candidate(t)
  BY Zenon, <1>1, <1>5, BackStep
<1>6. CASE /\ t' = [t EXCEPT !.step = RecoverAt(t), !.booted = TRUE, !.swapped = TRUE, !.retried = FALSE]
           /\ UNCHANGED <<ns, disk, rows, last>>
  <2>1. RecoverAt(t) \in Steps
    BY Zenon, StepNames DEF RecoverAt
  <2>2. /\ t' \in Transition /\ SameParties /\ SameFlags /\ t'.triggers = t.triggers /\ t'.booted
        /\ t'.step = RecoverAt(t)
    BY <1>1, <1>6, <2>1, Zenon DEF Transition, SameParties, SameFlags
  <2>3. t'.step = RecoverAt(t') /\ t.step \notin {"idle", "add", "identity", "repair"}
    BY Zenon, <1>1, <2>2 DEF RecoverAt, SameFlags
  <2> QED
    BY Zenon, <1>1, <1>6, <2>2, <2>3, BackFrom, Recovers DEF SameFlags
<1> QED
  BY Zenon, <1>3, <1>4, <1>5, <1>6 DEF synchronize, AfterBoot

(* The wrapper of an activated state is parked and the parking synced. *)
LEMMA RetireSteps ==
  ASSUME TransitionInv, retire_displaced_archived_candidate_slot
  PROVE  TransitionInv'
<1>1. CASE t.step = "retire_sync" /\ Goto("committed") /\ Sync
  <2>1. Finishing /\ ~IsNew /\ GivenUp
    BY Zenon, <1>1, NowRunning DEF Table
  <2>2. disk' = {ns'}
    BY Zenon, <1>1 DEF Sync
  <2> QED
    <3>1. WentOn("committed") /\ Kept /\ (Table' => TransitionInv')
      BY <1>1, WalkOn, StepNames
    <3> QED
      BY <2>1, <2>2, <3>1, Zenon DEF Table, WentOn, Kept
<1>2. CASE t.step \in {"retire", "retire_sync"} /\ recover_swapped_candidate(t)
  BY Zenon, <1>2, BackStep
<1> QED
  BY Zenon, <1>1, <1>2, RetireStep DEF retire_displaced_archived_candidate_slot

(* Every forward step keeps the invariant. *)
LEMMA ForwardStep ==
  ASSUME TransitionInv, Forward
  PROVE  TransitionInv'
<1>1. CASE AddFails
  BY Zenon, <1>1, EndWithEarly DEF AddFails
<1> QED
  BY <1>1, NewStateStep, PrepareStep, BlitStep, StageSteps, ExchangeSteps, TriggersStep, AttemptStep,
     ArchiveRefusedStep, SlotSteps,
     AbortSteps, MovedSteps, BootStep, RetireSteps, CommitStep, Zenon DEF Forward

-----------------------------------------------------------------------------
(* The way back, step by step. *)

(* A step of the recovery that fails is recorded, and the recovery ends with
   the repair of the boot volume. *)
LEMMA GivesUp ==
  ASSUME TransitionInv, t.step \notin {"idle", "add", "identity"}, NEW f \in Failures,
         t' = [t EXCEPT !.step = "repair", !.failures = @ \cup {f}], Still
  PROVE  TransitionInv'
<1>1. t \in Transition
  BY Zenon DEF TransitionInv
<1>2. /\ t' \in Transition /\ t'.step = "repair" /\ SameParties /\ t'.triggers = t.triggers /\ t'.failures # {}
  BY <1>1, StepNames, Zenon DEF Transition, SameParties
<1>3. ns' = ns /\ disk' = disk /\ rows' = rows /\ last' = last /\ boot' = boot
  BY Zenon DEF Still
<1>4. Table'
  BY Zenon, <1>2 DEF Table
<1> QED
  BY Zenon, <1>2, <1>3, <1>4, Walk

(* previous_archive_cleanup: the slot that is left is parked, or the failure
   is recorded. *)
LEMMA CleanupSteps ==
  ASSUME TransitionInv, previous_archive_cleanup
  PROVE  TransitionInv'
<1>1. t.step \in {"cleanup", "cleanup_sync"} /\ t \in Transition /\ Table
  BY Zenon, NowRunning DEF previous_archive_cleanup
<1>2. Archiving /\ (t.step = "cleanup" /\ t.slot = "none" => NoSlot) /\ (t.step = "cleanup_sync" => NoSlot)
  BY Zenon, <1>1 DEF Table
<1>3. Over /\ SettledIfOld /\ ~t.archived /\ t.prev # Empty
  BY Zenon, <1>2 DEF Archiving, LentIfOld, SettledIfOld
<1>4. AfterCleanup = "reverse"
  BY Zenon, <1>3 DEF AfterCleanup
<1>5. CASE t.step = "cleanup" /\ t.slot = "none" /\ Goto("reverse") /\ Still
  <2>1. NoSlotLeft
    BY Zenon, <1>2, <1>5 DEF NoSlotLeft
  <2>2. WentOn("reverse") /\ Kept /\ (Table' => TransitionInv')
    BY <1>5, WalkOn, StepNames
  <2> QED
    BY <1>3, <2>1, <2>2, Zenon DEF Table, WentOn, Kept
<1>6. CASE t.step = "cleanup" /\ Goto("cleanup_sync") /\ Still /\ ns.slot[t.prev] = None
  <2>1. NoSlot
    BY Zenon, <1>6 DEF NoSlot
  <2>2. WentOn("cleanup_sync") /\ Kept /\ (Table' => TransitionInv')
    BY <1>6, WalkOn, StepNames
  <2> QED
    BY <1>2, <2>1, <2>2, Zenon DEF Table, WentOn, Kept
<1>7. CASE t.step = "cleanup" /\ Goto("cleanup_sync") /\ Rename(Parked)
  BY Zenon, <1>7, ParkStep
<1>8. CASE t.step = "cleanup_sync" /\ t' = [t EXCEPT !.step = "reverse", !.slot = "none"] /\ Sync
  <2>1. t' \in Transition /\ t'.step = "reverse" /\ SameParties /\ SameCourse
    BY <1>1, <1>8, StepNames, Zenon DEF Transition, SameParties, SameCourse
  <2>2. ns' = ns /\ disk' = {ns} /\ rows' = rows /\ last' = last /\ boot' = boot
    BY Zenon, <1>8 DEF Sync
  <2>3. Over' /\ SettledIfOld' /\ NoSlotLeft'
    <3>1. SameTrees
      BY <2>2, Zenon DEF SameTrees
    <3> QED
      BY <1>2, <1>3, <1>8, <2>1, <3>1, FrameFacts, Zenon DEF NoSlotLeft
  <2>4. Table'
    BY Zenon, <2>1, <2>3 DEF Table
  <2> QED
    BY Zenon, <1>8, <2>1, <2>2, <2>4, Walk DEF SameCourse
<1>9. CASE t' = [t EXCEPT !.step = "reverse", !.failures = @ \cup {"cleanup"}] /\ Still
  <2>1. t' \in Transition /\ t'.step = "reverse" /\ SameParties /\ t'.triggers = t.triggers /\ t'.failures # {}
    BY <1>1, <1>9, StepNames, Zenon DEF Transition, SameParties, Failures
  <2>2. ns' = ns /\ disk' = disk /\ rows' = rows /\ last' = last /\ boot' = boot
    BY Zenon, <1>9 DEF Still
  <2>3. Over' /\ SettledIfOld' /\ NoSlotLeft'
    <3>1. SameTrees
      BY <2>2, Zenon DEF SameTrees
    <3> QED
      BY <1>3, <2>1, <3>1, FrameFacts, Zenon DEF NoSlotLeft
  <2>4. Table'
    BY Zenon, <2>1, <2>3 DEF Table
  <2> QED
    BY Zenon, <1>1, <2>1, <2>2, <2>4, Walk
<1> QED
  BY Zenon, <1>1, <1>4, <1>5, <1>6, <1>7, <1>8, <1>9 DEF previous_archive_cleanup

(* The previous tree comes back to roots/staging, and its slot is parked. *)
LEMMA RestoreSteps ==
  ASSUME TransitionInv, restore_previous_to_staging \/ finish_applied_previous_restore
  PROVE  TransitionInv'
<1>1. CASE t.step = "restore" /\ Goto("restore_sync") /\ Rename([ns EXCEPT !.slot[t.prev].usr = None, !.staging.usr = t.prev])
  BY Zenon, <1>1, RestoreStep
<1>2. CASE t.step = "restore_sync" /\ t' = [t EXCEPT !.step = "unslot"] /\ Sync
  <2>1. Restoring /\ Over
    BY Zenon, <1>2, NowRunning DEF Table
  <2>2. WentOn("unslot") /\ Kept /\ (Table' => TransitionInv')
    BY <1>2, WalkOn, StepNames
  <2> QED
    BY <2>1, <2>2, Zenon DEF Table, WentOn, Kept
<1>3. CASE t.step = "unslot" /\ t' = [t EXCEPT !.step = "unslot_sync"] /\ Still /\ ns.slot[t.prev] = None
  <2>1. Restoring /\ Over
    BY Zenon, <1>3, NowRunning DEF Table
  <2>2. NoSlot
    BY Zenon, <1>3 DEF NoSlot
  <2>3. WentOn("unslot_sync") /\ Kept /\ (Table' => TransitionInv')
    BY <1>3, WalkOn, StepNames
  <2> QED
    BY <2>1, <2>2, <2>3, Zenon DEF Table, WentOn, Kept
<1>4. CASE t.step = "unslot" /\ t' = [t EXCEPT !.step = "unslot_sync"] /\ Rename(Parked)
  BY Zenon, <1>4, ParkStep
<1>5. CASE /\ t.step = "unslot_sync" /\ Sync
           /\ t' = [t EXCEPT !.step = "reverse", !.slot = "none", !.archived = FALSE, !.retried = FALSE]
  <2>1. Restoring /\ Over /\ NoSlot /\ t \in Transition
    BY Zenon, <1>5, NowRunning DEF Table
  <2>2. t' \in Transition /\ t'.step = "reverse" /\ SameParties /\ SameCourse
    BY <1>5, <2>1, StepNames, Zenon DEF Transition, SameParties, SameCourse
  <2>3. ns' = ns /\ disk' = {ns} /\ rows' = rows /\ last' = last /\ boot' = boot
    BY Zenon, <1>5 DEF Sync
  <2>4. Over' /\ SettledIfOld' /\ NoSlotLeft'
    <3>1. SameTrees
      BY <2>3, Zenon DEF SameTrees
    <3> QED
      BY <2>1, <2>2, <3>1, FrameFacts, Zenon DEF NoSlotLeft, Restoring
  <2>5. Table'
    BY Zenon, <2>2, <2>4 DEF Table
  <2> QED
    BY Zenon, <1>5, <2>2, <2>3, <2>5, Walk DEF SameCourse
<1>6. CASE t.step \in {"restore_sync", "unslot", "unslot_sync"} /\ Retry("restore_sync") /\ Still
  <2>1. Restoring /\ Over
    BY Zenon, <1>6, NowRunning DEF Table
  <2>2. WentOn("restore_sync") /\ Kept /\ (Table' => TransitionInv')
    BY <1>6, WalkOn, StepNames
  <2> QED
    BY <2>1, <2>2, Zenon DEF Table, WentOn, Kept
<1>7. CASE stateful_recovery_error("restore")
  BY Zenon, <1>7, RecoveryErrorEnds
<1> QED
  BY Zenon, <1>1, <1>2, <1>3, <1>4, <1>5, <1>6, <1>7 DEF restore_previous_to_staging, finish_applied_previous_restore

(* The exchange is undone and synced. *)
LEMMA ReverseSteps ==
  ASSUME TransitionInv, exchange_staging_and_live_usr \/ finish_applied_reverse
  PROVE  TransitionInv'
<1>1. CASE t.step = "reverse" /\ Goto("reverse_sync") /\ Rename([ns EXCEPT !.live = ns.staging.usr, !.staging.usr = ns.live])
  BY Zenon, <1>1, ReverseStep
<1>2. CASE t.step = "reverse_sync" /\ Goto("preserve") /\ Sync
  <2>1. Waits /\ SettledIfOld /\ NoSlotLeft
    BY Zenon, <1>2, NowRunning DEF Table
  <2>2. ~IsNew => Lent \/ GivenUp
    BY <2>1, Zenon DEF SettledIfOld
  <2>3. WentOn("preserve") /\ Kept /\ (Table' => TransitionInv')
    BY <1>2, WalkOn, StepNames
  <2> QED
    BY <2>1, <2>2, <2>3, Zenon DEF Table, WentOn, Kept
<1>3. CASE t.step = "reverse_sync" /\ Retry("reverse_sync") /\ Still
  <2>1. Waits /\ SettledIfOld /\ NoSlotLeft
    BY Zenon, <1>3, NowRunning DEF Table
  <2>2. WentOn("reverse_sync") /\ Kept /\ (Table' => TransitionInv')
    BY Zenon, <1>3, WalkOn, StepNames
  <2> QED
    BY <2>1, <2>2, Zenon DEF Table, WentOn, Kept
<1>4. CASE stateful_recovery_error("reverse")
  BY Zenon, <1>4, RecoveryErrorEnds
<1> QED
  BY Zenon, <1>1, <1>2, <1>3, <1>4 DEF exchange_staging_and_live_usr, finish_applied_reverse

(* The state of a candidate that is about to be preserved or has been: what
   calling the preservation again finds. *)
LEMMA BackToPreserve ==
  ASSUME TransitionInv, Retry("preserve"), Still,
         t.step \in {"preserve", "quarantine_sync", "retire_failed", "retire_failed_sync", "unpark_sync", "marker_back", "rearchive"}
  PROVE  TransitionInv'
<1>1. Table
  BY Zenon, NowRunning
<1>2. NoSlotLeft /\ (Waits \/ Isolated) /\ (~IsNew => Marked \/ Lent \/ GivenUp)
  <2>1. CASE t.step = "preserve"
    BY <1>1, <2>1, Zenon DEF Table
  <2>2. CASE t.step \in {"quarantine_sync", "retire_failed", "retire_failed_sync"}
    BY <1>1, <2>2, Zenon DEF Table, SettledIfOld
  <2>3. CASE t.step \in {"unpark_sync", "marker_back", "rearchive"}
    BY <1>1, <2>3, Zenon DEF Table
  <2> QED
    BY Zenon, <2>1, <2>2, <2>3
<1>3. WentOn("preserve") /\ Kept /\ (Table' => TransitionInv')
  BY WalkOn, StepNames
<1> QED
  BY <1>2, <1>3, Zenon DEF Table, WentOn, Kept

(* A candidate that cannot be preserved stays where it is, and the failure is
   recorded. *)
LEMMA PreserveFailsStep ==
  ASSUME TransitionInv, PreserveFails, t.step \notin {"idle", "add", "identity"}
  PROVE  TransitionInv'
BY Zenon, GivesUp DEF PreserveFails, Failures

(* A wrapper that is parked has no name. *)
LEMMA DisplacedIsGivenUp ==
  ASSUME TransitionInv, t.step # "idle", t.cand \in ns.displaced
  PROVE  ~Lent
<1>1. NamespaceOK(ns) /\ t \in Transition /\ Parties
  BY NowRunning, Zenon
<1>2. ns.slot[t.cand] = None /\ t.cand \in States
  BY <1>1, Zenon DEF NamespaceOK, OnePlace, Parties
<1> QED
  BY <1>2, Wraps DEF Lent

(* A failed candidate goes to the quarantine, and the quarantine is synced. *)
LEMMA QuarantineSteps ==
  ASSUME TransitionInv, quarantine_candidate
  PROVE  TransitionInv'
<1>1. Quarantines /\ t.step \in {"preserve", "quarantine_sync"}
  BY Zenon DEF quarantine_candidate
<1>2. Parties /\ Table /\ NamespaceOK(ns)
  BY Zenon, <1>1, NowRunning
<1>3. CASE t.step = "preserve" /\ t' = [t EXCEPT !.step = "quarantine_sync"] /\ t.cand \in ns.quarantine /\ Still
  <2>1. NoSlotLeft /\ (Waits \/ Isolated) /\ (~IsNew => Marked \/ Lent \/ GivenUp)
    BY <1>2, <1>3, Zenon DEF Table
  <2>2. t.cand \in States /\ ns.staging.marker = None
    BY <1>1, <1>2, Zenon DEF Parties
  <2>3. ~Waits
    BY <1>2, <1>3, <2>2, Zenon DEF NamespaceOK, OnePlace, Waits
  <2>4. ~Marked
    BY Zenon, <2>2, Wraps DEF Marked
  <2>5. Isolated /\ SettledIfOld
    BY <2>1, <2>3, <2>4, Zenon DEF SettledIfOld
  <2>6. WentOn("quarantine_sync") /\ Kept /\ (Table' => TransitionInv')
    BY <1>3, WalkOn, StepNames
  <2> QED
    BY <2>1, <2>5, <2>6, Zenon DEF Table, WentOn, Kept
<1>4. CASE /\ t.step = "preserve" /\ t' = [t EXCEPT !.step = "quarantine_sync"] /\ t.cand \notin ns.quarantine
           /\ Rename([ns EXCEPT !.quarantine = @ \cup {t.cand}, !.staging.usr = None])
  BY Zenon, <1>1, <1>4, QuarantineStep
<1>5. CASE /\ t.step = "quarantine_sync" /\ Sync
           /\ t' = [t EXCEPT !.step = IF t.origin = "Fresh" THEN AfterPreserve ELSE "retire_failed"]
  <2>1. Isolated /\ SettledIfOld /\ NoSlotLeft
    BY <1>2, <1>5, Zenon DEF Table
  <2>2. CASE IsNew
    <3>1. t' = [t EXCEPT !.step = "invalidate"]
      BY Zenon, <1>5, <2>2 DEF IsNew, AfterPreserve
    <3>2. WentOn("invalidate") /\ Kept /\ (Table' => TransitionInv')
      BY Zenon, <1>5, <3>1, WalkOn, StepNames
    <3> QED
      BY <2>1, <2>2, <3>2, Zenon DEF Table, WentOn, Kept
  <2>3. CASE ~IsNew
    <3>1. t' = [t EXCEPT !.step = "retire_failed"]
      BY Zenon, <1>5, <2>3 DEF IsNew
    <3>2. WentOn("retire_failed") /\ Kept /\ (Table' => TransitionInv')
      BY <1>5, <3>1, WalkOn, StepNames
    <3> QED
      BY <2>1, <2>3, <3>2, Zenon DEF Table, WentOn, Kept
  <2> QED
    BY Zenon, <2>2, <2>3
<1> QED
  BY Zenon, <1>3, <1>4, <1>5 DEF quarantine_candidate

(* The end of a preservation: the previous state is back and all is on disk. *)
LEMMA IsBack ==
  ASSUME TransitionInv, t.step \in {"retire_failed_sync", "rearchive_sync"}, Goto("repair"), Sync
  PROVE  TransitionInv'
<1>1. Parties /\ Table
  BY Zenon, NowRunning
<1>2. /\ ns.live = t.prev /\ ns.staging = Bare /\ NoSlotLeft /\ ~IsNew
      /\ t.triggers => t.cand \in ns.quarantine /\ ns.slot[t.cand] = None
      /\ ~t.triggers => ns.slot[t.cand] = Wrap(t.cand, t.cand)
  <2>1. CASE t.step = "retire_failed_sync"
    <3>1. ~IsNew /\ Isolated /\ GivenUp /\ NoSlotLeft
      BY <1>1, <2>1, Zenon DEF Table
    <3> QED
      BY <3>1, Zenon DEF Isolated, GivenUp, Quarantines, IsNew
  <2>2. CASE t.step = "rearchive_sync"
    <3>1. ~Quarantines /\ Shelved /\ NoSlotLeft
      BY <1>1, <2>2, Zenon DEF Table
    <3> QED
      BY <3>1, Zenon DEF Shelved, Quarantines, IsNew
  <2> QED
    BY Zenon, <2>1, <2>2
<1>3. WentOn("repair") /\ Kept /\ (Table' => TransitionInv')
  BY WalkOn, StepNames
<1>4. disk' = {ns} /\ ns' = ns
  BY Zenon DEF Sync
<1>5. t'.failures = {} => PreviousIsBack'
  <2>1. t'.failures = {} => NoSlot'
    BY <1>2, <1>3, Zenon DEF WentOn, Kept, NoSlotLeft, SameCourse
  <2>2. ~IsNew' /\ t'.triggers = t.triggers /\ t'.cand = t.cand /\ t'.prev = t.prev
    BY <1>2, <1>3, Zenon DEF WentOn, Kept, SameCourse, SameParties
  <2> QED
    BY Zenon, <1>2, <1>4, <2>1, <2>2 DEF PreviousIsBack, Wrap, Bare
<1> QED
  BY <1>3, <1>5, Zenon DEF Table, WentOn

(* The wrapper of a failed archived candidate is parked once its tree is in
   the quarantine. *)
LEMMA RetireFailedSteps ==
  ASSUME TransitionInv, RetireFailed
  PROVE  TransitionInv'
<1>1. CASE t.step = "retire_failed" /\ t' = [t EXCEPT !.step = "retire_failed_sync"] /\ t.cand \in ns.displaced /\ Still
  <2>1. ~IsNew /\ Isolated /\ SettledIfOld /\ NoSlotLeft
    BY <1>1, NowRunning, Zenon DEF Table
  <2>2. GivenUp
    BY Zenon, <1>1, <2>1, DisplacedIsGivenUp DEF SettledIfOld
  <2>3. WentOn("retire_failed_sync") /\ Kept /\ (Table' => TransitionInv')
    BY <1>1, WalkOn, StepNames
  <2> QED
    BY <2>1, <2>2, <2>3, Zenon DEF Table, WentOn, Kept
<1>2. CASE /\ t.step = "retire_failed" /\ t' = [t EXCEPT !.step = "retire_failed_sync"] /\ t.cand \notin ns.displaced
           /\ Rename([ns EXCEPT !.slot[t.cand] = None, !.displaced = @ \cup {t.cand}])
  BY Zenon, <1>2, RetireFailedStep
<1>3. CASE t.step = "retire_failed_sync" /\ Goto(AfterPreserve) /\ Sync
  <2>1. ~IsNew
    BY Zenon, <1>3, NowRunning DEF Table
  <2>2. Goto("repair")
    BY Zenon, <1>3, <2>1 DEF IsNew, AfterPreserve
  <2> QED
    BY Zenon, <1>3, <2>2, IsBack
<1> QED
  BY Zenon, <1>1, <1>2, <1>3 DEF RetireFailed

(* recover_failed_candidate goes on as the origin of the candidate says. *)
LEMMA RecoverFailedSteps ==
  ASSUME TransitionInv, recover_failed_candidate
  PROVE  TransitionInv'
<1>1. /\ t.step \in {"preserve", "quarantine_sync", "retire_failed", "retire_failed_sync"}
      /\ PreserveFails \/ (Retry("preserve") /\ Still)
  BY Zenon DEF recover_failed_candidate
<1>2. CASE PreserveFails
  BY Zenon, <1>1, <1>2, PreserveFailsStep
<1>3. CASE Retry("preserve") /\ Still
  BY Zenon, <1>1, <1>3, BackToPreserve
<1> QED
  BY Zenon, <1>1, <1>2, <1>3

(* The steps that put an archived candidate back into its slot. *)
LEMMA RearchiveSteps ==
  ASSUME TransitionInv, rearchive_archived_candidate
  PROVE  TransitionInv'
<1>1. ~Quarantines /\ t.step \in {"preserve", "unpark_sync", "marker_back", "rearchive", "rearchive_sync"}
  BY Zenon DEF rearchive_archived_candidate
<1>2. Parties /\ Table /\ ~IsNew /\ t.cand \in States
  BY Zenon, <1>1, NowRunning DEF Quarantines, IsNew, Parties
<1>3. CASE t.step = "preserve" /\ t' = [t EXCEPT !.step = "marker_back"] /\ t.cand \notin ns.displaced /\ Still
  <2>1. NoSlotLeft /\ Waits /\ (Marked \/ Lent)
    BY <1>1, <1>2, <1>3, Zenon DEF Table, Isolated, GivenUp
  <2>2. WentOn("marker_back") /\ Kept /\ (Table' => TransitionInv')
    BY <1>3, WalkOn, StepNames
  <2> QED
    BY <1>1, <2>1, <2>2, Zenon DEF Table, WentOn, Kept
<1>4. CASE /\ t.step = "preserve" /\ t.cand \in ns.displaced /\ t' = [t EXCEPT !.step = "unpark_sync"]
           /\ Rename([ns EXCEPT !.displaced = @ \ {t.cand}, !.slot[t.cand] = [Bare EXCEPT !.marker = t.cand]])
  BY Zenon, <1>1, <1>4, UnparkStep
<1>5. CASE t.step = "unpark_sync" /\ t' = [t EXCEPT !.step = "marker_back"] /\ Sync
  <2>1. NoSlotLeft /\ Waits /\ Lent
    BY <1>2, <1>5, Zenon DEF Table
  <2>2. WentOn("marker_back") /\ Kept /\ (Table' => TransitionInv')
    BY <1>5, WalkOn, StepNames
  <2> QED
    BY <1>1, <2>1, <2>2, Zenon DEF Table, WentOn, Kept
<1>6. CASE t.step = "marker_back" /\ t' = [t EXCEPT !.step = "rearchive"] /\ ns.staging.marker = t.cand /\ Still
  <2>1. NoSlotLeft /\ Waits /\ (Marked \/ Lent)
    BY <1>2, <1>6, Zenon DEF Table
  <2>2. Marked
    BY Zenon, <1>2, <1>6, <2>1, Wraps DEF Lent
  <2>3. WentOn("rearchive") /\ Kept /\ (Table' => TransitionInv')
    BY <1>6, WalkOn, StepNames
  <2> QED
    BY <1>1, <2>1, <2>2, <2>3, Zenon DEF Table, WentOn, Kept
<1>7. CASE /\ t.step = "marker_back" /\ t' = [t EXCEPT !.step = "rearchive"] /\ ns.staging.marker # t.cand
           /\ Rename([ns EXCEPT !.staging.marker = t.cand, !.slot[t.cand].marker = None])
  BY Zenon, <1>7, MarkerBackStep
<1>8. CASE /\ t.step = "rearchive" /\ Goto("rearchive_sync")
           /\ Rename([ns EXCEPT !.slot[t.cand] = ns.staging, !.staging = ns.slot[t.cand]])
  BY Zenon, <1>8, RearchiveStep
<1>9. CASE t.step = "rearchive_sync" /\ Goto("repair") /\ Sync
  BY Zenon, <1>9, IsBack
<1> QED
  BY Zenon, <1>3, <1>4, <1>5, <1>6, <1>7, <1>8, <1>9 DEF rearchive_archived_candidate

(* A candidate that cannot go back stays where it is, and the failure is
   recorded. *)
LEMMA RearchiveFailsStep ==
  ASSUME TransitionInv, RearchiveFails
  PROVE  TransitionInv'
<1>1. CASE PreserveFails /\ t.step \in {"preserve", "unpark_sync", "marker_back", "rearchive", "rearchive_sync"}
  BY Zenon, <1>1, PreserveFailsStep
<1>2. CASE Retry("preserve") /\ Still /\ t.step \in {"unpark_sync", "marker_back", "rearchive"}
  BY Zenon, <1>2, BackToPreserve
<1>3. CASE Retry("rearchive_sync") /\ Still /\ t.step = "rearchive_sync"
  <2>1. ~Quarantines /\ Shelved /\ NoSlotLeft
    BY <1>3, NowRunning, Zenon DEF Table
  <2>2. WentOn("rearchive_sync") /\ Kept /\ (Table' => TransitionInv')
    BY Zenon, <1>3, WalkOn, StepNames
  <2> QED
    BY <2>1, <2>2, Zenon DEF Table, WentOn, Kept
<1> QED
  BY Zenon, <1>1, <1>2, <1>3 DEF RearchiveFails

(* The row of a new state goes when its tree is in the quarantine on disk. *)
LEMMA InvalidateStep ==
  ASSUME TransitionInv, invalidate_fresh_candidate
  PROVE  TransitionInv'
<1>1. t.step = "invalidate"
  BY Zenon DEF invalidate_fresh_candidate
<1>2. /\ Safe /\ t \in Transition /\ Running /\ Parties /\ Table /\ NamespaceOK(ns) /\ rows \subseteq States
  BY Zenon, <1>1, NowRunning
<1>3. IsNew /\ Isolated /\ NoSlotLeft
  BY <1>1, <1>2, Zenon DEF Table
<1>4. /\ t.cand \in States /\ t.prev \in rows \cup {Empty} /\ t.cand # t.prev /\ t.cand \in New
      /\ ns.slot[t.cand] = None
      /\ ns.live = t.prev /\ t.cand \in ns.quarantine /\ ns.staging = Bare /\ ns.staging.marker = None
  BY Zenon, <1>2, <1>3, Wraps DEF Parties, Isolated
<1>5. CASE t' = [t EXCEPT !.step = "repair", !.failures = @ \cup {"invalidate"}] /\ Still
  BY Zenon, <1>1, <1>5, GivesUp DEF Failures
<1>6. CASE Goto("repair") /\ rows' = rows \ {t.cand} /\ disk' = {ns} /\ UNCHANGED <<ns, boot, last>>
  <2>1. t' \in Transition /\ t'.step = "repair" /\ SameParties /\ SameCourse /\ SameFlags
    BY Zenon, <1>2, <1>6, GotoFields, StepNames
  <2>2. ns' = ns /\ disk' = {ns} /\ rows' = rows \ {t.cand} /\ boot' = boot /\ last' = last
    BY Zenon, <1>6
  <2>3. \A s \in States : Held(ns, s) => HeldAll(s)'
    BY <2>2, Zenon DEF HeldAll, Held, Slotted
  <2>4. NamespaceOK(ns)'
    <3>1. ns \in Namespace' /\ OnePlace(ns)'
      BY <1>2, <2>2, Zenon DEF NamespaceOK, OnePlace, Slotted, Namespace, Wrapper, States
    <3>2. Known(ns)'
      BY <1>2, <1>4, <2>2, Zenon DEF NamespaceOK, Known, Held, Slotted
    <3> QED
      BY <2>2, <3>1, <3>2, Zenon DEF NamespaceOK
  <2>5. t.prev # Empty => HeldAll(t.prev)' /\ HeldAll(ns.live)'
    <3>1. t'.prev = t.prev /\ ns'.live = t.prev /\ (t.prev # Empty => t.prev \in States)
      BY Zenon, <1>2, <1>4, <2>1, <2>2 DEF SameParties
    <3>2. t.prev # Empty => \A d \in disk' : Held(d, t.prev)
      BY <1>4, <2>2, Zenon DEF Held
    <3> QED
      BY <3>1, <3>2, Zenon DEF HeldAll
  <2>6. Safe'
    <3>1. rows' \subseteq States /\ ns' \in disk' /\ (ns'.live # Empty => t.prev # Empty)
      BY Zenon, <1>2, <1>4, <2>2
    <3>2. \A d \in disk' : NamespaceOK(d)'
      BY <2>2, <2>4, Zenon
    <3> QED
      BY <2>5, <3>1, <3>2, Zenon DEF Safe
  <2>7. HeldAll(t.cand)'
    BY <1>4, <2>1, <2>2, <2>3, Zenon DEF Held, SameParties
  <2>8. Parties'
    BY Zenon, <1>2, <1>4, <2>1, <2>2, <2>5, <2>7 DEF Parties, SameParties, IsNew, Quarantines
  <2>9. PreviousIsBack' \/ t'.failures # {}
    BY Zenon, <1>3, <1>4, <2>1, <2>2 DEF PreviousIsBack, SameParties, SameCourse, IsNew, NoSlotLeft, NoSlot
  <2>10. Table'
    BY Zenon, <2>1, <2>9 DEF Table
  <2>11. Running' /\ EndIsWhole'
    BY <1>2, <2>1, <2>2, <2>8, <2>10, Zenon DEF Running, SameCourse, EndIsWhole
  <2> QED
    BY <2>1, <2>6, <2>11, Zenon DEF TransitionInv
<1> QED
  BY Zenon, <1>5, <1>6 DEF invalidate_fresh_candidate

(* legacy_boot_repair writes the boot volume and counts as a failure. *)
LEMMA BootRepairStep ==
  ASSUME TransitionInv, legacy_boot_repair
  PROVE  TransitionInv'
<1>1. t.step = "repair" /\ t' = [t EXCEPT !.booted = FALSE, !.failures = @ \cup {"boot"}] /\ t \in Transition
  BY Zenon DEF legacy_boot_repair, TransitionInv
<1>2. ns' = ns /\ disk' = disk /\ rows' = rows /\ last' = last
  BY Zenon DEF legacy_boot_repair
<1>3. t' \in Transition /\ t'.step = "repair" /\ SameParties /\ t'.triggers = t.triggers /\ t'.failures # {}
  BY <1>1, Zenon DEF Transition, SameParties, Failures
<1>4. Table'
  BY Zenon, <1>3 DEF Table
<1> QED
  BY Zenon, <1>1, <1>2, <1>3, <1>4, Walk

(* Every step of recovery keeps the invariant. *)
LEMMA RecoveryStep ==
  ASSUME TransitionInv, Recovery
  PROVE  TransitionInv'
BY CleanupSteps, RestoreSteps, ReverseSteps, QuarantineSteps, RetireFailedSteps, RecoverFailedSteps,
   RearchiveSteps, RearchiveFailsStep,
   InvalidateStep, BootRepairStep, RecoveredStep, Zenon DEF Recovery

-----------------------------------------------------------------------------
(* The invariant. *)
LEMMA TransitionStep ==
  ASSUME TransitionInv, TransitionNext
  PROVE  TransitionInv'
<1>1. CASE Begin
  BY Zenon, <1>1, MaterializeStep, ActivateStep DEF Begin
<1>2. CASE Kill
  BY Zenon, <1>2, EndWithEarly DEF Kill
<1> QED
  BY <1>1, <1>2, ForwardStep, RecoveryStep, PowerLossStep, Zenon DEF TransitionNext

(* An installed system, and one whose first state is still to come, have
   every tree in its place. *)
LEMMA TransitionStarts ==
  ASSUME TransitionInit
  PROVE  TransitionInv
<1>1. PICK first \in BOOLEAN :
        /\ ns = [live |-> IF first THEN Empty ELSE Active, staging |-> Bare,
                 slot |-> [s \in States |-> IF s \in Archived /\ ~first THEN [usr |-> s, marker |-> None] ELSE None],
                 displaced |-> {}, spare |-> [s \in States |-> 0], quarantine |-> {}]
        /\ rows = IF first THEN {} ELSE Archived \cup {Active}
  BY Zenon DEF TransitionInit
<1>2. disk = {ns} /\ t = Idle /\ last.result = "none"
  BY Zenon DEF TransitionInit
<1>3. rows \subseteq States /\ Active \in States /\ Active \notin Archived /\ Archived \subseteq States
  BY Zenon, <1>1, ParkingAssumption DEF States
<1>4. /\ ns.live = (IF first THEN Empty ELSE Active) /\ ns.staging = Bare /\ ns.displaced = {} /\ ns.quarantine = {}
      /\ ns.slot = [s \in States |-> IF s \in Archived /\ ~first THEN Wrap(s, None) ELSE None]
  BY Zenon, <1>1 DEF Wrap
<1>5. ns \in Namespace
  <2>1. ns.slot \in [States -> Wrapper \cup {None}]
    BY <1>4, Wraps
  <2>2. ns.live \in States \cup {Empty} /\ Bare \in Wrapper /\ [s \in States |-> 0] \in [States -> Int]
    BY <1>3, <1>4, Wraps
  <2> QED
    BY Zenon, <1>1, <1>4, <2>1, <2>2 DEF Namespace
<1>6. \A s \in States : /\ s \in Archived /\ ~first => ns.slot[s] # None /\ ns.slot[s].usr = s
                        /\ ~(s \in Archived /\ ~first) => ns.slot[s] = None
  BY <1>4, Wraps
<1>7. ns.staging.usr = None /\ None \notin States /\ Empty \notin States
  BY Zenon, <1>4, Wraps
<1>8. OnePlace(ns)
  BY Zenon, <1>3, <1>4, <1>6, <1>7 DEF OnePlace, Slotted
<1>9. Known(ns)
  BY Zenon, <1>1, <1>3, <1>4, <1>6 DEF Known, Held, Slotted
<1>10. Safe
  <2>1. ns.live # Empty => HeldAll(ns.live)
    BY <1>2, Zenon DEF HeldAll, Held
  <2> QED
    BY Zenon, <1>2, <1>3, <1>5, <1>8, <1>9, <2>1 DEF Safe, NamespaceOK
<1>11. Idle \in Transition
  BY Zenon DEF Idle, Transition, Steps
<1> QED
  BY Zenon, <1>2, <1>10, <1>11 DEF TransitionInv, EndIsWhole

(* What changes nothing of the transition keeps everything. *)
LEMMA StillInv ==
  ASSUME TransitionInv, subject' = subject, UNCHANGED <<ns, disk, rows, boot, t, last>>
  PROVE  TransitionInv'
<1>1. ns' = ns /\ disk' = disk /\ rows' = rows /\ boot' = boot /\ t' = t /\ last' = last
  BY Zenon
<1>2. Safe' /\ \A s : HeldAll(s) => HeldAll(s)'
  BY <1>1, StillStep, Zenon DEF TransitionInv
<1>3. Kept
  BY <1>1, FrameAll, Zenon DEF SameTrees, SameParties, SameCourse, SameFlags
<1>4. t # Idle => Parties' /\ Table'
  BY <1>1, <1>2, <1>3, Zenon DEF TransitionInv, Running, Parties, Table, PreviousIsBack, Kept
<1>5. EndIsWhole'
  BY <1>1, Zenon DEF TransitionInv, EndIsWhole
<1> QED
  BY <1>1, <1>2, <1>4, <1>5, Zenon DEF TransitionInv, Running

(* The name under which a namespace holds the tree of a state. *)
LEMMA WhereNamed ==
  ASSUME NEW d, OnePlace(d), NEW s \in States, NEW e \in Names(d, s)
  PROVE  \/ e = <<"slot", s>> /\ Slotted(d, s)
         \/ e = <<"live", s>> /\ d.live = s
         \/ e = <<"staging", s>> /\ d.staging.usr = s
         \/ e = <<"quarantine", s>> /\ s \in d.quarantine
<1>1. CASE e \in {<<"slot", n>> : n \in {n \in States : d.slot[n] # None /\ d.slot[n].usr = s}}
  <2>1. PICK n \in States : d.slot[n] # None /\ d.slot[n].usr = s /\ e = <<"slot", n>>
    BY Zenon, <1>1
  <2>2. n = s
    BY Zenon, <2>1, Wraps DEF OnePlace
  <2> QED
    BY <2>1, <2>2, Zenon DEF Slotted
<1>2. CASE e \in {<<x, s>> : x \in {x \in {"live", "staging", "quarantine"} :
            CASE x = "live" -> d.live = s [] x = "staging" -> d.staging.usr = s [] OTHER -> s \in d.quarantine}}
  <2>1. PICK x \in {"live", "staging", "quarantine"} :
           /\ CASE x = "live" -> d.live = s [] x = "staging" -> d.staging.usr = s [] OTHER -> s \in d.quarantine
           /\ e = <<x, s>>
    BY <1>2, Zenon
  <2> QED
    BY Zenon, <2>1
<1> QED
  BY <1>1, <1>2, Zenon DEF Names

(* A tree that is held has a name. *)
LEMMA HeldIsNamed ==
  ASSUME NEW d, NEW s \in States, Held(d, s)
  PROVE  Names(d, s) # {}
<1>1. CASE Slotted(d, s)
  <2>1. <<"slot", s>> \in Names(d, s)
    BY <1>1, Zenon DEF Names, Slotted
  <2> QED
    BY Zenon, <2>1
<1>2. CASE d.live = s
  <2>1. <<"live", s>> \in Names(d, s)
    BY Zenon, <1>2 DEF Names
  <2> QED
    BY Zenon, <2>1
<1>3. CASE d.staging.usr = s
  <2>1. <<"staging", s>> \in Names(d, s)
    BY Zenon, <1>3 DEF Names
  <2> QED
    BY Zenon, <2>1
<1>4. CASE s \in d.quarantine
  <2>1. <<"quarantine", s>> \in Names(d, s)
    BY Zenon, <1>4 DEF Names
  <2> QED
    BY Zenon, <2>1
<1> QED
  BY Zenon, <1>1, <1>2, <1>3, <1>4 DEF Held

(* Only the invalidation of a new candidate removes a row. *)
LEMMA RowsStay ==
  ASSUME TransitionNext
  PROVE  \/ rows \subseteq rows'
         \/ invalidate_fresh_candidate /\ rows' = rows \ {t.cand} /\ disk' = {ns} /\ t.step = "invalidate"
<1>1. CASE Begin
  BY Zenon, <1>1 DEF Begin, materialize_stateful_candidate, activate_state
<1>2. CASE Kill \/ PowerLoss
  BY Zenon, <1>2 DEF Kill, PowerLoss, EndWith
<1>3. CASE Forward
  BY Zenon, <1>3 DEF Forward, new_state, AddFails, prepare_candidate, apply_stateful_blit_with_capability,
     stage_archived_candidate,
     ensure_slot_marker_location, finish_move, finish_applied_archived_candidate_stage, exchange_live_and_staged, finish_exchange,
     apply_triggers, create_previous_archive_attempt, ArchiveRefused, finish_previous_archive_slot_creation, archive_previous,
     finish_previous_move, finish_applied_previous_archive, reconcile_previous_pre_move_failure, finish_not_applied_previous_archive,
     synchronize, retire_displaced_archived_candidate_slot, commit_stateful_staging, EndWith, Rename, Sync, Still,
     recover_swapped_candidate, preserve_unswapped_candidate
<1>4. CASE Recovery
  BY Zenon, <1>4 DEF Recovery, previous_archive_cleanup, restore_previous_to_staging, finish_applied_previous_restore,
     exchange_staging_and_live_usr, finish_applied_reverse, quarantine_candidate, RetireFailed, recover_failed_candidate,
     rearchive_archived_candidate, RearchiveFails, invalidate_fresh_candidate, legacy_boot_repair, Recovered, EndWith, Rename, Sync,
     Still, PreserveFails, stateful_recovery_error
<1> QED
  BY Zenon, <1>1, <1>2, <1>3, <1>4 DEF TransitionNext
=============================================================================
