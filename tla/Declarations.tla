---------------------------- MODULE Declarations ----------------------------
(***************************************************************************)
(* Declarations on disk: the slot of a generated declaration beside a       *)
(* person's files, and the bridge that takes older declarations into the    *)
(* state database.                                                          *)
(***************************************************************************)
EXTENDS Parts, Integers, FiniteSets, Sequences

CONSTANTS
    Procs,               \* processes that save and delete
    Langs,               \* the registered languages, in the order of their extensions
    MaxInodes, MaxVer,
    MaxOps, DeclarationMaxFaults, MaxOutside, MaxCrashes,
    Foreign,             \* whether authored files may be there from the start
    States, Sources, MaxMigrationCrashes, MaxDrifts, MaxMigrationOps

VARIABLES
    dir, declaration_disk, files,
    late,        \* process -> names others changed since it last looked at them
    ops, declaration_faults, changes, crashes,
    allowed,     \* the declarations the disk may hold when no operation makes another
    last,        \* the language and value of the latest save, until the next operation
    tree,        \* per state: the text of its snapshot and its tree marker
    declaration_row,  \* the catalogue: per state a committed row or None
    file,        \* the blob directory as processes see it
    drifts

DeclarationVars == <<subject, dir, declaration_disk, files, op, late, ops, declaration_faults, changes, crashes, allowed, last, tree, declaration_row, file,
                     drifts>>

-----------------------------------------------------------------------------
(***************************************************************************)
(* A generated declaration has one public name per registered language and  *)
(* is saved or deleted as a whole.  A save in the language that has the     *)
(* declaration replaces it by a synced temporary; a save in another         *)
(* language first retires the old file to a hidden residue, publishes the   *)
(* new one without replacing, and then removes the residue.  A residue that *)
(* a crash left is picked up by the next save or delete.  Files without the *)
(* marker of their name are authored by a person and are left alone.        *)
(*                                                                         *)
(* A directory maps names to inodes, 0 for none.  `disk' holds the          *)
(* directories a power loss may leave: changes reach the disk in order, and *)
(* a sync leaves the current one only.  A process runs its operation as a   *)
(* list of steps.                                                          *)
(***************************************************************************)

Public == {Langs[i] : i \in DOMAIN Langs}
Residue == "residue"
Temporary(p) == p
Names == Public \cup {Residue} \cup Procs
Inodes == 1..MaxInodes
Torn == [marker |-> "none", value |-> 0]
Nothing == [marker |-> "none", value |-> -1]
DeclarationIdle == [kind |-> "idle", lang |-> "none", value |-> 0, todo |-> <<>>, cand |-> <<>>, residue |-> <<>>, wit |-> <<>>, temp |-> FALSE, quiet |-> TRUE, ok |-> TRUE]

DeclarationContent(i) == [marker |-> files[i].marker, value |-> files[i].value]
DeclarationSnapshot(i) == <<i, files[i].ver>>
Marked(name, i) == IF name = Residue THEN files[i].marker \in Public ELSE files[i].marker = name
Authored(name) == dir[name] # 0 /\ ~Marked(name, dir[name])
\* What a directory keeps of the declaration: the public file, or else the retired one.
Kept(d) ==
    LET pub == {n \in Public : d[n] # 0}
    IN IF pub # {} THEN DeclarationContent(d[CHOOSE n \in pub : TRUE])
       ELSE IF d[Residue] # 0 THEN DeclarationContent(d[Residue]) ELSE Nothing

DeclarationFree == {i \in Inodes : \A d \in declaration_disk \cup {dir} : \A n \in Names : d[n] # i}
SetDir(d) == dir' = d /\ declaration_disk' = declaration_disk \cup {d}
Touched(p, names) == late' = [q \in Procs |-> IF q = p THEN late[q] ELSE late[q] \cup names]
Looked(p, name) == late' = [late EXCEPT ![p] = @ \ {name}]
World == UNCHANGED <<dir, declaration_disk, files, late>>

-----------------------------------------------------------------------------
(* Steps are <<act, name>>. *)
At(p, act) == op[p].todo # <<>> /\ op[p].todo[1][1] = act
Arg(p) == op[p].todo[1][2]
Set(p, o) == op' = [op EXCEPT ![p] = o]
Rest(p) == [op[p] EXCEPT !.todo = Tail(@)]
Then(p, o) == Set(p, [o EXCEPT !.todo = Tail(@)]) /\ UNCHANGED <<declaration_faults, last>>
\* An error: the guard unlinks the temporary that still has its name.
DeclarationFail(o) == [o EXCEPT !.todo = IF o.temp THEN <<<<"cleanup", "">>, <<"error", "">>>> ELSE <<<<"error", "">>>>]
Refuse(p) == Set(p, DeclarationFail(op[p])) /\ UNCHANGED <<declaration_faults, last>>
CallFails(p) == declaration_faults < DeclarationMaxFaults[subject] /\ declaration_faults' = declaration_faults + 1 /\ Set(p, DeclarationFail([op[p] EXCEPT !.quiet = FALSE])) /\ UNCHANGED last
Bounds == UNCHANGED <<ops, changes, crashes, allowed>>

AbsentSteps(names) == LET seq == SelectSeq(Langs, LAMBDA l : l \in names) IN [i \in DOMAIN seq |-> <<"absent", seq[i]>>]
CreateTemporary == <<<<"create", "">>, <<"write", "">>, <<"sync_file", "">>>>
\* atomic_write: the target is verified, its alternates are absent, then the rename.
atomic_write(name, there) ==
    CreateTemporary
    \o (IF there THEN <<<<"same", name>>>> ELSE <<>>)
    \o AbsentSteps(Public \ {name})
    \o <<<<IF there THEN "replace" ELSE "publish", name>>, <<"sync", "">>>>
\* The old file gets the residue name ...
retire(from) ==
    <<<<"same", from>>>> \o AbsentSteps(Public \ {from}) \o <<<<"absent", Residue>>, <<"retire", from>>, <<"sync", "">>, <<"retired", Residue>>>>
resume == <<<<"same", Residue>>>> \o AbsentSteps(Public)
\* ... the new one its public name, and the residue goes.
publish(to) ==
    <<<<"same", Residue>>>> \o AbsentSteps(Public) \o <<<<"publish", to>>, <<"sync", "">>, <<"active", to>>>>
finish_switch(to) ==
    <<<<"same", to>>>> \o AbsentSteps(Public \ {to}) \o <<<<"same", Residue>>, <<"unlink", Residue>>, <<"sync", "">>>>
atomic_authority_switch(to, from) ==
    CreateTemporary \o (IF from = Residue THEN resume ELSE retire(from)) \o publish(to) \o finish_switch(to)

-----------------------------------------------------------------------------
(* The names are looked at one after the other, then the residue. *)
Inspect == [i \in DOMAIN Langs |-> <<"look", Langs[i]>>] \o <<<<"look", Residue>>, <<"decide", "">>>>
Start(p, o) ==
    /\ op[p] = DeclarationIdle /\ ops < MaxOps[subject]
    /\ ops' = ops + 1
    /\ allowed' = {Kept(d) : d \in declaration_disk \cup {dir}}
    /\ late' = [late EXCEPT ![p] = {}]
    /\ Set(p, [o EXCEPT !.ok = (Cardinality({n \in Public : dir[n] # 0}) <= 1 /\ \A n \in Public \cup {Residue} : ~Authored(n))])
    /\ last' = Nothing
    /\ UNCHANGED <<dir, declaration_disk, files, declaration_faults, changes, crashes>>
save_declaration(p) ==
    \E l \in Public : Start(p, [DeclarationIdle EXCEPT !.kind = "save", !.lang = l, !.value = ops + 1, !.todo = Inspect])
delete_declaration(p) == Start(p, [DeclarationIdle EXCEPT !.kind = "delete", !.todo = Inspect])

inspect_existing_declaration(p) ==
    /\ At(p, "look")
    /\ LET n == Arg(p)
           seen == IF dir[n] = 0 THEN <<>> ELSE <<[name |-> n, at |-> DeclarationSnapshot(dir[n]), generated |-> Marked(n, dir[n])]>>
       IN \/ Then(p, IF n = Residue THEN [op[p] EXCEPT !.residue = seen] ELSE [op[p] EXCEPT !.cand = @ \o seen])
             /\ Looked(p, n)
          \/ CallFails(p) /\ UNCHANGED late
    /\ UNCHANGED <<dir, declaration_disk, files>> /\ Bounds

Foreigner(o) == (\E i \in DOMAIN o.cand : ~o.cand[i].generated) \/ (\E i \in DOMAIN o.residue : ~o.residue[i].generated)
cleanup_residue_for_save == <<<<"same", Residue>>, <<"unlink", Residue>>, <<"sync", "">>>>
save_internal(o) ==
    IF o.cand = <<>> /\ o.residue # <<>> THEN atomic_authority_switch(o.lang, Residue)
    ELSE IF o.cand = <<>> THEN atomic_write(o.lang, FALSE)
    ELSE (IF o.residue # <<>> THEN cleanup_residue_for_save ELSE <<>>)
         \o (IF o.cand[1].name = o.lang THEN atomic_write(o.lang, TRUE) ELSE atomic_authority_switch(o.lang, o.cand[1].name))
(* Mutant: the public declaration goes before the residue. *)
delete_public_first(o) ==
    (IF o.cand # <<>> THEN <<<<"same", o.cand[1].name>>, <<"unlink", o.cand[1].name>>>> ELSE <<>>)
    \o (IF o.residue # <<>> THEN <<<<"same", Residue>>, <<"unlink", Residue>>>> ELSE <<>>)
    \o (IF o.cand # <<>> \/ o.residue # <<>> THEN <<<<"sync", "">>>> ELSE <<>>)
delete(o) ==
    (IF o.residue # <<>> THEN <<<<"same", Residue>>, <<"unlink", Residue>>>> ELSE <<>>)
    \o (IF o.cand # <<>> THEN <<<<"same", o.cand[1].name>>, <<"unlink", o.cand[1].name>>>> ELSE <<>>)
    \o (IF o.cand # <<>> \/ o.residue # <<>> THEN <<<<"sync", "">>>> ELSE <<>>)
Decide(p) ==
    /\ At(p, "decide")
    /\ IF Len(op[p].cand) > 1 \/ Foreigner(op[p]) THEN Refuse(p)
       ELSE /\ Set(p, [op[p] EXCEPT !.todo = (IF op[p].kind = "save" THEN save_internal(op[p]) ELSE delete(op[p])) \o <<<<"return", "">>>>])
            /\ UNCHANGED <<declaration_faults, last>>
    /\ World /\ Bounds

-----------------------------------------------------------------------------
(* The temporary: created, written, synced, and unlinked when an error leaves it. *)
create_temporary(p) ==
    /\ At(p, "create")
    /\ \/ /\ DeclarationFree # {}
          /\ LET i == CHOOSE j \in DeclarationFree : \A k \in DeclarationFree : j <= k
             IN /\ SetDir([dir EXCEPT ![Temporary(p)] = i])
                /\ files' = [files EXCEPT ![i] = [marker |-> "none", value |-> 0, ver |-> files[i].ver + 1, synced |-> FALSE]]
          /\ Then(p, [op[p] EXCEPT !.temp = TRUE])
       \/ CallFails(p) /\ UNCHANGED <<dir, declaration_disk, files>>
    /\ UNCHANGED late /\ Bounds
write_temporary(p) ==
    /\ At(p, "write")
    /\ \/ files' = [files EXCEPT ![dir[Temporary(p)]] = [@ EXCEPT !.marker = op[p].lang, !.value = op[p].value, !.ver = @ + 1]] /\ Then(p, op[p])
       \/ CallFails(p) /\ UNCHANGED files
    /\ UNCHANGED <<dir, declaration_disk, late>> /\ Bounds
sync_temporary(p) ==
    /\ At(p, "sync_file")
    /\ \/ files' = [files EXCEPT ![dir[Temporary(p)]].synced = TRUE] /\ Then(p, op[p])
       \/ CallFails(p) /\ UNCHANGED files
    /\ UNCHANGED <<dir, declaration_disk, late>> /\ Bounds
TemporaryGuard_cleanup(p) ==
    /\ At(p, "cleanup")
    /\ \/ /\ SetDir([dir EXCEPT ![Temporary(p)] = 0])
          /\ Then(p, [op[p] EXCEPT !.temp = FALSE])
       \/ /\ declaration_faults < DeclarationMaxFaults[subject] /\ declaration_faults' = declaration_faults + 1  \* stays under its random name
          /\ dir' = [dir EXCEPT ![Temporary(p)] = 0] /\ declaration_disk' = {[d EXCEPT ![Temporary(p)] = 0] : d \in declaration_disk}
          /\ Set(p, [Rest(p) EXCEPT !.temp = FALSE]) /\ UNCHANGED last
    /\ UNCHANGED <<files, late>> /\ Bounds

-----------------------------------------------------------------------------
(* The checks, each just before what it protects. *)
Expected(p, n) ==
    IF op[p].wit # <<>> /\ op[p].wit[1].name = n THEN op[p].wit[1].at
    ELSE IF n = Residue THEN op[p].residue[1].at ELSE op[p].cand[1].at
(* Mutant: only the presence of the file is checked. *)
require_same_generated_declaration_present(p) ==
    /\ At(p, "same")
    /\ \/ (IF dir[Arg(p)] # 0 THEN Then(p, op[p]) ELSE Refuse(p)) /\ Looked(p, Arg(p))
       \/ CallFails(p) /\ UNCHANGED late
    /\ UNCHANGED <<dir, declaration_disk, files>> /\ Bounds
require_same_generated_declaration(p) ==
    /\ At(p, "same")
    /\ LET n == Arg(p)
       IN \/ (IF dir[n] # 0 /\ Marked(n, dir[n]) /\ DeclarationSnapshot(dir[n]) = Expected(p, n) THEN Then(p, op[p]) ELSE Refuse(p))
             /\ Looked(p, n)
          \/ CallFails(p) /\ UNCHANGED late
    /\ UNCHANGED <<dir, declaration_disk, files>> /\ Bounds
require_absent_declarations(p) ==
    /\ At(p, "absent")
    /\ \/ (IF dir[Arg(p)] = 0 THEN Then(p, op[p]) ELSE Refuse(p)) /\ Looked(p, Arg(p))
       \/ CallFails(p) /\ UNCHANGED late
    /\ UNCHANGED <<dir, declaration_disk, files>> /\ Bounds
\* The rename changed the change time: the snapshot is taken anew.
Reinspect(p) ==
    /\ \E act \in {"retired", "active"} : At(p, act)
    /\ LET n == Arg(p)
       IN \/ (IF dir[n] # 0 /\ Marked(n, dir[n])
              THEN Then(p, IF n = Residue THEN [op[p] EXCEPT !.residue = <<[name |-> n, at |-> DeclarationSnapshot(dir[n]), generated |-> TRUE]>>]
                           ELSE [op[p] EXCEPT !.wit = <<[name |-> n, at |-> DeclarationSnapshot(dir[n])]>>])
              ELSE Refuse(p))
             /\ Looked(p, n)
          \/ CallFails(p) /\ UNCHANGED late
    /\ UNCHANGED <<dir, declaration_disk, files>> /\ Bounds

-----------------------------------------------------------------------------
(* The changes of the directory. *)
rename(p) ==
    /\ \E act \in {"replace", "publish", "retire"} : At(p, act)
    /\ LET act == op[p].todo[1][1]
           from == IF act = "retire" THEN Arg(p) ELSE Temporary(p)
           to == IF act = "retire" THEN Residue ELSE Arg(p)
       IN \/ /\ dir[from] # 0 /\ (act = "replace" \/ dir[to] = 0)
             /\ SetDir([dir EXCEPT ![to] = dir[from], ![from] = 0])
             /\ files' = [files EXCEPT ![dir[from]].ver = @ + 1]
             /\ Then(p, IF act = "retire" THEN op[p] ELSE [op[p] EXCEPT !.temp = FALSE])
             /\ Touched(p, {from, to})
          \/ (dir[from] = 0 \/ (act # "replace" /\ dir[to] # 0)) /\ Refuse(p) /\ World
          \/ CallFails(p) /\ World
    /\ Bounds
unlink(p) ==
    /\ At(p, "unlink")
    /\ \/ dir[Arg(p)] # 0 /\ SetDir([dir EXCEPT ![Arg(p)] = 0]) /\ Then(p, op[p]) /\ Touched(p, {Arg(p)})
       \/ dir[Arg(p)] = 0 /\ Refuse(p) /\ UNCHANGED <<dir, declaration_disk, late>>
       \/ CallFails(p) /\ UNCHANGED <<dir, declaration_disk, late>>
    /\ UNCHANGED files /\ Bounds
sync_declaration(p) ==
    /\ At(p, "sync")
    /\ \/ declaration_disk' = {dir} /\ Then(p, op[p])
       \/ CallFails(p) /\ UNCHANGED declaration_disk
    /\ UNCHANGED <<dir, files, late>> /\ Bounds

Return(p) ==
    /\ \E act \in {"return", "error"} : At(p, act)
    /\ last' = IF At(p, "return") /\ op[p].kind = "save" THEN [marker |-> op[p].lang, value |-> op[p].value] ELSE last
    /\ Set(p, DeclarationIdle)
    /\ allowed' = {Kept(d) : d \in declaration_disk}
    /\ UNCHANGED <<declaration_faults, ops, changes, crashes>>
    /\ World

-----------------------------------------------------------------------------
(* A person edits, adds or removes a declaration. *)
OutsideWrite ==
    /\ changes < MaxOutside[subject] /\ DeclarationFree # {}
    /\ \E n \in Public \cup {Residue}, m \in Public \cup {"none"} :
          LET i == CHOOSE j \in DeclarationFree : \A k \in DeclarationFree : j <= k
          IN /\ SetDir([dir EXCEPT ![n] = i])
             /\ files' = [files EXCEPT ![i] = [marker |-> m, value |-> 100, ver |-> files[i].ver + 1, synced |-> TRUE]]
             /\ late' = [q \in Procs |-> late[q] \cup {n}]
OutsideEdit ==
    /\ changes < MaxOutside[subject]
    /\ \E n \in Public \cup {Residue} :
          /\ dir[n] # 0
          /\ files' = [files EXCEPT ![dir[n]] = [@ EXCEPT !.marker = "none", !.ver = @ + 1]]
          /\ late' = [q \in Procs |-> late[q] \cup {n}]
    /\ UNCHANGED <<dir, declaration_disk>>
OutsideRemove ==
    /\ changes < MaxOutside[subject]
    /\ \E n \in Public \cup {Residue} :
          /\ dir[n] # 0 /\ SetDir([dir EXCEPT ![n] = 0])
          /\ late' = [q \in Procs |-> late[q] \cup {n}]
    /\ UNCHANGED files
DeclarationOutside ==
    /\ OutsideWrite \/ OutsideEdit \/ OutsideRemove
    /\ changes' = changes + 1
    /\ op' = [q \in Procs |-> IF op[q] = DeclarationIdle THEN DeclarationIdle ELSE [op[q] EXCEPT !.quiet = FALSE]]
    /\ last' = Nothing
    /\ UNCHANGED <<ops, declaration_faults, crashes, allowed>>

\* The process dies; its temporary stays under a name nobody reads.
Orphan(d) == [n \in Names |-> IF n \in Procs THEN 0 ELSE d[n]]
Kill(p) ==
    /\ crashes < MaxCrashes[subject] /\ op[p] # DeclarationIdle
    /\ crashes' = crashes + 1
    /\ dir' = [dir EXCEPT ![Temporary(p)] = 0]
    /\ declaration_disk' = {[d EXCEPT ![Temporary(p)] = 0] : d \in declaration_disk}
    /\ Set(p, DeclarationIdle)
    /\ late' = [late EXCEPT ![p] = {}]
    /\ allowed' = {Kept(d) : d \in declaration_disk'}
    /\ UNCHANGED <<files, ops, declaration_faults, changes, last>>
DeclarationPowerLoss ==
    /\ crashes < MaxCrashes[subject]
    /\ crashes' = crashes + 1
    /\ \E d \in declaration_disk : dir' = Orphan(d) /\ declaration_disk' = {Orphan(d)} /\ allowed' = {Kept(d)}
    /\ files' = [i \in Inodes |-> IF files[i].synced THEN files[i] ELSE [files[i] EXCEPT !.marker = "none", !.value = 0, !.synced = TRUE]]
    /\ op' = [p \in Procs |-> DeclarationIdle] /\ late' = [p \in Procs |-> {}]
    /\ UNCHANGED <<ops, declaration_faults, changes, last>>

DeclarationEmpty == [n \in Names |-> 0]
Fresh(m) == [marker |-> m, value |-> 0, ver |-> 0, synced |-> TRUE]
SlotInit ==
    /\ \E l \in Public \cup {"none"} : \E m \in (IF Foreign[subject] THEN Public \cup {"none"} ELSE {l}) :
          /\ files = [i \in Inodes |-> IF i = 1 THEN Fresh(m) ELSE Fresh("none")]
          /\ dir = IF l = "none" THEN DeclarationEmpty ELSE [DeclarationEmpty EXCEPT ![l] = 1]
    /\ declaration_disk = {dir}
    /\ op = [p \in Procs |-> DeclarationIdle] /\ late = [p \in Procs |-> {}]
    /\ ops = 0 /\ declaration_faults = 0 /\ changes = 0 /\ crashes = 0
    /\ allowed = {Kept(dir)} /\ last = Nothing

Step(p) ==
    \/ inspect_existing_declaration(p) \/ Decide(p)
    \/ create_temporary(p) \/ write_temporary(p) \/ sync_temporary(p) \/ TemporaryGuard_cleanup(p)
    \/ require_same_generated_declaration(p) \/ require_absent_declarations(p) \/ Reinspect(p)
    \/ rename(p) \/ unlink(p) \/ sync_declaration(p) \/ Return(p)
SlotNext ==
    \/ \E p \in Procs : save_declaration(p) \/ delete_declaration(p) \/ Step(p) \/ Kill(p)
    \/ DeclarationOutside \/ DeclarationPowerLoss

-----------------------------------------------------------------------------
(* Names show inodes, and the current directory is one the disk may get. *)
SlotTypeOK ==
    /\ dir \in [Names -> 0..MaxInodes] /\ dir \in declaration_disk
    /\ \A d \in declaration_disk : d \in [Names -> 0..MaxInodes]
    /\ \A i \in Inodes : files[i].marker \in Public \cup {"none"} /\ files[i].ver \in 0..MaxVer
    /\ \A p \in Procs : op[p].temp = (dir[Temporary(p)] # 0)
(* No file system state a crash can leave shows the declaration under two  *)
(* public names (the switch may show none, never two).                     *)
OneDeclaration == subject = "slot" => (\A d \in declaration_disk : Cardinality({n \in Public : d[n] # 0}) <= 1)
(* Whatever cuts an operation off, the disk keeps the declaration as it was *)
(* when the operation began or as the operation makes it, and never one     *)
(* that had been superseded before or a torn file.                          *)
OldOrNew == subject = "slot" =>
    (\A d \in declaration_disk :
       \/ Kept(d) \in allowed
       \/ \E p \in Procs : op[p].kind = "save" /\ Kept(d) = [marker |-> op[p].lang, value |-> op[p].value]
       \/ \E p \in Procs : op[p].kind = "delete" /\ Kept(d) = Nothing)
(* A save that returned is on disk whatever happens next, alone under the   *)
(* name of its language, and left no residue.                               *)
SavedIsDurable == subject = "slot" =>
    (last # Nothing =>
       \A d \in declaration_disk : /\ \A n \in Public \cup {Residue} : (d[n] # 0) = (n = last.marker)
                                   /\ DeclarationContent(d[last.marker]) = last /\ files[d[last.marker]].synced)
(* Whatever earlier operations and crashes left, an operation that nothing   *)
(* disturbs and whose calls work succeeds, unless a person's file or two     *)
(* declarations were there when it began.                                    *)
RetryWorks == subject = "slot" => (\A p \in Procs : At(p, "error") => ~op[p].quiet \/ ~op[p].ok)
(* A process takes no authored file from its name, except one that came      *)
(* after the process had checked that name for the last time.                *)
AuthoredKept ==
    [][subject = "others" =>
       (\A n \in Public \cup {Residue} :
         Authored(n) /\ dir'[n] # dir[n] =>
            \/ changes' # changes
            \/ \E p \in Procs : op'[p] # op[p] /\ n \in late[p])]_DeclarationVars

-----------------------------------------------------------------------------
(***************************************************************************)
(* The bridge that moves the generated system declaration of a state from  *)
(* Gluon to Lua (forge/src/declaration_migration.rs, its catalogue in      *)
(* forge/src/db/state/declaration_migrations.rs and its callers in         *)
(* forge/src/system_model/lua.rs).  The converted text is written to a     *)
(* blob named by its content, then a catalogue row is committed; readers   *)
(* follow the row, and a finalization removes the blobs no row refers to.  *)
(*                                                                         *)
(* A source text stands for itself, for its Lua conversion and for the     *)
(* address of that conversion: the conversion is a function of the text.   *)
(* The process holds the installation, so operations run one after the     *)
(* other; it may be killed between any two calls.  `disk' is what would be *)
(* left after a power failure.                                             *)
(***************************************************************************)
\* disk: what of it the last synchronizations made durable
\* op: the operation under way

ASSUME SourcesAssumption == None \notin Sources

MigrationIdle == [kind |-> "idle", state |-> None, step |-> "none", keep |-> {}, left |-> {}, removed |-> {}, answer |-> "none", value |-> None]

MigrationStart(kind, s, step) == [MigrationIdle EXCEPT !.kind = kind, !.state = s, !.step = step]

Ended(answer) == [op EXCEPT !.step = "ended", !.answer = answer]

MigrationInit ==
    /\ tree \in [States -> [source : Sources, marker : {0}]]
    /\ declaration_row = [s \in States |-> None]
    /\ file = [b \in Sources |-> "absent"]
    /\ declaration_disk = [b \in Sources |-> "absent"]
    /\ op = MigrationIdle
    /\ crashes = 0 /\ drifts = 0 /\ ops = 0

MigrationFree == op.step \in {"none", "ended"}

\* What a read of a blob by its address gives: its bytes, or None when the file
\* is missing or no longer hashes to its name.
read(b) == IF file[b] = "full" THEN b ELSE None

(***************************************************************************)
(* Migrating one state: the blob, then the row                             *)
(***************************************************************************)
\* migrate_declaration: the blob is written first, and the row is made of its
\* address, the marker and the original text of the request.
migrate_declaration(s, request) == [MigrationStart("migrate", s, "create") EXCEPT !.value = request]

\* migrate_state_system_declaration: read the snapshot, convert it, and hand
\* the request to the bridge.
migrate_state_system_declaration(s) ==
    /\ MigrationFree /\ ops < MaxMigrationOps
    /\ op' = migrate_declaration(s, tree[s])
    /\ ops' = ops + 1
    /\ UNCHANGED <<tree, declaration_row, file, declaration_disk, crashes, drifts>>

\* The file is created under its final name, empty; an existing one is read and
\* compared, and accepted as it is.
create ==
    LET b == op.value.source
    IN /\ op.kind = "migrate" /\ op.step = "create"
       /\ \/ /\ file[b] = "absent"
             /\ file' = [file EXCEPT ![b] = "partial"]
             /\ op' = [op EXCEPT !.step = "write"]
          \/ /\ file[b] # "absent"
             /\ op' = IF read(b) = b THEN [op EXCEPT !.step = "commit"] ELSE Ended("mismatch")
             /\ UNCHANGED file
       /\ UNCHANGED <<tree, declaration_row, declaration_disk, crashes, drifts, ops>>

\* write_all and sync_all of the new file, then the read back.
write ==
    LET b == op.value.source
    IN /\ op.kind = "migrate" /\ op.step = "write"
       /\ file' = [file EXCEPT ![b] = "full"]
       /\ op' = [op EXCEPT !.step = "sync_directory"]
       /\ UNCHANGED <<tree, declaration_row, declaration_disk, crashes, drifts, ops>>

\* The blob directory is synchronized last.
sync_directory ==
    /\ op.kind = "migrate" /\ op.step = "sync_directory"
    /\ declaration_disk' = file
    /\ op' = [op EXCEPT !.step = "commit"]
    /\ UNCHANGED <<tree, declaration_row, file, crashes, drifts, ops>>

\* The row is inserted when absent; an equal one is accepted, a different one
\* refused.
commit_declaration_migration ==
    LET new == [marker |-> op.value.marker, original |-> op.value.source, blob |-> op.value.source]
        old == declaration_row[op.state]
    IN /\ op.kind = "migrate" /\ op.step = "commit"
       /\ declaration_row' = IF old = None THEN [declaration_row EXCEPT ![op.state] = new] ELSE declaration_row
       /\ op' = Ended(IF old = None THEN "committed" ELSE IF old = new THEN "already" ELSE "row_mismatch")
       /\ UNCHANGED <<tree, file, declaration_disk, crashes, drifts, ops>>

(***************************************************************************)
(* Finalizing: readiness, then removal of the residue                      *)
(***************************************************************************)
\* The catalogue alone: every required state has a row.
migration_coverage(states) == \A s \in states : declaration_row[s] # None

\* A row whose blob reads back under its address.
verify_migration_readiness(states) ==
    \A s \in states : declaration_row[s] # None /\ read(declaration_row[s].blob) # None

referenced_migration_blobs == {declaration_row[s].blob : s \in {t \in States : declaration_row[t] # None}}

finalize_declaration_migration ==
    /\ MigrationFree /\ ops < MaxMigrationOps
    /\ op' = IF verify_migration_readiness(States)
             THEN MigrationStart("finalize", None, "referenced")
             ELSE [MigrationStart("finalize", None, "ended") EXCEPT !.answer = "not_ready"]
    /\ ops' = ops + 1
    /\ UNCHANGED <<tree, declaration_row, file, declaration_disk, crashes, drifts>>

\* collect_unreferenced_blobs: the addresses referred to, then the directory.
collect_unreferenced_blobs ==
    /\ op.kind = "finalize" /\ op.step = "referenced"
    /\ LET keep == referenced_migration_blobs
       IN op' = [op EXCEPT !.step = "remove", !.keep = keep, !.left = {b \in Sources : file[b] # "absent"} \ keep]
    /\ UNCHANGED <<tree, declaration_row, file, declaration_disk, crashes, drifts, ops>>

remove_declaration ==
    /\ op.kind = "finalize" /\ op.step = "remove"
    /\ \/ \E b \in op.left : /\ file' = [file EXCEPT ![b] = "absent"]
                             /\ op' = [op EXCEPT !.left = @ \ {b}, !.removed = @ \cup {b}]
       \/ /\ op.left = {}
          /\ op' = Ended("finalized")
          /\ UNCHANGED file
    /\ UNCHANGED <<tree, declaration_row, declaration_disk, crashes, drifts, ops>>

(***************************************************************************)
(* Reading, pruning, and what happens to the trees and the machine         *)
(***************************************************************************)
\* A row is followed only when it binds the marker and the text of the tree.
resolve_migrated_blob_revalidated(s) ==
    CASE declaration_row[s] = None -> <<"unmigrated", None>>
      [] declaration_row[s] # None /\ declaration_row[s].marker # tree[s].marker -> <<"marker_drift", None>>
      [] declaration_row[s] # None /\ declaration_row[s].marker = tree[s].marker /\ declaration_row[s].original # tree[s].source -> <<"source_drift", None>>
      [] OTHER -> IF read(declaration_row[s].blob) = None THEN <<"blob_error", None>> ELSE <<"model", declaration_row[s].blob>>

\* resolve_migrated_system_snapshot: the model the reader uses for the state:
\* the blob's, or the legacy snapshot's when there is no row.
resolve_migrated_system_snapshot(s) ==
    LET found == resolve_migrated_blob_revalidated(s)
    IN /\ MigrationFree /\ ops < MaxMigrationOps
       /\ op' = [MigrationStart("resolve", s, "ended") EXCEPT !.answer = found[1],
                                                     !.value = IF found[1] = "unmigrated" THEN tree[s].source ELSE found[2]]
       /\ ops' = ops + 1
       /\ UNCHANGED <<tree, declaration_row, file, declaration_disk, crashes, drifts>>

\* Pruning a state removes its row in the same transaction; its blob stays.
delete_declaration_migrations(s) ==
    /\ MigrationFree /\ ops < MaxMigrationOps
    /\ declaration_row[s] # None
    /\ declaration_row' = [declaration_row EXCEPT ![s] = None]
    /\ op' = [MigrationStart("prune", s, "ended") EXCEPT !.answer = "pruned"]
    /\ ops' = ops + 1
    /\ UNCHANGED <<tree, file, declaration_disk, crashes, drifts>>

\* The snapshot is rewritten, or the tree is another one (external).
Drift ==
    /\ drifts < MaxDrifts
    /\ \E s \in States, t \in [source : Sources, marker : {0, 1}] :
          t # tree[s] /\ tree' = [tree EXCEPT ![s] = t]
    /\ drifts' = drifts + 1
    /\ op' = IF MigrationFree THEN MigrationIdle ELSE op
    /\ UNCHANGED <<declaration_row, file, declaration_disk, crashes, ops>>

\* The process is killed: what the kernel has stays.
MigrationKill ==
    /\ ~MigrationFree /\ crashes < MaxMigrationCrashes
    /\ crashes' = crashes + 1
    /\ op' = MigrationIdle
    /\ UNCHANGED <<tree, declaration_row, file, declaration_disk, drifts, ops>>

DeclarationDone == MigrationFree /\ ops = MaxMigrationOps /\ UNCHANGED DeclarationVars

MigrationNext ==
    \/ \E s \in States : \/ migrate_state_system_declaration(s)
                         \/ resolve_migrated_system_snapshot(s)
                         \/ delete_declaration_migrations(s)
    \/ create \/ write \/ sync_directory \/ commit_declaration_migration
    \/ finalize_declaration_migration \/ collect_unreferenced_blobs \/ remove_declaration
    \/ Drift \/ MigrationKill \/ DeclarationDone

\* Rows, files and the operation have their shapes.
MigrationTypeOK ==
    /\ tree \in [States -> [source : Sources, marker : {0, 1}]]
    /\ declaration_row \in [States -> {None} \cup [marker : {0, 1}, original : Sources, blob : Sources]]
    /\ file \in [Sources -> {"absent", "partial", "full"}]
    /\ op.left \subseteq Sources /\ op.removed \subseteq Sources

\* As long as the machine stays up, every committed row leads to its whole
\* blob, whatever is killed, pruned, finalized or migrated again
\* (migrate_declaration, collect_unreferenced_blobs).
RowHasBlob == subject = "migration" => (\A s \in States : declaration_row[s] # None => file[declaration_row[s].blob] = "full")

\* A reader gets the model of the very text its tree holds, converted or not,
\* or an error: a committed row never yields another text's model, and drift
\* never falls back to the legacy reader (resolve_migrated_blob_revalidated).
ResolvesItsOwnTree == subject = "migration" =>
    ((op.kind = "resolve" /\ op.answer \in {"unmigrated", "model"})
        => /\ op.value = tree[op.state].source
           /\ op.answer = "unmigrated" <=> declaration_row[op.state] = None)

\* A finalization removes something only while every required state is
\* migrated and its blob reads back, and what it removes is no row's blob.
CollectsOnlyResidue == subject = "migration" =>
    ((op.kind = "finalize" /\ op.removed # {})
        => \A s \in States : declaration_row[s] # None /\ file[declaration_row[s].blob] = "full")

\* A committed row is exact for ever: a migration of a changed text does not
\* replace it (commit_declaration_migration).
NoReplace == [][subject = "migration" => (\A s \in States : (declaration_row[s] # None /\ declaration_row'[s] # declaration_row[s]) => declaration_row'[s] = None)]_declaration_row

\* A committed row points at a blob whose name and bytes are durable
\* (the comment at declaration_migration.rs:183-188).
RowIsDurable == subject = "migration" => (\A s \in States : declaration_row[s] # None => declaration_disk[declaration_row[s].blob] = "full")

-----------------------------------------------------------------------------
(* A behaviour exercises one part, chosen at the start; the variables of the
   other parts are not in use. *)
DeclarationInit ==
    /\ subject \in Subjects
    /\ \/ subject \in {"slot", "others"} /\ SlotInit
          /\ tree = None /\ declaration_row = None /\ file = None /\ drifts = None
       \/ subject = "migration" /\ MigrationInit
          /\ dir = None /\ files = None /\ late = None /\ declaration_faults = None /\ changes = None /\ allowed = None /\ last = None

SlotOnly == subject \in {"slot", "others"} /\ UNCHANGED <<subject, tree, declaration_row, file, drifts>>
MigrationOnly == subject = "migration" /\ UNCHANGED <<subject, dir, files, late, declaration_faults, changes, allowed, last>>
DeclarationNext ==
    \/ SlotOnly /\ SlotNext
    \/ MigrationOnly /\ MigrationNext

DeclarationTypeOK ==
    /\ subject \in {"slot", "others"} => SlotTypeOK
    /\ subject = "migration" => MigrationTypeOK

-----------------------------------------------------------------------------
(* The instance that TLC checks. *)
TwoLangs == <<"glu", "lua">>
SlotMaxOps == [slot |-> 3, others |-> 2]
SlotMaxFaults == [slot |-> 1, others |-> 0]
SlotMaxOutside == [slot |-> 0, others |-> 1]
SlotMaxCrashes == [slot |-> 2, others |-> 0]
SlotForeign == [slot |-> FALSE, others |-> TRUE]
=============================================================================
