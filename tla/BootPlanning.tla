---------------------------- MODULE BootPlanning ----------------------------
(***************************************************************************)
(* What a boot publication is planned from: the state trees and their       *)
(* release files, the assets of the packages of the states, and the entries *)
(* and payloads that are planned from them.                                 *)
(***************************************************************************)
EXTENDS Parts, Integers, Sequences, FiniteSets, TLC, SequencesExt, FiniteSetsExt, Functions

CONSTANTS
    PlanStates,          \* the projected states, head first
    Pool,                \* the boot assets a projection may bind, in binding order
    LocalPool,           \* entries of the local policy, in name order
    Schemas,             \* identifiers a state's own os-release may give
    MaxKernels,          \* max_kernels
    MaxTokens,           \* max_cmdline_tokens
    MaxTotalTokens,      \* max_total_cmdline_tokens
    MaxInitrds,          \* max_initrds_per_kernel
    MaxPublications,     \* max_requests, max_publications
    Empty,               \* EMPTY_FILE_DIGEST
    Other,               \* content no layout names
    HeadId,              \* the id of the state being reblitted
    Databases,           \* what the state database may hold: functions from ids to package sets
    Catalogs,            \* what the layout database may hold: sets of <<package, record>>
    InitrdNames, CmdlineNames, LibNames, \* names ending .initrd, .cmdline; names starting lib
    MaxHistory,          \* MAX_BOOT_HISTORY_STATES
    MaxPackages,         \* max_packages
    MaxInputsKernels, MaxAssets, MaxDigests, MaxHops, MaxDescriptors,
    Length,              \* the length of each content
    RoleLimit,           \* role_limit
    MaxAssetBytes, MaxTotalBytes, MaxReferenced, MaxControl,
    PlanningMaxOutside,  \* how often others change what is read
    Trees, Token, StateOf, \* each tree's marker token and state id
    Places,              \* where the trees may be found when the capture begins
    Projected,           \* the projected states, head first
    Requirements,        \* the states with a schema requirement, in order: [state, source]
    Infos,               \* what the bound os-info asset of a state may say
    MaxFlaws,            \* how many things are wrong with the trees at first
    Rewritable, Reshapable, \* the trees others may change inside
    MaxRootsOutside

VARIABLES
    in,          \* the revalidated inputs
    step,        \* the stage that runs next
    work,        \* what the stages so far produced
    outcome,     \* None, "planned" or the reason of the refusal
    sdb,         \* the state database: id -> package selection
    ldb,         \* the layout database
    pool,        \* the asset pool: digest -> [ino, ver, bytes], bytes None when absent
    held,        \* the pairs of both databases since the sandwich began
    outside,     \* changes by others so far
    at,          \* the tree under each name: Usr, a state's archive, Away
    shape,       \* whether a wrapper holds exactly its entries
    os,          \* lib/os-release of each tree
    info,        \* the sealed os-info assets
    read,        \* the documents each tree held since then
    planning_touched  \* trees, names or wrappers changed since the capture began

PlanningVars == <<subject, in, step, work, outcome, sdb, ldb, pool, op, held, outside, at, shape, os, info, read,
                  planning_touched>>

-----------------------------------------------------------------------------
(***************************************************************************)
(* From retained boot inputs to the plan of what the boot volumes hold: the *)
(* kernels of the selected states are joined with their initrds, every      *)
(* kernel gets a command line, loader entries are rendered, and the         *)
(* requested outputs become a plan without two names for one file, an       *)
(* inventory of what is desired and one request list per destination.       *)
(*                                                                         *)
(* Text is a sequence of characters (Word), each a letter in one of two     *)
(* cases, a digit or a separator, ordered as in ASCII: comparing, folding   *)
(* and joining text is what the planning is about.  A checksum and the      *)
(* length are one number, the digest; content is the SHA-256 identity.      *)
(***************************************************************************)

-----------------------------------------------------------------------------
(* Characters: upper case letters are 30..59 and their lower case 60..89.   *)
Dash == 1
Dot == 2
Slash == 3
Digit(n) == 10 + n
ToLower(c) == IF c \in 30..59 THEN c + 30 ELSE c
EFI == 30
Boot == 31
BOOTX64 == 32
boot_planning == 61
loader == 63
entries == 64
conf == 65
vmlinuz == 66
systemd == 67
xxh3 == 68
initrd == 69
con == 79

case_folded_path(text) == [i \in DOMAIN text |-> ToLower(text[i])]
Less(a, b) ==
    \E n \in 0..Len(a) :
        /\ n < Len(b) /\ \A j \in 1..n : a[j] = b[j]
        /\ n = Len(a) \/ a[n + 1] < b[n + 1]
(* Sequences of texts and numbers in singletons, compared field by field.   *)
KeyLess(k, l) == \E n \in DOMAIN k : Less(k[n], l[n]) /\ \A j \in 1..(n - 1) : k[j] = l[j]

-----------------------------------------------------------------------------
(* The projection binds some assets of the pool; the head always has the    *)
(* one systemd-boot.  A state that is eligible has its own schema or, the   *)
(* head excepted, the head's.                                               *)
HeadState == PlanStates[1]
Inputs ==
    [assets : {SelectSeq(Pool[subject], LAMBDA a : a \in s) :
                   s \in {t \in SUBSET {Pool[subject][i] : i \in DOMAIN Pool[subject]} : \E a \in t : a.role = "systemd-boot"}},
     eligible : {e \in SUBSET {PlanStates[i] : i \in DOMAIN PlanStates} : HeadState \in e},
     schema : [{PlanStates[i] : i \in DOMAIN PlanStates} -> Schemas[subject]],
     local : {SelectSeq(LocalPool[subject], LAMBDA e : e \in s) : s \in SUBSET {LocalPool[subject][i] : i \in DOMAIN LocalPool[subject]}},
     layout : {"boot-aliases-esp", "distinct-xbootldr"}]

PlanningPosition(s) == CHOOSE i \in DOMAIN PlanStates : PlanStates[i] = s
Bound(a) == {i \in DOMAIN in.assets : in.assets[i].role = a}

(* The command line assets in canonical order.                              *)
PackageCmdlines ==
    LET of == SelectSeq(in.assets, LAMBDA a : a.role \in {"global-cmdline", "kernel-cmdline"})
    IN  SortSeq(of, LAMBDA a, b : KeyLess(<<<<PlanningPosition(a.state)>>, a.name>>, <<<<PlanningPosition(b.state)>>, b.name>>))
Masks == {in.local[i].name : i \in {j \in DOMAIN in.local : in.local[j].kind = "mask"}}
LocalAppends == SelectSeq(in.local, LAMBDA e : e.kind = "append")
package_is_masked(a) == a.name \in Masks

PlanningNothing == [seeds |-> <<>>, cmdlines |-> <<>>, entries |-> <<>>, payloads |-> <<>>,
                    requests |-> <<>>, outputs |-> <<>>, desired |-> <<>>, domains |-> <<>>]
Proceed(next, new) == step' = next /\ work' = new /\ UNCHANGED <<in, outcome>>
PlanningRefuse(why) == step' = "done" /\ work' = PlanningNothing /\ outcome' = why /\ UNCHANGED in
(* The first requirement that does not hold refuses the inputs.             *)
Stage(checks, next, new) ==
    LET failed == {n \in DOMAIN checks : ~checks[n][1]}
    IN  IF failed = {} THEN Proceed(next, new)
        ELSE PlanningRefuse(checks[CHOOSE n \in failed : \A m \in failed : n <= m][2])
(* Every stage reads the clock more than once.                              *)
DeadlineExceeded == step # "done" /\ PlanningRefuse("deadline")

-----------------------------------------------------------------------------
(* The kernel of an eligible state, with the initrds of its version.        *)
collect_initrds(s, v) ==
    SetToSortSeq({i \in Bound("initrd") : in.assets[i].state = s /\ in.assets[i].version = v}, <)
KernelIndices == SetToSortSeq({i \in Bound("kernel") : in.assets[i].state \in in.eligible}, <)

derive_kernel_seeds ==
    LET Seed(i) == LET a == in.assets[i]
                   IN  [state |-> a.state, version |-> a.version, kernel |-> i,
                        initrds |-> collect_initrds(a.state, a.version)]
    IN  [n \in DOMAIN KernelIndices |-> Seed(KernelIndices[n])]

DuplicateKernel(seeds) ==
    \E i, j \in DOMAIN seeds : i < j /\ seeds[i].state = seeds[j].state /\ seeds[i].version = seeds[j].version

derive_systemd_boot_coordinate == CHOOSE i \in Bound("systemd-boot") : TRUE

Join ==
    /\ step = "join"
    /\ LET seeds == derive_kernel_seeds
       IN  Stage(<<<<~DuplicateKernel(seeds), "duplicate kernel">>,
                   <<Len(seeds) <= MaxKernels[subject], "kernel count">>,
                   <<seeds # <<>>, "no kernel">>>>,
                 "cmdline", [work EXCEPT !.seeds = seeds])

-----------------------------------------------------------------------------
(* Every snippet is audited, a masked one and one of a kernel that is not   *)
(* rendered included.                                                       *)
audit_snippet(tokens) ==
    \A i \in DOMAIN tokens : tokens[i].key \notin {"", "--", "root", "cast.fstx"} /\ ~tokens[i].quoted
Audited ==
    /\ \A i \in DOMAIN PackageCmdlines : audit_snippet(PackageCmdlines[i].tokens)
    /\ \A i \in DOMAIN LocalAppends : audit_snippet(LocalAppends[i].tokens)

RootArgument == [key |-> "root", value |-> 0, quoted |-> FALSE]
CastArgument(s) == [key |-> "cast.fstx", value |-> s, quoted |-> FALSE]

Applicable(a, k) == a.state = k.state /\ (a.role = "global-cmdline" \/ a.version = k.version)

push_snippet_tokens(list) == FlattenSeq([i \in DOMAIN list |-> list[i].tokens])

materialize_kernel_cmdline(k) ==
    push_snippet_tokens(SelectSeq(PackageCmdlines, LAMBDA a : Applicable(a, k) /\ ~package_is_masked(a)))
    \o push_snippet_tokens(LocalAppends) \o <<RootArgument, CastArgument(k.state)>>

(* A retained coordinate still names the asset of its state and role.       *)
bind_coordinate(i, s, role) == i \in DOMAIN in.assets /\ in.assets[i].state = s /\ in.assets[i].role = role
revalidate_asset_coordinates ==
    /\ bind_coordinate(derive_systemd_boot_coordinate, HeadState, "systemd-boot")
    /\ \A n \in DOMAIN work.seeds :
        LET k == work.seeds[n]
        IN  /\ bind_coordinate(k.kernel, k.state, "kernel")
            /\ \A m \in DOMAIN k.initrds : bind_coordinate(k.initrds[m], k.state, "initrd")

SumLen(seqs) == FoldLeft(LAMBDA sum, s : sum + Len(s), 0, seqs)

Cmdline ==
    /\ step = "cmdline"
    /\ LET lines == [n \in DOMAIN work.seeds |-> materialize_kernel_cmdline(work.seeds[n])]
       IN  Stage(<<<<revalidate_asset_coordinates, "coordinate">>,
                   <<Audited, "token">>,
                   <<\A n \in DOMAIN lines : Len(lines[n]) <= MaxTokens[subject], "kernel tokens">>,
                   <<SumLen(lines) <= MaxTotalTokens[subject], "total tokens">>>>,
                 "render", [work EXCEPT !.cmdlines = lines])

-----------------------------------------------------------------------------
(* Rendering.  A component must be portable: here, not the device name con. *)
require_component(text) == text # <<con>>
checksum_identity_token(digest) == <<xxh3, Dash, Digit(digest)>>
payload_path(ns, digest, leaf) ==
    <<EFI, Slash>> \o ns \o <<Slash>> \o checksum_identity_token(digest) \o <<Slash>> \o leaf
entry_path(os1, version, s) ==
    <<loader, Slash, entries, Slash>> \o os1 \o <<Dash>> \o version \o <<Dash, Digit(s), Dot, conf>>
LoaderControlPath == <<loader, Slash, loader, Dot, conf>>
FallbackPath == <<EFI, Slash, Boot, Slash, BOOTX64, Dot, EFI>>
SystemdPath == <<EFI, Slash, systemd, Slash, systemd, Dash, boot_planning>>

Candidate(path, i) ==
    [path |-> path, index |-> i, digest |-> in.assets[i].digest, content |-> in.assets[i].content]
KernelCandidate(k) ==
    Candidate(payload_path(in.schema[k.state], in.assets[k.kernel].digest, <<vmlinuz>>), k.kernel)

InitrdBefore(i, j) ==
    KeyLess(<<case_folded_path(in.assets[i].name), in.assets[i].name, <<i>>>>,
            <<case_folded_path(in.assets[j].name), in.assets[j].name, <<j>>>>)
SortedInitrds(k) == SortSeq(k.initrds, InitrdBefore)
InitrdCandidates(k) ==
    [n \in DOMAIN k.initrds |->
        LET i == SortedInitrds(k)[n]
        IN  Candidate(payload_path(in.schema[k.state], in.assets[i].digest, in.assets[i].name), i)]

reject_initrd_case_aliases(sorted) ==
    \A n \in 1..(Len(sorted) - 1) :
        case_folded_path(in.assets[sorted[n]].name) # case_folded_path(in.assets[sorted[n + 1]].name)

render_loader_control == [default |-> in.schema[HeadState]]
render_entry(k, cmdline) ==
    [title |-> <<in.schema[k.state], k.version>>, linux |-> KernelCandidate(k).path,
     initrds |-> [n \in DOMAIN k.initrds |-> InitrdCandidates(k)[n].path], options |-> cmdline]

CandidateRequests == 2 * Len(work.seeds) + SumLen([n \in DOMAIN work.seeds |-> work.seeds[n].initrds]) + 3
Portable(k) ==
    /\ require_component(in.schema[k.state]) /\ require_component(k.version)
    /\ \A n \in DOMAIN k.initrds : require_component(in.assets[k.initrds[n]].name)

render_with_policy_and_clocks ==
    [work EXCEPT
        !.entries = [n \in DOMAIN work.seeds |->
            LET k == work.seeds[n]
            IN  [role |-> "entry", path |-> entry_path(in.schema[k.state], k.version, k.state),
                 source |-> [kind |-> "generated", bytes |-> render_entry(k, work.cmdlines[n])]]],
        !.payloads = FlattenSeq([n \in DOMAIN work.seeds |->
            <<KernelCandidate(work.seeds[n])>> \o InitrdCandidates(work.seeds[n])])]

Render ==
    /\ step = "render"
    /\ LET seeds == work.seeds
       IN  Stage(<<<<\A n \in DOMAIN seeds : Len(seeds[n].initrds) <= MaxInitrds[subject], "initrd count">>,
                   <<CandidateRequests <= MaxPublications, "request count">>,
                   <<require_component(in.schema[HeadState]), "component">>,
                   <<\A n \in DOMAIN seeds : Portable(seeds[n]), "component">>,
                   <<\A n \in DOMAIN seeds : reject_initrd_case_aliases(SortedInitrds(seeds[n])), "initrd alias">>>>,
                 "canonicalize", render_with_policy_and_clocks)

-----------------------------------------------------------------------------
(* One payload per path: candidates for one path must be one content, and   *)
(* two spellings of a path are refused.                                     *)
compare_candidate(a, b) ==
    KeyLess(<<case_folded_path(a.path), a.path, <<a.digest, a.content, a.index>>>>,
            <<case_folded_path(b.path), b.path, <<b.digest, b.content, b.index>>>>)

SamePayload(a, b) == a.digest = b.digest /\ a.content = b.content

canonicalize_payloads(candidates) ==
    LET Add(acc, c) ==
            LET previous == Last(acc.list)
            IN  CASE acc.why # None -> acc
                  [] acc.why = None /\ acc.list = <<>> -> [acc EXCEPT !.list = <<c>>]
                  [] OTHER ->
                       IF case_folded_path(previous.path) # case_folded_path(c.path)
                       THEN [acc EXCEPT !.list = Append(@, c)]
                       ELSE IF previous.path # c.path THEN [acc EXCEPT !.why = "payload case collision"]
                       ELSE IF SamePayload(previous, c) THEN acc
                       ELSE [acc EXCEPT !.why = "payload collision"]
    IN  FoldLeft(Add, [list |-> <<>>, why |-> None], SortSeq(candidates, compare_candidate))

Sealed(role, path, c) ==
    [role |-> role, path |-> path,
     source |-> [kind |-> "sealed", index |-> c.index, digest |-> c.digest, content |-> c.content]]
Bootloader == Candidate(<<>>, derive_systemd_boot_coordinate)

Canonicalize ==
    /\ step = "canonicalize"
    /\ LET canonical == canonicalize_payloads(work.payloads)
       IN  Stage(<<<<canonical.why = None, canonical.why>>>>, "plan",
                 [work EXCEPT
                    !.payloads = canonical.list,
                    !.requests = [n \in DOMAIN canonical.list |->
                                    Sealed("payload", canonical.list[n].path, canonical.list[n])]
                        \o work.entries
                        \o <<[role |-> "loader-control", path |-> LoaderControlPath,
                              source |-> [kind |-> "generated", bytes |-> render_loader_control]],
                             Sealed("fallback-bootloader", FallbackPath, Bootloader),
                             Sealed("systemd-bootloader", SystemdPath, Bootloader)>>])

-----------------------------------------------------------------------------
(* The plan: a request is admitted unless its path, ignoring case, is a     *)
(* planned one of the same volume, or one of the two is a directory of the  *)
(* other; the same request twice is one output.                             *)
PlanRoot(role) == IF role \in {"payload", "entry", "loader-control"} THEN "boot" ELSE "esp"
Phase(role) ==
    CASE role = "payload" -> 1
      [] role = "entry" -> 2
      [] role = "loader-control" -> 3
      [] OTHER -> 4
CollisionDomain(root) == IF in.layout = "boot-aliases-esp" THEN "shared" ELSE root

(* A request keeps the shape of its role: a payload lives under the token   *)
(* of its own checksum, only entries live in loader/entries.                *)
EndsWith(text, tail) == IsSuffix(tail, text)
require_normalized_relative_path(path) ==
    \A i \in 0..Len(path), j \in 1..(Len(path) + 1) :
        /\ i < j /\ (i = 0 \/ path[i] = Slash) /\ (j = Len(path) + 1 \/ path[j] = Slash)
        => require_component(SubSeq(path, i + 1, j - 1)) /\ j > i + 1
require_role_binding(r) ==
    /\ (r.source.kind = "sealed") <=> (r.role \notin {"entry", "loader-control"})
    /\ CASE r.role = "payload" ->
              \E i, j \in DOMAIN r.path :
                  /\ r.path[i] = Slash /\ r.path[j] = Slash
                  /\ SubSeq(r.path, i + 1, j - 1) = checksum_identity_token(r.source.digest)
                  /\ SubSeq(r.path, j + 1, Len(r.path)) = <<vmlinuz>> \/ EndsWith(r.path, <<Dot, initrd>>)
         [] r.role = "entry" ->
              IsPrefix(<<loader, Slash, entries, Slash>>, r.path) /\ EndsWith(r.path, <<Dot, conf>>)
         [] r.role = "loader-control" -> r.path = LoaderControlPath
         [] r.role = "fallback-bootloader" -> r.path = FallbackPath
         [] r.role = "systemd-bootloader" -> r.path = SystemdPath

existing_ancestor_index(taken, folded) ==
    \E n \in DOMAIN folded : folded[n] = Slash /\ SubSeq(folded, 1, n - 1) \in taken
existing_descendant_index(taken, folded) ==
    \E t \in taken : IsPrefix(folded \o <<Slash>>, t)

(* Mutant: names are compared as they are spelled. *)
Destination_spelled(o) == o.path
Destination(o) == case_folded_path(o.path)

prepare_publication_plan(requests) ==
    LET Admit(acc, r) ==
            LET domain == CollisionDomain(PlanRoot(r.role))
                mine == {n \in DOMAIN acc.list : CollisionDomain(PlanRoot(acc.list[n].role)) = domain}
                taken == {Destination(acc.list[n]) : n \in mine}
                same == {n \in mine : Destination(acc.list[n]) = Destination(r)}
            IN  CASE acc.why # None -> acc
                  [] acc.why = None /\ ~(require_normalized_relative_path(r.path) /\ require_role_binding(r)) ->
                       [acc EXCEPT !.why = "role binding"]
                  [] acc.why = None /\ require_role_binding(r) /\ same # {} ->
                       IF \E n \in same : acc.list[n] = r THEN acc ELSE [acc EXCEPT !.why = "publication collision"]
                  [] OTHER ->
                       IF existing_ancestor_index(taken, Destination(r)) \/ existing_descendant_index(taken, Destination(r))
                       THEN [acc EXCEPT !.why = "hierarchy collision"]
                       ELSE [acc EXCEPT !.list = Append(@, r)]
    IN  FoldLeft(Admit, [list |-> <<>>, why |-> None], requests)

RootOrder(root) == IF root = "esp" THEN 1 ELSE 2
OutputBefore(a, b) ==
    KeyLess(<<<<Phase(a.role)>>, <<RootOrder(PlanRoot(a.role))>>, case_folded_path(a.path), a.path>>,
            <<<<Phase(b.role)>>, <<RootOrder(PlanRoot(b.role))>>, case_folded_path(b.path), b.path>>)

PlanningPlan ==
    /\ step = "plan"
    /\ LET plan == prepare_publication_plan(work.requests)
       IN  Stage(<<<<Len(work.requests) <= MaxPublications, "publication count">>,
                   <<plan.why = None, plan.why>>>>, "desired",
                 [work EXCEPT !.outputs = SortSeq(plan.list, OutputBefore)])

(* What later attempts compare with what is installed; its sequence is what *)
(* the fingerprint is computed over.                                        *)
Desired ==
    /\ step = "desired"
    /\ Proceed("bind", [work EXCEPT !.desired = SortSeq(work.outputs, OutputBefore)])

(* One list of plan positions per mounted destination.                      *)
destination_slot(root) == IF in.layout = "boot-aliases-esp" THEN "shared" ELSE root
Slots == IF in.layout = "boot-aliases-esp" THEN <<"shared">> ELSE <<"esp", "boot">>
Bind ==
    /\ step = "bind"
    /\ LET Indices(slot) == SelectSeq([n \in DOMAIN work.outputs |-> n],
                                      LAMBDA n : destination_slot(PlanRoot(work.outputs[n].role)) = slot)
           domains == [n \in DOMAIN Slots |-> Indices(Slots[n])]
       IN  /\ \A n \in DOMAIN domains : domains[n] # <<>>
           /\ work' = [work EXCEPT !.domains = domains]
           /\ step' = "done" /\ outcome' = "planned" /\ UNCHANGED in

PlanInit ==
    /\ in \in Inputs
    /\ step = "join" /\ work = PlanningNothing /\ outcome = None

PlanNext == Join \/ Cmdline \/ Render \/ Canonicalize \/ PlanningPlan \/ Desired \/ Bind \/ DeadlineExceeded

-----------------------------------------------------------------------------
Limits == {"kernel count", "kernel tokens", "total tokens", "initrd count", "request count", "publication count"}
Refusals == {"duplicate kernel", "no kernel", "token", "component", "initrd alias", "payload case collision",
             "payload collision", "publication collision", "hierarchy collision", "role binding"}

PlanTypeOK ==
    /\ step \in {"join", "cmdline", "render", "canonicalize", "plan", "desired", "bind", "done"}
    /\ outcome \in {None, "planned", "deadline"} \union Limits \union Refusals
    /\ Len(work.seeds) <= MaxKernels[subject] /\ Len(work.outputs) <= MaxPublications

Rendered == {i \in Bound("kernel") : in.assets[i].state \in in.eligible}
InitrdsOf(i) ==
    {j \in Bound("initrd") : in.assets[j].state = in.assets[i].state /\ in.assets[j].version = in.assets[i].version}
EntryFor(i) ==
    LET a == in.assets[i]
    IN  {n \in DOMAIN work.outputs : /\ work.outputs[n].role = "entry"
                                     /\ work.outputs[n].path = entry_path(in.schema[a.state], a.version, a.state)}

(* Every kernel of an eligible state has exactly one loader entry, and the  *)
(* files that entry names are outputs with the very bytes of that kernel    *)
(* and of its initrds, published in an earlier phase than the entry; the    *)
(* loader that starts all of them comes last.                               *)
EntriesBoot == subject = "plan" =>
    (outcome = "planned" =>
        \A i \in Rendered :
            /\ Cardinality(EntryFor(i)) = 1
            /\ LET n == CHOOSE n \in EntryFor(i) : TRUE
                   bytes == work.outputs[n].source.bytes
                   Published(path, j) ==
                       \E m \in 1..(n - 1) : /\ work.outputs[m].role = "payload" /\ work.outputs[m].path = path
                                             /\ work.outputs[m].source.content = in.assets[j].content
               IN  /\ Published(bytes.linux, i)
                   /\ Len(bytes.initrds) = Cardinality(InitrdsOf(i))
                   /\ \A j \in InitrdsOf(i) : \E k \in DOMAIN bytes.initrds : Published(bytes.initrds[k], j)
                   /\ \A m \in DOMAIN work.outputs :
                          work.outputs[m].source.kind = "sealed" /\ work.outputs[m].role # "payload" => m > n)

(* No two outputs of one volume have names that a FAT file system cannot    *)
(* tell apart, and every output is asked of exactly one destination.        *)
NoAliases == subject = "plan" =>
    (outcome = "planned" =>
        /\ \A m, n \in DOMAIN work.outputs :
               m < n /\ CollisionDomain(PlanRoot(work.outputs[m].role)) = CollisionDomain(PlanRoot(work.outputs[n].role))
                   => case_folded_path(work.outputs[m].path) # case_folded_path(work.outputs[n].path)
        /\ \A n \in DOMAIN work.outputs :
               Cardinality({d \in DOMAIN work.domains : n \in {work.domains[d][k] : k \in DOMAIN work.domains[d]}}) = 1)

(* The options of an entry are those of its own state: the snippets of that *)
(* state that no local mask names, all local snippets, one root argument    *)
(* and last its own state.                                                  *)
OptionsAreItsOwn == subject = "options" =>
    (outcome = "planned" =>
        \A i \in Rendered :
            LET a == in.assets[i]
                options == work.outputs[CHOOSE n \in EntryFor(i) : TRUE].source.bytes.options
                Words(seq) == {seq[k] : k \in DOMAIN seq}
                mine == {p \in Words(in.assets) :
                            /\ p.role = "global-cmdline" \/ (p.role = "kernel-cmdline" /\ p.version = a.version)
                            /\ p.state = a.state
                            /\ ~\E e \in Words(in.local) : e.kind = "mask" /\ e.name = p.name}
                appended == {e \in Words(in.local) : e.kind = "append"}
            IN  /\ Words(options) = UNION {Words(p.tokens) : p \in mine \union appended}
                                       \union {RootArgument, CastArgument(a.state)}
                /\ Last(options) = CastArgument(a.state)
                /\ \A k \in 1..(Len(options) - 2) : options[k].key \notin {"root", "cast.fstx"})

(* Two names that differ in case only, or one name for two contents.        *)
SameFile(p, q) == case_folded_path(p) = case_folded_path(q)
PayloadPath(i, j) ==
    payload_path(in.schema[in.assets[i].state], in.assets[j].digest,
                 IF i = j THEN <<vmlinuz>> ELSE in.assets[j].name)
Conflict ==
    \/ Rendered = {}
    \/ ~Audited
    \/ ~require_component(in.schema[HeadState])
    \/ \E i \in Rendered :
        \/ ~require_component(in.schema[in.assets[i].state]) \/ ~require_component(in.assets[i].version)
        \/ \E j, k \in InitrdsOf(i) : j # k /\ SameFile(in.assets[j].name, in.assets[k].name)
    \/ \E i, j \in Rendered : \E p \in InitrdsOf(i) \union {i}, q \in InitrdsOf(j) \union {j} :
        /\ SameFile(PayloadPath(i, p), PayloadPath(j, q))
        /\ PayloadPath(i, p) # PayloadPath(j, q) \/ in.assets[p].content # in.assets[q].content
    \/ \E i, j \in Rendered :
        /\ i # j /\ in.assets[i].state = in.assets[j].state
        /\ SameFile(in.assets[i].version, in.assets[j].version)

(* The stages that look only at neighbours of a sorted list refuse exactly  *)
(* the inputs with a conflict between any two names, beyond the limits.     *)
RefusesConflicts == subject = "plan" =>
    /\ outcome = "planned" => ~Conflict
    /\ outcome \in Refusals => Conflict

-----------------------------------------------------------------------------
(***************************************************************************)
(* Capturing what the boot plan is made from: the head state and its        *)
(* rollback states with their package selections, the packages' layouts,    *)
(* the boot files those layouts name, and sealed copies of their content.   *)
(* The two databases have no common transaction, so both are read in a      *)
(* sandwich and read again when everything else is retained; the content    *)
(* comes from an asset pool other processes may change at any time.         *)
(*                                                                         *)
(* A path is the sequence of its components below /usr.  A record of a      *)
(* layout carries a link's target as normalize_frozen_symlink_target would  *)
(* return it: None when it cannot be normalised, <<>> for /usr itself or    *)
(* anything outside it.  Content is the digest it hashes to.                *)
(***************************************************************************)

-----------------------------------------------------------------------------
(* The projection.                                                          *)

Descending(ids) == SetToSortSeq(ids, LAMBDA a, b : a > b)

(* One transaction: the head and the newest other states, None without a    *)
(* head row.                                                                *)
frozen_boot_input(db) ==
    IF HeadId \notin DOMAIN db THEN None
    ELSE LET history == Descending(DOMAIN db \ {HeadId})
             kept == SubSeq(history, 1, IF Len(history) < MaxHistory THEN Len(history) ELSE MaxHistory)
         IN  [i \in 1..(Len(kept) + 1) |->
                LET id == (<<HeadId>> \o kept)[i] IN [id |-> id, packages |-> db[id]]]

canonical_selected_packages(states) == UNION {states[i].packages : i \in DOMAIN states}
query_bounded(catalog, packages) == {row \in catalog : row[1] \in packages}

-----------------------------------------------------------------------------
(* The asset plan, a function of one projection.                            *)

kernel_candidate(path) == Len(path) = 4 /\ path[1] = "lib" /\ path[2] = "kernel"
is_vmlinuz(path) == kernel_candidate(path) /\ path[4] = "vmlinuz"
is_global_cmdline(path) ==
    Len(path) = 4 /\ SubSeq(path, 1, 3) = <<"lib", "kernel", "cmdline.d">> /\ path[4] \in CmdlineNames
is_systemd_boot_candidate(path) ==
    /\ Len(path) = 5 /\ path[1] \in LibNames
    /\ SubSeq(path, 2, 5) = <<"systemd", "boot", "efi", "systemd-bootx64.efi">>
OsInfo == <<"lib", "os-info.json">>
classify_kernel_asset(name) ==
    IF name = "vmlinuz" THEN "kernel"
    ELSE IF name \in InitrdNames THEN "initrd"
    ELSE IF name \in CmdlineNames THEN "kernel-cmdline" ELSE None
role_requires_nonempty(role) == role \in {"systemd-boot", "os-info", "kernel", "initrd"}
role_is_control_input(role) == role \in {"os-info", "global-cmdline", "kernel-cmdline"}

(* Root owns every record and only files, directories and links are known.  *)
require_boot_layout_metadata(record) ==
    /\ record.root /\ record.kind \in {"regular", "directory", "symlink"}

selected_packages(state) == state.packages
Records(layouts, state) == {row[2] : row \in {r \in layouts : r[1] \in selected_packages(state)}}

(* The path index of one state, or why there is none.                       *)
ConflictingPath(records) == \E r, s \in records : r.path = s.path /\ r # s
IndexPaths(records) == {r.path : r \in records}
PlanningAt(records, path) == CHOOSE r \in records : r.path = path
require_layout_hierarchy(records) ==
    \A path \in IndexPaths(records) : \A n \in 1..(Len(path) - 1) :
        SubSeq(path, 1, n) \in IndexPaths(records) => PlanningAt(records, SubSeq(path, 1, n)).kind = "directory"
StateLayoutIndex(records) ==
    IF \E r \in records : ~require_boot_layout_metadata(r) THEN "metadata"
    ELSE IF ConflictingPath(records) THEN "conflicting path"
    ELSE IF ~require_layout_hierarchy(records) THEN "ancestor"
    ELSE None

(* Follows links from a path: the digest it ends at, or the refusal.        *)
RECURSIVE Resolve(_, _, _, _)
Resolve(records, path, visited, hops) ==
    IF hops > MaxHops THEN [why |-> "depth", digest |-> None]
    ELSE IF path = None \/ path = <<>> THEN [why |-> "escape", digest |-> None]
    ELSE IF path \in visited THEN [why |-> "cycle", digest |-> None]
    ELSE IF path \notin IndexPaths(records) THEN [why |-> "missing", digest |-> None]
    ELSE LET r == PlanningAt(records, path)
         IN  CASE r.kind = "regular" -> [why |-> None, digest |-> r.digest]
               [] r.kind = "symlink" -> Resolve(records, r.target, visited \cup {path}, hops + 1)
               [] OTHER -> [why |-> "not regular", digest |-> None]
resolve_regular(records, path) == Resolve(records, path, {}, 0)

kernel_versions(records) == {path[3] : path \in {p \in IndexPaths(records) : is_vmlinuz(p)}}

head_systemd_candidate_count(projection) ==
    Cardinality({p \in IndexPaths(Records(projection.layouts, projection.states[1])) : is_systemd_boot_candidate(p)})

(* Which schema a state needs and where its own comes from.                 *)
schema_fallback(i, records) ==
    IF i = 1 THEN "required" ELSE IF kernel_versions(records) # {} THEN "global" ELSE None
schema_source(i, records) ==
    IF schema_fallback(i, records) = None THEN None
    ELSE IF OsInfo \in IndexPaths(records) THEN "os-info" ELSE "os-release"

CandidateRole(i, records, path) ==
    IF i = 1 /\ is_systemd_boot_candidate(path) THEN "systemd-boot"
    ELSE IF path = OsInfo /\ schema_source(i, records) = "os-info" THEN "os-info"
    ELSE IF kernel_versions(records) # {} /\ is_global_cmdline(path) THEN "global-cmdline"
    ELSE IF kernel_candidate(path) /\ path[3] \in kernel_versions(records) THEN classify_kernel_asset(path[4])
    ELSE None
Candidates(i, records) ==
    {[state |-> i, path |-> p, role |-> CandidateRole(i, records, p)] :
        p \in {q \in IndexPaths(records) : CandidateRole(i, records, q) # None}}

(* The first condition of a sequence of <<condition, reason>> that fails.   *)
FirstFailing(checks) ==
    IF \A n \in DOMAIN checks : checks[n][1] THEN None
    ELSE checks[CHOOSE n \in DOMAIN checks : ~checks[n][1] /\ \A m \in 1..(n - 1) : checks[m][1]][2]

PlanningPlanned(outcome1, why, assets, schemas) == [outcome |-> outcome1, why |-> why, assets |-> assets, schemas |-> schemas]
NotPlanned(outcome1, why) == PlanningPlanned(outcome1, why, {}, <<>>)

prepare_asset_plan(projection) ==
    LET states == projection.states
        records == [i \in DOMAIN states |-> Records(projection.layouts, states[i])]
        loaders == head_systemd_candidate_count(projection)
        kernels(n) == MapThenSumSet(LAMBDA i : Cardinality(kernel_versions(records[i])), 1..n)
        counted(n) == MapThenSumSet(LAMBDA i : Cardinality(Candidates(i, records[i])), 1..n)
        Built(i) == <<<<StateLayoutIndex(records[i]) = None, StateLayoutIndex(records[i])>>,
                      <<kernels(i) <= MaxInputsKernels[subject], "kernels">>, <<counted(i) <= MaxAssets[subject], "assets">>>>
        built == FirstFailing(FlattenSeq([i \in DOMAIN states |-> Built(i)]))
        candidates == UNION {Candidates(i, records[i]) : i \in DOMAIN states}
        end(c) == resolve_regular(records[c.state], c.path)
        unresolved == {c \in candidates : end(c).why # None}
        assets == {[state |-> c.state, path |-> c.path, role |-> c.role, digest |-> end(c).digest] : c \in candidates}
    IN  CASE loaders = 0 -> NotPlanned("not applicable", "no loader")
          [] loaders > 1 -> NotPlanned("refused", "loaders")
          [] loaders = 1 /\ built # None -> NotPlanned("refused", built)
          [] loaders = 1 /\ built = None /\ kernels(Len(states)) = 0 -> NotPlanned("not applicable", "no kernel")
          [] OTHER ->
               IF unresolved # {} THEN NotPlanned("refused", "unresolved")
               ELSE IF \E a \in assets : a.digest = Empty /\ role_requires_nonempty(a.role) THEN NotPlanned("refused", "empty")
               ELSE IF Cardinality({a.digest : a \in assets}) > MaxDigests[subject] THEN NotPlanned("refused", "digests")
               ELSE PlanningPlanned("ready", None, assets, [i \in DOMAIN states |-> schema_source(i, records[i])])

snapshot_digests(plan) == {a.digest : a \in plan.assets}
-----------------------------------------------------------------------------
(* The capture.  Idle is also what a refused capture leaves.                *)

NoPlan == [outcome |-> None, why |-> None, assets |-> {}, schemas |-> <<>>]
PlanningIdle == [step |-> "idle", phase |-> "prepare", expected |-> None, before |-> None, first |-> {}, states |-> None,
                 layouts |-> {}, plan |-> NoPlan, todo |-> <<>>, opened |-> <<>>, snapshots |-> <<>>, outcome |-> None]
InputsRefuse(why) == op' = [PlanningIdle EXCEPT !.outcome = why]
Unread == UNCHANGED <<sdb, ldb, pool, outside>>
PlanningPair(db, catalog) ==
    LET states == frozen_boot_input(db)
    IN  <<states, IF states = None THEN {} ELSE query_bounded(catalog, canonical_selected_packages(states))>>

(* The caller holds a head state of its own; it may be older than the row.  *)
Prepare ==
    /\ op.step = "idle" /\ op.outcome = None
    /\ \E packages \in {db[HeadId] : db \in {d \in Databases[subject] : HeadId \in DOMAIN d}} :
          op' = [op EXCEPT !.step = "states before", !.expected = [id |-> HeadId, packages |-> packages]]
    /\ Unread /\ UNCHANGED held

(* capture_with_layout_query_and_clock, one read of a database a step.      *)
StatesBefore ==
    /\ op.step = "states before"
    /\ LET states == frozen_boot_input(sdb)
       IN  IF states = None THEN InputsRefuse("missing head") /\ held' = {}
           ELSE IF Cardinality(canonical_selected_packages(states)) > MaxPackages
           THEN InputsRefuse("packages") /\ held' = {}
           ELSE /\ op' = [op EXCEPT !.step = "layouts before", !.before = states]
                /\ held' = {PlanningPair(sdb, ldb)}
    /\ Unread
LayoutsBefore ==
    /\ op.step = "layouts before"
    /\ op' = [op EXCEPT !.step = "layouts after", !.first = query_bounded(ldb, canonical_selected_packages(op.before))]
    /\ Unread /\ UNCHANGED held
LayoutsAfter ==
    /\ op.step = "layouts after"
    /\ IF query_bounded(ldb, canonical_selected_packages(op.before)) = op.first
       THEN op' = [op EXCEPT !.step = "states after"] /\ UNCHANGED held
       ELSE InputsRefuse("layout sandwich") /\ held' = {}
    /\ Unread
StatesAfter ==
    /\ op.step = "states after"
    /\ IF frozen_boot_input(sdb) = op.before
       THEN /\ op' = [op EXCEPT !.step = IF op.phase = "prepare" THEN "plan" ELSE "compare"]
            /\ UNCHANGED held
       ELSE InputsRefuse("state sandwich") /\ held' = {}
    /\ Unread

(* The head is the one the caller expects; the plan needs no more reads.    *)
PlanAssets ==
    /\ op.step = "plan"
    /\ LET plan == prepare_asset_plan([states |-> op.before, layouts |-> op.first])
           retained == [op EXCEPT !.states = op.before, !.layouts = op.first, !.before = None, !.first = {}, !.plan = plan]
           digests == SetToSortSeq(snapshot_digests(plan), <)
           required == 3 * Cardinality(snapshot_digests(plan) \ {Empty}) + Cardinality(snapshot_digests(plan))
       IN  IF op.before[1] # op.expected THEN InputsRefuse("expected head") /\ held' = {}
           ELSE IF plan.outcome = "refused" THEN InputsRefuse(plan.why) /\ held' = {}
           ELSE IF plan.outcome = "not applicable"
           THEN op' = [retained EXCEPT !.step = "not applicable"] /\ UNCHANGED held
           ELSE IF required > MaxDescriptors[subject] THEN InputsRefuse("descriptors") /\ held' = {}
           ELSE op' = [retained EXCEPT !.step = "open", !.todo = digests] /\ held' = {}
    /\ Unread

(* authenticate_asset_sources, one digest a step in ascending order: every  *)
(* source is retained before the first is copied.                           *)
TotalLength(opened) == MapThenSumSet(LAMBDA d : Length[opened[d].bytes], DOMAIN opened)
OpenSource ==
    /\ op.step = "open" /\ op.todo # <<>>
    /\ LET digest == op.todo[1]
           opened == (digest :> pool[digest]) @@ op.opened
       IN  IF digest = Empty THEN op' = [op EXCEPT !.todo = Tail(@)]
           ELSE IF pool[digest].bytes = None THEN InputsRefuse("open source")
           ELSE IF Length[pool[digest].bytes] > MaxAssetBytes THEN InputsRefuse("asset bytes")
           ELSE IF TotalLength(opened) > MaxTotalBytes[subject] THEN InputsRefuse("total bytes")
           ELSE op' = [op EXCEPT !.todo = Tail(@), !.opened = opened]
    /\ Unread /\ UNCHANGED held
Opened ==
    /\ op.step = "open" /\ op.todo = <<>>
    /\ op' = [op EXCEPT !.step = "copy", !.todo = SetToSortSeq(snapshot_digests(op.plan), <)]
    /\ Unread /\ UNCHANGED held

(* copy_fd_exact reads what the descriptor holds now.  The file it holds    *)
(* may have been written in place since it was opened, or replaced under    *)
(* its name, and then the descriptor still holds the old content.           *)
copy_fd_exact(digest, bytes) == bytes = digest /\ Length[bytes] = Length[op.opened[digest].bytes]
CopyBytes ==
    /\ op.step = "copy" /\ op.todo # <<>>
    /\ LET digest == op.todo[1]
           now == IF pool[digest].ino = op.opened[digest].ino THEN pool[digest].bytes ELSE op.opened[digest].bytes
       IN  IF digest = Empty
           THEN op' = [op EXCEPT !.todo = Tail(@), !.snapshots = (Empty :> Empty) @@ @]
           ELSE \E bytes \in {now, op.opened[digest].bytes} \cup (IF now = op.opened[digest].bytes THEN {} ELSE {Other}) :
                  IF copy_fd_exact(digest, bytes)
                  THEN op' = [op EXCEPT !.step = "unchanged", !.snapshots = (digest :> bytes) @@ @]
                  ELSE InputsRefuse("copy")
    /\ Unread /\ UNCHANGED held
(* The descriptor and the name both still show the retained witness; then   *)
(* the copy is sealed.                                                      *)
require_asset_unchanged ==
    /\ op.step = "unchanged"
    /\ IF pool[op.todo[1]] = op.opened[op.todo[1]]
       THEN op' = [op EXCEPT !.step = "copy", !.todo = Tail(@)]
       ELSE InputsRefuse("source changed")
    /\ Unread /\ UNCHANGED held

(* bind_snapshots_until: every asset has its snapshot, no snapshot is left  *)
(* over, and roles and totals are within bounds.                            *)
Referenced(assets) == MapThenSumSet(LAMBDA a : Length[op.snapshots[a.digest]], assets)
InputsBind ==
    /\ op.step = "copy" /\ op.todo = <<>>
    /\ LET assets == op.plan.assets
           why == FirstFailing(<<
                <<snapshot_digests(op.plan) \subseteq DOMAIN op.snapshots, "missing snapshot">>,
                <<DOMAIN op.snapshots \subseteq snapshot_digests(op.plan), "extra snapshot">>,
                <<\A a \in assets : Length[op.snapshots[a.digest]] <= RoleLimit[a.role], "role bytes">>,
                <<Referenced(assets) <= MaxReferenced[subject], "referenced bytes">>,
                <<Referenced({a \in assets : role_is_control_input(a.role)}) <= MaxControl[subject], "control bytes">>>>)
       IN  IF why # None THEN InputsRefuse(why)
           ELSE op' = [op EXCEPT !.step = "states before", !.phase = "revalidate", !.opened = <<>>]
    /\ Unread /\ UNCHANGED held

(* revalidate_until: what the second sandwich read is what was retained.    *)
Compare ==
    /\ op.step = "compare"
    /\ IF op.before # op.states THEN InputsRefuse("state changed") /\ held' = {}
       ELSE IF op.first # op.layouts THEN InputsRefuse("layout changed") /\ held' = {}
       ELSE op' = [op EXCEPT !.step = "ready", !.before = None, !.first = {}] /\ UNCHANGED held
    /\ Unread
(* A consumer of the prepared inputs revalidates them again.                *)
PlanningRevalidate ==
    /\ op.step = "ready"
    /\ op' = [op EXCEPT !.step = "states before"] /\ held' = {}
    /\ Unread

(* Every stage checks one deadline before and after its work.               *)
InputsDeadlineExceeded ==
    /\ op.step \notin {"idle", "ready", "not applicable"}
    /\ InputsRefuse("deadline") /\ held' = {}
    /\ Unread

-----------------------------------------------------------------------------
(* Others: other clients commit states, prune, cache and remove packages;   *)
(* a pool file is replaced, written in place or removed.                    *)
Watching == held # {} /\ op.step \in {"layouts before", "layouts after", "states after"}
PlanningOutside ==
    /\ outside < PlanningMaxOutside[subject] /\ op.step \notin {"idle", "ready", "not applicable"}
    /\ outside' = outside + 1
    /\ UNCHANGED op
OutsideDatabase ==
    /\ PlanningOutside
    /\ \/ sdb' \in Databases[subject] \ {sdb} /\ UNCHANGED ldb
       \/ ldb' \in Catalogs[subject] \ {ldb} /\ UNCHANGED sdb
    /\ held' = IF Watching THEN held \cup {PlanningPair(sdb', ldb')} ELSE held
    /\ UNCHANGED pool
OutsidePool ==
    /\ PlanningOutside /\ subject = "race"
    /\ \E d \in DOMAIN pool : \E ino \in {0, 1}, bytes \in {d, Other, None} :
          /\ bytes # pool[d].bytes /\ (bytes = None => ino = 1)
          /\ pool' = [pool EXCEPT ![d] = [ino |-> @.ino + ino, ver |-> @.ver + 1, bytes |-> bytes]]
    /\ UNCHANGED <<sdb, ldb, held>>

InputsInit ==
    /\ sdb \in {d \in Databases[subject] : HeadId \in DOMAIN d} /\ ldb \in Catalogs[subject]
    /\ pool = [d \in {r[2].digest : r \in UNION Catalogs[subject]} \ {None, Empty} |-> [ino |-> 0, ver |-> 0, bytes |-> d]]
    /\ op = PlanningIdle /\ held = {} /\ outside = 0
InputsNext ==
    \/ Prepare \/ StatesBefore \/ LayoutsBefore \/ LayoutsAfter \/ StatesAfter \/ PlanAssets
    \/ OpenSource \/ Opened \/ CopyBytes \/ require_asset_unchanged \/ InputsBind \/ Compare \/ PlanningRevalidate
    \/ InputsDeadlineExceeded \/ OutsideDatabase \/ OutsidePool

-----------------------------------------------------------------------------
Steps == {"idle", "states before", "layouts before", "layouts after", "states after", "plan", "not applicable", "open",
          "copy", "unchanged", "compare", "ready"}
(* The capture keeps what it read and only what its step needs. *)
InputsTypeOK ==
    /\ sdb \in Databases[subject] /\ ldb \in Catalogs[subject] /\ outside \in 0..PlanningMaxOutside[subject]
    /\ op.step \in Steps /\ op.phase \in {"prepare", "revalidate"}
    /\ op.plan.outcome \in {None, "ready", "not applicable"}
    /\ \A d \in DOMAIN pool : pool[d].bytes \in {d, Other, None}

(* The state list was another one at some moment between its two equal     *)
(* reads: it was changed and changed back, which comparing values misses.   *)
ChangedBack(states) == \E pair \in held : pair[1] # states

(* Prepared boot inputs pair a state list and the layouts of its packages   *)
(* that both databases held at one moment after everything else had been    *)
(* retained, however often the catalog was changed and changed back and     *)
(* whatever happened while assets were copied, unless the state list itself *)
(* was changed and changed back inside the last sandwich                    *)
(* (capture_with_layout_query_and_clock).                                   *)
ReadyIsCurrent == subject \in {"race", "sandwich"} =>
    (op.step = "ready" => <<op.states, op.layouts>> \in held \/ ChangedBack(op.states))

(* The verdict that a reblit needs no boot publication is never revalidated *)
(* and rests on one sandwich alone: at one moment of it both databases held *)
(* a head without a loader, or no projected state with a kernel, again      *)
(* unless the state list was changed and changed back inside it.            *)
NotApplicableWasTrue == subject \in {"race", "sandwich"} =>
    (op.step = "not applicable" =>
        \/ ChangedBack(op.states)
        \/ \E pair \in held :
            LET files(i) == {r[2].path : r \in {row \in pair[2] : row[1] \in pair[1][i].packages}}
            IN  \/ \A path \in files(1) : ~is_systemd_boot_candidate(path)
                \/ \A i \in DOMAIN pair[1] : \A path \in files(i) : ~is_vmlinuz(path))

(* Every bound asset is a sealed copy with the content its digest names and *)
(* nothing else was copied, whatever happened to the pool meanwhile.        *)
SnapshotsAreGenuine == subject \in {"race", "sandwich"} =>
    (op.step = "ready" =>
        /\ DOMAIN op.snapshots = {a.digest : a \in op.plan.assets}
        /\ \A d \in DOMAIN op.snapshots : op.snapshots[d] = d)

(* The digests n links away from a path.                                    *)
RECURSIVE LinkImage(_, _, _)
LinkImage(records, paths, n) ==
    IF n = 0 THEN paths
    ELSE LinkImage(records, {r.target : r \in {s \in records : s.path \in paths /\ s.kind = "symlink"}}, n - 1)
(* The plan binds to each state exactly the boot files of its own packages: *)
(* every kernel they ship, under the digest its links lead to, one loader   *)
(* and that the head's, and a schema for every state that gets entries.     *)
PlanIsOfItsStates == subject = "inputs" =>
    (op.plan.outcome = "ready" =>
        LET own(i) == {r[2] : r \in {row \in op.layouts : row[1] \in op.states[i].packages}}
        IN  /\ \A a \in op.plan.assets :
                  /\ \E r \in own(a.state) : r.path = a.path
                  /\ \E n \in 0..MaxHops : \E r \in own(a.state) :
                        r.path \in LinkImage(own(a.state), {a.path}, n) /\ r.kind = "regular" /\ r.digest = a.digest
            /\ \A i \in DOMAIN op.states : \A r \in own(i) :
                  is_vmlinuz(r.path) =>
                    /\ \E a \in op.plan.assets : a.state = i /\ a.path = r.path /\ a.role = "kernel" /\ a.digest # Empty
                    /\ op.plan.schemas[i] # None
            /\ {a.state : a \in {b \in op.plan.assets : b.role = "systemd-boot"}} = {1})

-----------------------------------------------------------------------------
(***************************************************************************)
(* The trees and the names the boot entries of a reblit belong to.  The     *)
(* live /usr is retained for the head and each archived wrapper under       *)
(* .cast/root/<id> for a rollback state; a wrapper that is not exactly one  *)
(* archive of its state is excluded.  Then every state with a kernel gets   *)
(* the boot schema (the OS name its entries carry): its own, from an asset  *)
(* or from lib/os-release in its retained tree, or else the head's.         *)
(* Retained trees are revalidated by name before anything is rendered.      *)
(*                                                                         *)
(* A tree stands for its inode, its marker (Token) and its state id file;   *)
(* an archived wrapper is one with its tree.  os is what the tree's         *)
(* lib/os-release is: its version (the witness: any write changes it) and   *)
(* its document, which names the tree it belongs to when it is valid.       *)
(***************************************************************************)
\* op: the capture
\* held: the assignments of trees to names since the last revalidation began

RootsHeadState == Projected[1]
History == Tail(Projected)
Usr == 0
Away == -1
Names == {Usr, Away} \cup {History[i] : i \in DOMAIN History}
NameOf(state) == IF state = RootsHeadState THEN Usr ELSE state
Valid(t) == <<"valid", t>>
Absent == <<"absent", None>>
Unsafe == <<"unsafe", None>>
Malformed == <<"malformed", None>>
Documents(t) == {Valid(t), Absent, Unsafe, Malformed}

RootsIdle == [step |-> "idle", then |-> "schemas", head |-> None, todo |-> <<>>, roots |-> <<>>, eligible |-> <<>>, pass |-> 0,
         want |-> <<>>, schemas |-> <<>>, witness |-> None, doc |-> None, outcome |-> None]
PlanningWorld == UNCHANGED <<at, shape, os, info, planning_touched, outside>>
Quiet == PlanningWorld /\ UNCHANGED <<held, read>>
RootsRefuse(why) == op' = [RootsIdle EXCEPT !.outcome = why]

-----------------------------------------------------------------------------
(* PreparedActiveReblitBootStateRoots.                                      *)

(* The caller hands over the /usr it selected, which may have been replaced *)
(* under its name since.                                                    *)
RootsPrepare ==
    /\ op.step = "idle" /\ op.outcome = None
    /\ \E t \in {at[n] : n \in {Usr, Away}} \ {None} : op' = [op EXCEPT !.step = "head", !.head = t]
    /\ Quiet

validate_projection ==
    /\ Projected # <<>>
    /\ \A i, j \in DOMAIN Projected : i # j => Projected[i] # Projected[j]
    /\ \A i \in DOMAIN Projected : Projected[i] > 0

retain_head ==
    /\ op.step = "head"
    /\ IF ~validate_projection \/ StateOf[op.head] # RootsHeadState THEN RootsRefuse("head identity")
       ELSE op' = [op EXCEPT !.step = "probe", !.todo = History, !.roots = <<op.head>>, !.eligible = <<RootsHeadState>>]
    /\ Quiet

Exclude == op' = [op EXCEPT !.step = "probe", !.todo = Tail(@), !.doc = None]
child_name_exists ==
    /\ op.step = "probe" /\ op.todo # <<>>
    /\ IF at[op.todo[1]] = None THEN Exclude
       ELSE op' = [op EXCEPT !.step = "retain"]
    /\ Quiet
(* The wrapper holds one tree of this state and nothing else.               *)
Inexact(t, state) == IF t = None THEN TRUE ELSE StateOf[t] # state \/ shape[t] # "exact"
RetainArchived ==
    /\ op.step = "retain"
    /\ LET t == at[op.todo[1]]
       IN  \/ Inexact(t, op.todo[1]) = TRUE /\ Exclude
           \/ ~Inexact(t, op.todo[1]) /\ op' = [op EXCEPT !.step = "retained", !.doc = t]
           \/ RootsRefuse("archived identity")
    /\ Quiet
revalidate_named ==
    /\ op.step = "retained"
    /\ LET t == op.doc
       IN  \/ (at[op.todo[1]] # t \/ Inexact(t, op.todo[1])) = TRUE /\ Exclude
           \/ /\ at[op.todo[1]] = t /\ ~Inexact(t, op.todo[1])
              /\ op' = [op EXCEPT !.step = "probe", !.todo = Tail(@), !.doc = None,
                                  !.roots = Append(@, t), !.eligible = Append(@, op.todo[1])]
           \/ RootsRefuse("runtime identity")
    /\ Quiet
require_unique_tree_tokens ==
    /\ op.step = "probe" /\ op.todo = <<>>
    /\ IF \E i, j \in DOMAIN op.roots : i < j /\ Token[op.roots[i]] = Token[op.roots[j]] THEN RootsRefuse("token")
       ELSE op' = [op EXCEPT !.step = "names", !.pass = 1, !.todo = op.eligible]
    /\ held' = {at} /\ read' = {}
    /\ PlanningWorld

(* revalidate_exact_names_once, twice: the head, then each archive, must be *)
(* the retained tree under its name and still be exact.                     *)
Retained(state) == op.roots[CHOOSE i \in DOMAIN op.eligible : op.eligible[i] = state]
revalidate_exact_name ==
    /\ op.step = "names" /\ op.todo # <<>>
    /\ LET state == op.todo[1]
           t == Retained(state)
           exact == IF state = RootsHeadState THEN at[Usr] = t ELSE at[state] = t /\ ~Inexact(t, state)
       IN  IF exact THEN op' = [op EXCEPT !.todo = Tail(@)] ELSE RootsRefuse("changed")
    /\ Quiet
revalidate_with_budget ==
    /\ op.step = "names" /\ op.todo = <<>>
    /\ op' = IF op.pass = 1 THEN [op EXCEPT !.pass = 2, !.todo = op.eligible]
             ELSE [op EXCEPT !.step = op.then, !.pass = 0, !.want = IF op.then = "schemas" THEN Requirements ELSE op.schemas]
    /\ Quiet

-----------------------------------------------------------------------------
(* PreparedActiveReblitBootSchemas.                                         *)

RootsLocal(state, doc, from) == [state |-> state, doc |-> doc, from |-> from, witness |-> op.witness]
PlanningFound(doc, from) ==
    op' = [op EXCEPT !.step = "schemas", !.want = Tail(@), !.witness = None, !.doc = None,
                     !.schemas = Append(@, RootsLocal(op.want[1].state, doc, from))]
(* The head must have its own schema; any other state takes the head's.     *)
Unavailable ==
    IF op.want[1].state = RootsHeadState THEN RootsRefuse("required schema")
    ELSE op' = [op EXCEPT !.step = "schemas", !.want = Tail(@), !.witness = None, !.doc = None,
                          !.schemas = Append(@, [RootsLocal(op.want[1].state, op.schemas[1].doc, "global") EXCEPT !.witness = None])]
resolve_os_info ==
    IF info[op.want[1].state] = Malformed THEN Unavailable ELSE PlanningFound(info[op.want[1].state], "os-info")
resolve_local_schema ==
    /\ op.step = "schemas" /\ op.want # <<>>
    /\ LET state == op.want[1].state
       IN  IF ~\E i \in DOMAIN op.eligible : op.eligible[i] = state THEN op' = [op EXCEPT !.want = Tail(@)]
           ELSE IF op.want[1].source = "os-info" THEN resolve_os_info
           ELSE op' = [op EXCEPT !.step = "open"]
    /\ Quiet
(* RetainedGeneratedOsRelease::prepare: the component walk and the checks   *)
(* of its witness, the read, and the names once more.                       *)
open_generated_component ==
    /\ op.step = "open"
    /\ LET now == os[Retained(op.want[1].state)]
       IN  \/ now.doc \in {Absent, Unsafe} /\ Unavailable
           \/ now.doc \notin {Absent, Unsafe} /\ op' = [op EXCEPT !.step = "read", !.witness = now.ver]
           \/ RootsRefuse("generated io")
    /\ Quiet
read_exact_file ==
    /\ op.step = "read"
    /\ op' = [op EXCEPT !.step = "stable", !.doc = os[Retained(op.want[1].state)].doc]
    /\ Quiet
stable_generated_names ==
    /\ op.step = "stable"
    /\ IF os[Retained(op.want[1].state)].ver # op.witness THEN Unavailable
       ELSE IF op.doc = Malformed THEN Unavailable
       ELSE PlanningFound(op.doc, "os-release")
    /\ Quiet
(* The view is rendered later: roots and schemas are revalidated first.     *)
SchemasReady ==
    /\ op.step = "schemas" /\ op.want = <<>>
    /\ op' = [op EXCEPT !.step = "names", !.then = "sources", !.pass = 1, !.todo = op.eligible]
    /\ held' = {at} /\ read' = {<<t, os[t].doc>> : t \in Trees}
    /\ PlanningWorld

(* Every source is read again and must be what was retained.                *)
revalidate_sources ==
    /\ op.step = "sources" /\ op.want # <<>>
    /\ LET s == op.want[1]
           same == s.from # "os-release" \/ (os[Retained(s.state)].ver = s.witness /\ os[Retained(s.state)].doc = s.doc)
       IN  IF same THEN op' = [op EXCEPT !.want = Tail(@)] ELSE RootsRefuse("source changed")
    /\ Quiet
RootsRendered ==
    /\ op.step = "sources" /\ op.want = <<>>
    /\ op' = [op EXCEPT !.step = "ready"]
    /\ Quiet
RootsDeadlineExceeded ==
    /\ op.step \notin {"idle", "ready"}
    /\ RootsRefuse("deadline") /\ Quiet

-----------------------------------------------------------------------------
(* Others move trees between the names, change a wrapper's entries or       *)
(* rewrite an os-release.                                                   *)
RootsOutside(what) ==
    /\ outside < MaxRootsOutside[subject] /\ op.step \notin {"idle", "ready"}
    /\ outside' = outside + 1 /\ planning_touched' = planning_touched \cup what
    /\ UNCHANGED <<info, op>>
Back == <<"back", None>>
\* Between the two readings of its name a retained tree is put back there.
PutBack(t, n) ==
    \E i \in DOMAIN op.roots :
        /\ op.step = "names" /\ op.roots[i] = t /\ NameOf(op.eligible[i]) = n
        /\ (op.pass = 2) = (\E j \in DOMAIN op.todo : op.todo[j] = op.eligible[i])
Move ==
    \E m, n \in Names :
        /\ at[m] # at[n]
        /\ RootsOutside({at[m], at[n]} \ {None})
        /\ at' = [at EXCEPT ![m] = at[n], ![n] = at[m]]
        /\ held' = held \cup {at'}
        /\ read' = read \cup {<<at'[k], Back>> : k \in {k \in {m, n} : PutBack(at'[k], k)}}
        /\ UNCHANGED <<shape, os>>
Reshape ==
    \E t \in Reshapable[subject] :
        /\ RootsOutside({t})
        /\ shape' = [shape EXCEPT ![t] = IF @ = "exact" THEN "extra" ELSE "exact"]
        /\ UNCHANGED <<at, os, held, read>>
Rewrite ==
    \E t \in Rewritable[subject] : \E doc \in Documents(t) :
        /\ RootsOutside({t})
        /\ os' = [os EXCEPT ![t] = [ver |-> @.ver + 1, doc |-> doc]]
        /\ read' = read \cup {<<t, doc>>}
        /\ UNCHANGED <<at, shape, held>>

RootsInit ==
    /\ at \in Places
    /\ shape \in [Trees -> {"exact", "extra"}]
    /\ os \in [Trees -> {[ver |-> 0, doc |-> d] : d \in UNION {Documents(t) : t \in Trees}}]
    /\ \A t \in Trees : os[t].doc \in Documents(t)
    /\ Cardinality({t \in Trees : shape[t] = "extra"}) + Cardinality({t \in Trees : os[t].doc # Valid(t)}) <= MaxFlaws[subject]
    /\ info \in [{r.state : r \in {q \in {Requirements[i] : i \in DOMAIN Requirements} : q.source = "os-info"}} -> Infos]
    /\ op = RootsIdle /\ held = {} /\ read = {} /\ planning_touched = {} /\ outside = 0
RootsNext ==
    \/ RootsPrepare \/ retain_head \/ child_name_exists \/ RetainArchived \/ revalidate_named
    \/ require_unique_tree_tokens \/ revalidate_exact_name \/ revalidate_with_budget
    \/ resolve_local_schema \/ open_generated_component \/ read_exact_file \/ stable_generated_names
    \/ SchemasReady \/ revalidate_sources \/ RootsRendered \/ RootsDeadlineExceeded
    \/ Move \/ Reshape \/ Rewrite

-----------------------------------------------------------------------------
(* The capture binds at most one tree to each projected state. *)
RootsTypeOK ==
    /\ op.roots \in Seq(Trees) /\ Len(op.roots) = Len(op.eligible)
    /\ \A i \in DOMAIN op.roots : StateOf[op.roots[i]] = op.eligible[i]
    /\ outside \in 0..MaxRootsOutside[subject] /\ planning_touched \subseteq Trees

(* When the inputs are handed to the renderer, there was one moment of the  *)
(* last revalidation at which /usr and every retained archive were under    *)
(* their names together, unless a tree left its name and came back between  *)
(* the two passes' readings of it, which they cannot see; and no token is   *)
(* shared (revalidate_exact_names_once, run twice).                         *)
RootsWereTogether == subject = "rootmoves" =>
    (op.step = "ready" =>
        /\ \/ \E t \in Trees : <<t, Back>> \in read
           \/ \E a \in held : \A i \in DOMAIN op.eligible : a[NameOf(op.eligible[i])] = op.roots[i]
        /\ \A i, j \in DOMAIN op.roots : Token[op.roots[i]] = Token[op.roots[j]] => i = j)

(* A schema taken from a state's own tree is one that tree held during the  *)
(* last revalidation and names that tree; everything else is the head's.    *)
SchemasAreTheirOwn == subject = "roots" =>
    (op.step = "ready" =>
        \A i \in DOMAIN op.schemas :
            LET s == op.schemas[i]
            IN  CASE s.from = "os-release" -> s.doc = Valid(Retained(s.state)) /\ <<Retained(s.state), s.doc>> \in read
                  [] s.from = "os-info" -> s.doc = info[s.state]
                  [] s.from = "global" -> s.doc = op.schemas[1].doc /\ op.schemas[1].state = RootsHeadState)

(* Rollback history does not disappear silently: an archive nobody touched  *)
(* that is exact is among the roots, whatever failed on the way.            *)
HistoryIsKept == subject = "roots" =>
    (op.step = "ready" =>
        \A i \in DOMAIN History :
            LET t == at[History[i]]
            IN  t # None /\ t \notin planning_touched /\ ~Inexact(t, History[i]) => \E j \in DOMAIN op.roots : op.roots[j] = t)

(* Nor does its name: the own os-release of an untouched tree is used when  *)
(* it is valid; a failure to read it never turns into the head's name.      *)
NameIsKept == subject = "roots" =>
    (op.step = "ready" =>
        \A i \in DOMAIN op.schemas :
            LET s == op.schemas[i]
                t == Retained(s.state)
            IN  s.from = "global" /\ t \notin planning_touched =>
                    \/ info # <<>> /\ s.state \in DOMAIN info
                    \/ os[t].doc # Valid(t))

-----------------------------------------------------------------------------
(* A behaviour exercises one part, chosen at the start; the variables of the
   other parts are not in use. *)
PlanningInit ==
    /\ subject \in Subjects
    /\ \/ subject \in {"plan", "options"} /\ PlanInit
          /\ sdb = None /\ ldb = None /\ pool = None /\ op = None /\ held = None /\ outside = None /\ at = None /\ shape = None
          /\ os = None /\ info = None /\ read = None /\ planning_touched = None
       \/ subject \in {"inputs", "race", "sandwich"} /\ InputsInit
          /\ in = None /\ step = None /\ work = None /\ outcome = None /\ at = None /\ shape = None /\ os = None /\ info = None
          /\ read = None /\ planning_touched = None
       \/ subject \in {"roots", "rootmoves"} /\ RootsInit
          /\ in = None /\ step = None /\ work = None /\ outcome = None /\ sdb = None /\ ldb = None /\ pool = None

PlanOnly == subject \in {"plan", "options"} /\ UNCHANGED <<subject, sdb, ldb, pool, op, held, outside, at, shape,
                                                           os, info, read, planning_touched>>
InputsOnly == subject \in {"inputs", "race", "sandwich"} /\ UNCHANGED <<subject, in, step, work, outcome, at, shape, os, info,
                                                            read, planning_touched>>
RootsOnly == subject \in {"roots", "rootmoves"} /\ UNCHANGED <<subject, in, step, work, outcome, sdb, ldb, pool>>
PlanningNext ==
    \/ PlanOnly /\ PlanNext
    \/ InputsOnly /\ InputsNext
    \/ RootsOnly /\ RootsNext

PlanningTypeOK ==
    /\ subject \in {"plan", "options"} => PlanTypeOK
    /\ subject \in {"inputs", "race", "sandwich"} => InputsTypeOK
    /\ subject \in {"roots", "rootmoves"} => RootsTypeOK

-----------------------------------------------------------------------------
(* The instance that TLC checks. *)
Blank == [role |-> "kernel", state |-> 1, version |-> <<>>, name |-> <<>>, digest |-> 0, content |-> 0, tokens |-> <<>>]
Asset(role, s, version, name, digest, content) ==
    [Blank EXCEPT !.role = role, !.state = s, !.version = version, !.name = name, !.digest = digest, !.content = content]
Snippet(role, s, version, name, token) ==
    [Blank EXCEPT !.role = role, !.state = s, !.version = version, !.name = name, !.tokens = <<token>>]
Word(key) == [key |-> key, value |-> 0, quoted |-> FALSE]

Loader == Asset("systemd-boot", 1, <<>>, <<>>, 1, 1)
PayloadPool ==
    <<Loader,
      Asset("kernel", 1, <<70>>, <<>>, 2, 2), Asset("kernel", 1, <<40>>, <<>>, 2, 2),
      Asset("kernel", 2, <<70>>, <<>>, 2, 2), Asset("kernel", 2, <<con>>, <<>>, 3, 3),
      Asset("initrd", 1, <<70>>, <<42, Dot, initrd>>, 4, 4), Asset("initrd", 1, <<70>>, <<43, Dot, initrd>>, 5, 5),
      Asset("initrd", 1, <<70>>, <<72, Dot, initrd>>, 6, 6),
      Asset("initrd", 2, <<70>>, <<42, Dot, initrd>>, 4, 7), Asset("initrd", 2, <<70>>, <<73, Dot, initrd>>, 5, 5)>>
OptionPool ==
    <<Loader,
      Asset("kernel", 1, <<70>>, <<>>, 2, 2), Asset("kernel", 1, <<71>>, <<>>, 3, 3), Asset("kernel", 2, <<70>>, <<>>, 4, 4),
      Snippet("global-cmdline", 1, <<>>, <<74>>, Word("quiet")), Snippet("global-cmdline", 2, <<>>, <<74>>, Word("splash")),
      Snippet("kernel-cmdline", 1, <<70>>, <<75>>, Word("debug")), Snippet("global-cmdline", 2, <<>>, <<76>>, Word("root"))>>
Local ==
    <<[kind |-> "append", name |-> <<73>>, tokens |-> <<Word("ro"), Word("nosmt")>>],
      [kind |-> "mask", name |-> <<74>>, tokens |-> <<>>],
      [kind |-> "append", name |-> <<77>>, tokens |-> <<Word("--")>>]>>
TwoStates == <<1, 2>>
NoLocal == <<>>
TwoCases == {<<78>>, <<48>>}
OneSchema == {<<78>>}
PlanPool == [plan |-> PayloadPool, options |-> OptionPool]
PlanLocalPool == [plan |-> NoLocal, options |-> Local]
PlanSchemas == [plan |-> TwoCases, options |-> OneSchema]
PlanMaxKernels == [plan |-> 3, options |-> 2]
PlanMaxTokens == [plan |-> 4, options |-> 5]
PlanMaxTotalTokens == [plan |-> 8, options |-> 12]
PlanMaxInitrds == [plan |-> 3, options |-> 2]

K(version, name) == <<"lib", "kernel", version, name>>
LoaderPath(lib) == <<lib, "systemd", "boot", "efi", "systemd-bootx64.efi">>
PlanningFile(path, digest) == [path |-> path, kind |-> "regular", digest |-> digest, target |-> None, root |-> TRUE]
Dir(path) == [PlanningFile(path, None) EXCEPT !.kind = "directory"]
Link(path, target) == [PlanningFile(path, None) EXCEPT !.kind = "symlink", !.target = target]
Rows(p, records) == {<<p, r>> : r \in records}

Base == Rows("base", {PlanningFile(LoaderPath("lib"), 1), PlanningFile(K("a", "vmlinuz"), 2), Dir(<<"lib", "kernel">>)})
NoKernel == Rows("base", {PlanningFile(LoaderPath("lib"), 1)})
NoLoader == Rows("base", {PlanningFile(K("a", "vmlinuz"), 2)})
Linked == Rows("more", {Link(K("b", "vmlinuz"), <<"lib", "x">>), Link(<<"lib", "x">>, <<"lib", "y">>), PlanningFile(<<"lib", "y">>, 3)})
Longer == Rows("more", {Link(K("b", "vmlinuz"), <<"lib", "x">>), Link(<<"lib", "x">>, <<"lib", "y">>),
                        Link(<<"lib", "y">>, <<"lib", "z">>), PlanningFile(<<"lib", "z">>, 3)})
Cycle == Rows("more", {Link(K("b", "vmlinuz"), <<"lib", "x">>), Link(<<"lib", "x">>, K("b", "vmlinuz"))})
Dangling == Rows("more", {Link(K("b", "vmlinuz"), <<"lib", "x">>)})
Escape == Rows("more", {Link(K("b", "vmlinuz"), <<>>)})
Extras == Rows("more", {PlanningFile(K("a", "s.initrd"), 4), PlanningFile(OsInfo, 5), PlanningFile(K("cmdline.d", "g.cmdline"), 0),
                        PlanningFile(K("a", "k.cmdline"), 6), PlanningFile(K("c", "k.cmdline"), 6), PlanningFile(<<"lib", "kernel">>, 3)})
Extra == {r \in Extras : r[2].path # <<"lib", "kernel">>}
InputsConflict == Rows("more", {PlanningFile(K("a", "vmlinuz"), 3)})
Same == Rows("more", {PlanningFile(K("a", "vmlinuz"), 2)})
Loaders == Rows("more", {PlanningFile(LoaderPath("lib64"), 1)})
Hollow == Rows("more", {PlanningFile(K("b", "vmlinuz"), 0)})
Foreign == Rows("more", {[PlanningFile(K("b", "vmlinuz"), 3) EXCEPT !.root = FALSE]})
Behind == Rows("more", {Link(<<"lib", "systemd">>, <<"lib", "y">>)})
Onto == Rows("more", {Link(K("b", "vmlinuz"), <<"lib", "kernel">>)})

PlanCatalogs ==
    {b \cup m : b \in {Base, NoKernel, NoLoader},
                m \in {{}, Linked, Longer, Cycle, Dangling, Escape, Extras, Extra, InputsConflict, Same, Loaders, Hollow, Foreign, Behind, Onto}}
PlanDatabases ==
    {(5 :> p) @@ rest : p \in {{"base"}, {"more"}, {"base", "more"}},
                        rest \in {(9 :> {"more"}), (3 :> {"base", "more"}) @@ (7 :> {"base"}),
                                  (3 :> {"base", "more"}) @@ (4 :> {"more"}) @@ (9 :> {})}}

RaceCatalogs == {Base, NoKernel \cup Rows("more", {PlanningFile(K("b", "vmlinuz"), 4)}),
                 Base \cup Rows("more", {PlanningFile(K("a", "s.initrd"), 4)})}
RaceDatabases == {(5 :> {"base"}), (5 :> {"base"}) @@ (6 :> {"base", "more"}), (6 :> {"base", "more"})}

Lengths == [d \in {0, 1, 2, 3, 4, 5, 6, 7} |-> CASE d = 0 -> 0 [] d = 7 -> 2 [] OTHER -> d]
InputsLimits == [r \in {"systemd-boot", "os-info", "global-cmdline", "kernel", "initrd", "kernel-cmdline"} |-> 5]
InputsDatabases == [inputs |-> PlanDatabases, race |-> RaceDatabases, sandwich |-> RaceDatabases]
InputsCatalogs == [inputs |-> PlanCatalogs, race |-> RaceCatalogs, sandwich |-> RaceCatalogs]
InputsMaxKernels == [inputs |-> 4, race |-> 3, sandwich |-> 3]
InputsMaxAssets == [inputs |-> 8, race |-> 9, sandwich |-> 9]
InputsMaxDigests == [inputs |-> 5, race |-> 6, sandwich |-> 6]
InputsMaxDescriptors == [inputs |-> 16, race |-> 24, sandwich |-> 24]
InputsMaxTotalBytes == [inputs |-> 13, race |-> 20, sandwich |-> 20]
InputsMaxReferenced == [inputs |-> 20, race |-> 30, sandwich |-> 30]
InputsMaxControl == [inputs |-> 10, race |-> 20, sandwich |-> 20]
InputsMaxOutside == [inputs |-> 0, race |-> 3, sandwich |-> 5]

TokenOf == [t \in {"h", "a", "b", "d"} |-> IF t = "d" THEN "h" ELSE t]
PlanningStates == [t \in {"h", "a", "b", "d"} |-> CASE t = "h" -> 1 [] t = "a" -> 2 [] OTHER -> 3]
PlanningStart == {(Usr :> "h") @@ (Away :> None) @@ (2 :> "a") @@ (3 :> y) : y \in {"b", "d"}}
                   \cup {(Usr :> "a") @@ (Away :> "h") @@ (2 :> None) @@ (3 :> "b")}
Three == <<1, 2, 3>>
Needs == <<[state |-> 1, source |-> "os-release"], [state |-> 2, source |-> "os-release"], [state |-> 3, source |-> "os-info"]>>
InfoDocs == {Malformed, <<"valid", "info">>}
RootsMaxFlaws == [roots |-> 1, rootmoves |-> 0]
RootsRewritable == [roots |-> {"h", "a", "b"}, rootmoves |-> {}]
RootsReshapable == [roots |-> {"a", "b"}, rootmoves |-> {"b"}]
RootsMaxOutside == [roots |-> 1, rootmoves |-> 3]
=============================================================================
