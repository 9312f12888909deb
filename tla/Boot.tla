-------------------------------- MODULE Boot --------------------------------
(***************************************************************************)
(* Boot: the memory map becomes the frames of the allocator, the           *)
(* components are initialised in the order of their dependencies, and the  *)
(* initramfs is unpacked.  They are three systems: each has its variables  *)
(* and its specification.                                                  *)
(***************************************************************************)
EXTENDS Integers, Sequences, FiniteSets, SequencesExt

(***************************************************************************)
(* From the boot loader's memory map to the frame allocator                 *)
(* (`arch/x86/boot/*/mod.rs`, `boot/memory_region.rs`,                      *)
(* `vm/frame_allocator.rs`).  The map may overlap what the loader put into  *)
(* memory: the kernel, its modules and the framebuffer.  Addresses are      *)
(* small numbers.                                                           *)
(***************************************************************************)

CONSTANTS
    MEMORY,         \* addresses are below this
    PAGE_SIZE,
    Maps,           \* the memory maps: sequences of regions
    Placed,         \* the regions <<base, len>> where something was put
    Protocols       \* of "multiboot", "multiboot2", "linux"

VARIABLES
    protocol, map, kernel, module, fb,  \* rigid: what the boot loader did
    regions,                            \* the regions collected
    usable, unusable,                   \* their partition
    k,                                  \* the unusable regions applied so far
    frames,                             \* page -> how often it was given to the allocator
    framebuffers, stage

bmvars == <<protocol, map, kernel, module, fb, regions, usable, unusable, k, frames, framebuffers, stage>>

Pages == 0..((MEMORY \div PAGE_SIZE) - 1)
region(base, len, typ) == [base |-> base, len |-> len, typ |-> typ]
Bytes(r) == r.base..(r.base + r.len - 1)

BMInit ==
    /\ protocol \in Protocols /\ map \in Maps
    /\ kernel \in Placed /\ module \in Placed \cup {<<0, 0>>} /\ fb \in Placed
    /\ regions = <<>> /\ usable = <<>> /\ unusable = <<>> /\ k = 0
    /\ frames = [p \in Pages |-> 0] /\ framebuffers = {} /\ stage = "collect"

rigid == <<protocol, map, kernel, module, fb>>

Kernel == <<region(kernel[1], kernel[2], "Kernel")>>
Module == <<region(module[1], module[2], "Module")>>
Framebuffer == <<region(fb[1], fb[2], "Framebuffer")>>

\* `init_memory_regions` of each protocol.  Only multiboot2's framebuffer is
\* optional (there is none here when it has no length); Linux has none.
multiboot == map \o Framebuffer \o Kernel \o (IF module[2] # 0 THEN Module ELSE <<>>)
multiboot2 == map \o (IF fb[2] # 0 THEN Framebuffer ELSE <<>>) \o Kernel
                  \o (IF module[2] # 0 THEN Module ELSE <<>>)
linux_boot == map \o Kernel \o Module

Collect ==
    /\ stage = "collect" /\ stage' = "partition"
    /\ regions' = CASE protocol = "multiboot" -> multiboot
                    [] protocol = "multiboot2" -> multiboot2
                    [] protocol = "linux" -> linux_boot
    /\ UNCHANGED <<rigid, usable, unusable, k, frames, framebuffers>>

-----------------------------------------------------------------------------
IsUsable(r) == r.typ \in {"Usable", "Reclaimable"}

Partition ==
    /\ stage = "partition" /\ stage' = "truncate"
    /\ usable' = SelectSeq(regions, IsUsable)
    /\ unusable' = SelectSeq(regions, LAMBDA r : ~IsUsable(r))
    /\ UNCHANGED <<rigid, regions, k, frames, framebuffers>>

\* Mutant: the end of a region that reaches over both sides of t is lost.
TruncateLosesEnd(s, t) ==
    LET se == s.base + s.len
        te == t.base + t.len
        before == IF s.base < t.base THEN <<region(s.base, (IF se > t.base THEN t.base ELSE se) - s.base, s.typ)>> ELSE <<>>
    IN  IF before # <<>> THEN before
        ELSE IF se > te THEN <<region((IF s.base < te THEN te ELSE s.base), se - (IF s.base < te THEN te ELSE s.base), s.typ)>>
        ELSE <<>>

\* `MemoryRegion::truncate`: what is left of s before and after t.
truncate(s, t) ==
    LET se == s.base + s.len
        te == t.base + t.len
        before == region(s.base, t.base - s.base, s.typ)
        after == region(te, se - te, s.typ)
    IN  IF s.base < t.base THEN
            IF se <= t.base THEN <<s>>
            ELSE IF se > te THEN <<before, after>> ELSE <<before>>
        ELSE IF s.base >= te THEN <<s>>
        ELSE IF se > te THEN <<after>> ELSE <<>>

\* One unusable region, taken from each usable one.
Truncate ==
    /\ stage = "truncate" /\ k < Len(unusable)
    /\ usable' = FlattenSeq([i \in DOMAIN usable |-> truncate(usable[i], unusable[k + 1])])
    /\ k' = k + 1
    /\ UNCHANGED <<rigid, regions, unusable, frames, framebuffers, stage>>

non_overlapping_regions_from ==
    /\ stage = "truncate" /\ k = Len(unusable)
    /\ regions' = unusable \o usable
    /\ stage' = "frames"
    /\ UNCHANGED <<rigid, usable, unusable, k, frames, framebuffers>>

-----------------------------------------------------------------------------
\* The whole pages of a region.
FramesOf(r) == ((r.base + PAGE_SIZE - 1) \div PAGE_SIZE)..(((r.base + r.len) \div PAGE_SIZE) - 1)

\* `frame_allocator::init` and the rest of `vm::init`.
AddFrames ==
    /\ stage = "frames" /\ stage' = "done"
    /\ frames' = [p \in Pages |->
                    Cardinality({i \in DOMAIN regions : regions[i].typ = "Usable" /\ p \in FramesOf(regions[i])})]
    /\ framebuffers' = {regions[i] : i \in {i \in DOMAIN regions : regions[i].typ = "Framebuffer"}}
    /\ UNCHANGED <<rigid, regions, usable, unusable, k>>

BMNext == Collect \/ Partition \/ Truncate \/ non_overlapping_regions_from \/ AddFrames

BMSpec == BMInit /\ [][BMNext]_bmvars

-----------------------------------------------------------------------------
PageBytes(p) == (p * PAGE_SIZE)..((p + 1) * PAGE_SIZE - 1)

\* What the loader's map says is memory, and what something else occupies.
MapUsable == {i \in DOMAIN map : map[i].typ = "Usable"}
Occupied == UNION {Bytes(unusable[i]) : i \in DOMAIN unusable}

\* The allocator gets each page at most once, no page that the kernel, a module,
\* the framebuffer or a reserved region touches, and every page that lies
\* in a usable region of the map and that none of them touches.
FramesSound ==
    stage = "done" =>
        \A p \in Pages :
            /\ frames[p] <= 1
            /\ frames[p] = 1 =>
                /\ PageBytes(p) \cap Occupied = {}
                /\ \E i \in MapUsable : PageBytes(p) \subseteq Bytes(map[i])
            /\ (\E i \in MapUsable : PageBytes(p) \subseteq Bytes(map[i]))
                 /\ PageBytes(p) \cap Occupied = {} => frames[p] = 1

-----------------------------------------------------------------------------
(***************************************************************************)
(* The order in which components are initialised: the priorities that       *)
(* `component-macro/src/priority.rs` computes when the kernel is built, and *)
(* `component/src/lib.rs`, which calls the registered functions at boot.    *)
(* Hash maps and the registry are walked in any order.                      *)
(***************************************************************************)

CONSTANTS
    Packages,
    Graphs      \* [deps, comps, listed, registered]: the dependencies of each
                \* package, those that depend on the component library, those in
                \* Components.toml, those that have an init function

VARIABLES
    g,          \* rigid: the workspace
    prioritys,  \* component -> priority
    todo,       \* the registry entries that were not matched
    infos,      \* the components matched, in order
    called,     \* the functions called, in order
    failed,     \* the functions that returned an error
    step

covars == <<g, prioritys, todo, infos, called, failed, step>>

COInit ==
    /\ g \in Graphs
    /\ prioritys = [c \in {} |-> 0] /\ todo = {} /\ infos = <<>> /\ called = <<>> /\ failed = {}
    /\ step = "names"

\* `get_components_name`: every component must be listed.
get_components_name ==
    /\ step = "names"
    /\ step' = IF g.comps \subseteq g.listed THEN "priority" ELSE "panicked"
    /\ UNCHANGED <<g, prioritys, todo, infos, called, failed>>

\* The dependencies of a component that are components themselves.
Depends(c) == g.deps[c] \cap g.comps

Highest(S) == IF S = {} THEN 0 ELSE CHOOSE x \in S : \A y \in S : y <= x

\* Mutant: a component gets the priority of its dependencies.
RECURSIVE PriorityOfDepends(_, _)
PriorityOfDepends(m, c) ==
    IF c \in DOMAIN m THEN m[c] ELSE Highest({PriorityOfDepends(m, d) : d \in Depends(c)})

\* `calculate_priority`: one more than that of any dependency.
RECURSIVE calculate_priority(_, _)
calculate_priority(m, c) ==
    IF c \in DOMAIN m THEN m[c]
    ELSE Highest({calculate_priority(m, d) + 1 : d \in Depends(c)})

\* The components that a call for c gives a priority to.
RECURSIVE Visited(_)
Visited(c) == {c} \cup UNION {Visited(d) : d \in Depends(c)}

\* `component_generate`
component_generate(c) ==
    /\ step = "priority" /\ c \in g.comps \ DOMAIN prioritys
    /\ prioritys' = [d \in DOMAIN prioritys \cup Visited(c) |-> calculate_priority(prioritys, d)]
    /\ UNCHANGED <<g, todo, infos, called, failed, step>>

\* The kernel boots with the priorities: `init_all` and `parse_input`.
init_all ==
    /\ step = "priority" /\ DOMAIN prioritys = g.comps
    /\ step' = "match" /\ todo' = g.registered
    /\ UNCHANGED <<g, prioritys, infos, called, failed>>

\* `match_and_call`: a registry entry of an unknown component is an error.
Match(c) ==
    /\ step = "match" /\ c \in todo
    /\ IF c \in DOMAIN prioritys
       THEN infos' = Append(infos, c) /\ todo' = todo \ {c} /\ UNCHANGED step
       ELSE step' = "error" /\ UNCHANGED <<infos, todo>>
    /\ UNCHANGED <<g, prioritys, called, failed>>

\* A stable sort by priority.
InfoLess(i, j) ==
    \/ prioritys[infos[i]] < prioritys[infos[j]]
    \/ prioritys[infos[i]] = prioritys[infos[j]] /\ i < j
Rank(i) == Cardinality({j \in DOMAIN infos : InfoLess(j, i)}) + 1
Sorted == [n \in DOMAIN infos |-> infos[CHOOSE i \in DOMAIN infos : Rank(i) = n]]

Sort ==
    /\ step = "match" /\ todo = {}
    /\ infos' = Sorted /\ step' = "call"
    /\ UNCHANGED <<g, prioritys, todo, called, failed>>

\* An error of an init function is logged, and the next one is called.
Call ==
    /\ step = "call" /\ infos # <<>>
    /\ called' = Append(called, Head(infos))
    /\ failed' \in {failed, failed \cup {Head(infos)}}
    /\ infos' = Tail(infos)
    /\ step' = IF Tail(infos) = <<>> THEN "done" ELSE step
    /\ UNCHANGED <<g, prioritys, todo>>

CONext ==
    \/ get_components_name
    \/ \E c \in Packages : component_generate(c) \/ Match(c)
    \/ init_all \/ Sort \/ Call

COSpec == COInit /\ [][CONext]_covars

-----------------------------------------------------------------------------
\* A component's init function runs after those of the components it depends on,
\* through other components or directly, and each runs once, in whatever order
\* packages and registry entries were walked.
DependenciesFirst ==
    /\ \A j \in DOMAIN called : \A c \in (Visited(called[j]) \ {called[j]}) \cap g.registered :
            \E i \in 1..(j - 1) : called[i] = c
    /\ \A i, j \in DOMAIN called : i # j => called[i] # called[j]
    /\ step = "done" => {called[i] : i \in DOMAIN called} = g.registered

-----------------------------------------------------------------------------
(***************************************************************************)
(* Unpacking the initramfs into the root file system: the CPIO decoder      *)
(* (`cpio-decoder/src/lib.rs`) and `fs/rootfs.rs`.  The archive is a         *)
(* sequence of bytes.  A byte is named by the entry it belongs to, the      *)
(* part of the entry and its index there.  The archive may be cut short.    *)
(***************************************************************************)

CONSTANTS
    Archives,       \* sequences of entries [path, type, size, namelen]
    HEADER_LEN,     \* 110 in the code; as far from a multiple of 4 as that
    BUFFER          \* how much read_all moves at a time

VARIABLES
    archive, bytes, \* rigid: the entries, and what is left of their bytes
    pos,            \* what the reader has consumed
    entry,          \* the entry in work: its number and how much is read
    tree,           \* path -> [type, data]
    at

fsvars == <<archive, bytes, pos, entry, tree, at>>

align_up(n, a) == ((n + a - 1) \div a) * a
align_up_pad(n, a) == align_up(n, a) - n

Part(e, what, n) == [i \in 1..n |-> <<e, what, i>>]

\* What `cpio -H newc` writes for entry e.
Encode(a, e) ==
    LET used == HEADER_LEN + a[e].namelen + 1 IN
    Part(e, "header", HEADER_LEN) \o Part(e, "name", a[e].namelen + 1) \o Part(e, "pad", align_up_pad(used, 4))
        \o Part(e, "data", a[e].size) \o Part(e, "pad", align_up_pad(a[e].size, 4))

Whole(a) == FlattenSeq([e \in DOMAIN a |-> Encode(a, e)])

NoEntry == [e |-> 0, send |-> 0, data |-> <<>>]
Root == <<>>

IRInit ==
    /\ archive \in Archives
    /\ \E n \in 0..Len(Whole(archive)) : bytes = SubSeq(Whole(archive), 1, n)
    /\ pos = 0 /\ entry = NoEntry /\ at = "next"
    /\ tree = [p \in {Root} |-> [type |-> "dir", data |-> <<>>]]

-----------------------------------------------------------------------------
(* `read_exact`                                                             *)
Enough(n) == pos + n <= Len(bytes)
Taken(n) == SubSeq(bytes, pos + 1, pos + n)

\* `Header::new`: the next bytes are those of a header.
IsHeader == Enough(HEADER_LEN) /\ \E e \in DOMAIN archive : Taken(HEADER_LEN) = Part(e, "header", HEADER_LEN)
Header == (CHOOSE e \in DOMAIN archive : Taken(1) = Part(e, "header", 1))

HeadPad(namelen) == align_up_pad(HEADER_LEN + namelen + 1, 4)

\* `CpioDecoder::next` with `CpioEntry::new`.  An error ends the unpacking.
CpioEntry ==
    /\ at = "next"
    /\ IF ~IsHeader THEN at' = "failed" /\ UNCHANGED <<pos, entry>>
       ELSE LET e == Header
                n == HEADER_LEN + archive[e].namelen + 1 + HeadPad(archive[e].namelen)
                name == SubSeq(Taken(n), HEADER_LEN + 1, HEADER_LEN + archive[e].namelen + 1)
            IN  IF ~Enough(n) \/ name # Part(e, "name", archive[e].namelen + 1)
                THEN at' = "failed" /\ UNCHANGED <<pos, entry>>
                ELSE /\ pos' = pos + n
                     /\ entry' = [NoEntry EXCEPT !.e = e]
                     /\ at' = IF archive[e].type = "trailer" THEN "mount" ELSE "create"
    /\ UNCHANGED <<archive, bytes, tree>>

E == archive[entry.e]

\* The directory of a path must be there, and the name must not.
Creatable(p) == p # Root /\ p \notin DOMAIN tree
                /\ Front(p) \in DOMAIN tree /\ tree[Front(p)].type = "dir"

Grown(p, x) == [q \in DOMAIN tree \cup {p} |-> IF q = p THEN x ELSE tree[q]]

\* The body of the loop in `rootfs::init`.  "." is skipped; directories have no
\* data.
Create ==
    /\ at = "create"
    /\ IF E.path = <<".">> THEN at' = "next" /\ UNCHANGED tree
       ELSE IF E.type = "device" THEN at' = "panicked" /\ UNCHANGED tree
       ELSE IF ~Creatable(E.path) THEN at' = "failed" /\ UNCHANGED tree
       ELSE /\ tree' = Grown(E.path, [type |-> E.type, data |-> <<>>])
            /\ at' = IF E.type = "dir" THEN "next" ELSE "read"
    /\ UNCHANGED <<archive, bytes, pos, entry>>

DataPad(size) == align_up_pad(size, 4)

\* `read_all`, one buffer at a time, and then the padding.
read_all ==
    /\ at = "read"
    /\ IF entry.send < E.size
       THEN LET n == IF E.size - entry.send < BUFFER THEN E.size - entry.send ELSE BUFFER IN
            IF ~Enough(n) THEN at' = "failed" /\ UNCHANGED <<pos, entry, tree>>
            ELSE /\ entry' = [entry EXCEPT !.send = @ + n, !.data = @ \o Taken(n)]
                 /\ tree' = IF E.type = "file" THEN [tree EXCEPT ![E.path].data = @ \o Taken(n)] ELSE tree
                 /\ pos' = pos + n
                 /\ UNCHANGED at
       ELSE IF ~Enough(DataPad(E.size)) THEN at' = "failed" /\ UNCHANGED <<pos, entry, tree>>
       ELSE /\ pos' = pos + DataPad(E.size)
            /\ tree' = IF E.type = "link" THEN [tree EXCEPT ![E.path].data = entry.data] ELSE tree
            /\ entry' = NoEntry
            /\ at' = "next"
    /\ UNCHANGED <<archive, bytes>>

\* /proc and /dev are mounted on directories of the archive.
Mount ==
    /\ at = "mount"
    /\ at' = IF \A d \in {"proc", "dev"} : <<d>> \in DOMAIN tree /\ tree[<<d>>].type = "dir"
             THEN "ready" ELSE "failed"
    /\ UNCHANGED <<archive, bytes, pos, entry, tree>>

IRNext == CpioEntry \/ Create \/ read_all \/ Mount

IRSpec == IRInit /\ [][IRNext]_fsvars

-----------------------------------------------------------------------------
Real == {e \in DOMAIN archive : archive[e].type # "trailer" /\ archive[e].path # <<".">>}

\* The root file system is ready only with everything that the archive holds, each
\* file and link with all of its bytes in order: an archive that is cut short
\* anywhere, at whatever alignment, is refused.
UnpackedWhole ==
    at = "ready" =>
        /\ DOMAIN tree = {Root} \cup {archive[e].path : e \in Real}
        /\ \A e \in Real : tree[archive[e].path] =
                [type |-> archive[e].type, data |-> Part(e, "data", archive[e].size)]

\* "a directory always appears before its child directories and files"
Proper ==
    /\ \A e \in Real : Len(archive[e].path) = 1
                       \/ \E d \in Real : d < e /\ archive[d].path = Front(archive[e].path) /\ archive[d].type = "dir"
    /\ \A e, d \in Real : e # d => archive[e].path # archive[d].path
    /\ \A n \in {"proc", "dev"} : \E e \in Real : archive[e].path = <<n>> /\ archive[e].type = "dir"

\* A whole archive that lists a directory before what it holds is never refused.
ProperAccepted == bytes = Whole(archive) /\ Proper => at # "failed"

InitramfsSound == UnpackedWhole /\ ProperAccepted
=============================================================================
