--------------------------------- MODULE Vm ---------------------------------
(***************************************************************************)
(* The memory of user processes: VMARs and mappings (vm/vmar), VMOs        *)
(* (vm/vmo), page tables (aster-frame vm/space.rs, vm/memory_set.rs), the  *)
(* memory system calls, page faults, brk, fork, execve and the reaping of  *)
(* a zombie.                                                               *)
(*                                                                         *)
(* Addresses are page numbers.  A write leaves the name of the writer in   *)
(* the frame; a frame of the file holds FileData or FileNew.  The kernel   *)
(* does not preempt itself, so each system call and each fault is a step.  *)
(*                                                                         *)
(* astray is not a part of the program.  It collects, for each process,    *)
(* the pages whose page table entry                                        *)
(*   left    stayed behind when its mapping was taken away,                *)
(*   forced  was made writable although its frame is not the VMO's own,    *)
(*   apart   shows a frame that the VMO has replaced by a copy, or one     *)
(*           that it never kept and that was made writable.                *)
(* The code does all three; each property names those it does not hold of. *)
(***************************************************************************)
EXTENDS Integers, Sequences, TLC, FiniteSetsExt

(***************************************************************************)
(* Virtual memory objects (vm/vmo/mod.rs, vm/vmo/options.rs) over frames   *)
(* (aster-frame vm/frame.rs, vm/options.rs) and page tables.               *)
(*                                                                         *)
(* The operators take and return a memory m:                               *)
(*   m.mem   what each frame holds: who wrote it last, or Zero or FileData *)
(*   m.vmos  the VMOs; NoVmo where there is none                           *)
(*   m.pt    the page table of each process, from page numbers to entries  *)
(* A VMO has a size in pages, committed pages, and when it is a child the  *)
(* frames it inherited from its parent.                                    *)
(***************************************************************************)

CONSTANTS Frames, Vmos, Zero, FileData, NoVmo, NoPte, NoFrame

(* A frame lives as long as a VmFrame refers to it: a VMO or a page table. *)
Live(m) ==
  UNION {{m.vmos[v].committed[i] : i \in DOMAIN m.vmos[v].committed}
         \cup {m.vmos[v].inherited[i] : i \in DOMAIN m.vmos[v].inherited}
           : v \in {w \in Vmos : m.vmos[w] # NoVmo}}
  \cup {m.pt[p][a].frame : <<p, a>> \in
          {x \in UNION {{p} \X DOMAIN m.pt[p] : p \in DOMAIN m.pt} :
             m.pt[x[1]][x[2]] # NoPte}}

(* VmAllocOptions::alloc_single: a zeroed frame.                           *)
alloc_single(m, content) ==
  LET f == Min(Frames \ Live(m))
  IN  [m |-> [m EXCEPT !.mem[f] = content], frame |-> f]

insert_frame(m, v, idx, f) ==
  [m EXCEPT !.vmos[v].committed = idx :> f @@ @]

(* A pager brings the page of the file; otherwise the page is zero.        *)
commit_page(m, v, idx) ==
  IF idx \in DOMAIN m.vmos[v].committed THEN m
  ELSE LET r == alloc_single(m, IF m.vmos[v].pager THEN FileData ELSE Zero)
       IN  insert_frame(r.m, v, idx, r.frame)

decommit(m, v, lo, hi) ==
  [m EXCEPT !.vmos[v].committed = [i \in DOMAIN @ \ (lo .. hi - 1) |-> @[i]]]

should_share_frame_with_parent(vmo, write) == ~vmo.is_cow \/ ~write

get_inherited_frame_or_alloc(m, v, idx, write) ==
  LET vmo == m.vmos[v]
      inherited == vmo.inherited[idx + 1]
  IN  IF idx >= Len(vmo.inherited)
      THEN IF vmo.is_cow THEN alloc_single(m, Zero) ELSE [m |-> m, frame |-> NoFrame]
      ELSE IF should_share_frame_with_parent(vmo, write)
      THEN [m |-> m, frame |-> inherited]
      ELSE alloc_single(m, m.mem[inherited])

(* The frame of a page, for a read or for a write.  A COW child that       *)
(* writes keeps the copy it was given.                                     *)
keep_frame(r, v, idx, shared) ==
  IF r.frame = NoFrame \/ shared THEN r
  ELSE [m |-> insert_frame(r.m, v, idx, r.frame), frame |-> r.frame]

frame_of(m, v, idx) == [m |-> m, frame |-> m.vmos[v].committed[idx]]

get_committed_frame(m, v, idx, write) ==
  IF idx \in DOMAIN m.vmos[v].committed THEN frame_of(m, v, idx)
  ELSE IF ~m.vmos[v].is_child THEN frame_of(commit_page(m, v, idx), v, idx)
  ELSE keep_frame(get_inherited_frame_or_alloc(m, v, idx, write), v, idx,
                  should_share_frame_with_parent(m.vmos[v], write))

(* Vmo_::read_bytes and write_bytes, of one page; value is what is written.*)
read_bytes(m, v, idx) == get_committed_frame(m, v, idx, FALSE).m
write_frame(r, value) ==
  IF r.frame = NoFrame THEN r.m ELSE [r.m EXCEPT !.mem[r.frame] = value]
write_bytes(m, v, idx, value) ==
  write_frame(get_committed_frame(m, v, idx, TRUE), value)

(* Shrinking gives pages back.                                             *)
resize(m, v, size) ==
  [decommit(m, v, size, m.vmos[v].size) EXCEPT !.vmos[v].size = size]

-----------------------------------------------------------------------------
fresh_vmo(m) == Min({v \in Vmos : m.vmos[v] = NoVmo})

alloc_vmo_(m, size, resizable, pager) ==
  LET v == fresh_vmo(m)
  IN  [m |-> [m EXCEPT !.vmos[v] =
                [size |-> size, committed |-> << >>, inherited |-> << >>,
                 is_child |-> FALSE, is_cow |-> FALSE,
                 resizable |-> resizable, pager |-> pager]],
       vmo |-> v]

inherit(child, r) == [r.m EXCEPT !.vmos[child].inherited = Append(@, r.frame)]

(* The frames are taken from the parent one after the other; a COW child   *)
(* takes the frames the parent would read.                                 *)
get_inherited_frames_from_parent(m, child, parent, num, offset, is_cow) ==
  LET take[n \in 0 .. num] ==
        IF n = 0 THEN m
        ELSE inherit(child, get_committed_frame(take[n - 1], parent, n - 1 + offset, ~is_cow))
  IN  take[num]

(* The pages lo .. hi - 1 of the parent.  No child is resizable: none of   *)
(* its creators asks for it.                                               *)
alloc_child_vmo_(m, parent, lo, hi, is_cow) ==
  LET c == fresh_vmo(m)
      end == Min({hi, m.vmos[parent].size})
      child == [size |-> hi - lo, committed |-> << >>, inherited |-> << >>,
                is_child |-> TRUE, is_cow |-> is_cow,
                resizable |-> FALSE, pager |-> FALSE]
  IN  [m |-> get_inherited_frames_from_parent([m EXCEPT !.vmos[c] = child], c, parent,
                                              Max({end - lo, 0}), lo, is_cow),
       vmo |-> c]

(* The checks of alloc_child_vmo_.                                         *)
child_range_ok(m, parent, lo, hi, is_cow) ==
  IF is_cow THEN lo <= m.vmos[parent].size ELSE hi <= m.vmos[parent].size

(* A VMO nobody refers to is dropped, and with it the frames only it held. *)
DropVmos(m, used) ==
  LET n == [m EXCEPT !.vmos = [v \in Vmos |-> IF v \in used THEN @[v] ELSE NoVmo]]
      live == Live(n)
  IN  [n EXCEPT !.mem = [f \in Frames |-> IF f \in live THEN @[f] ELSE Zero]]

-----------------------------------------------------------------------------
(***************************************************************************)
(* Address ranges of a VMAR (vm/vmar/mod.rs, vm/vmar/vm_mapping.rs).       *)
(* Addresses are page numbers; a range [lo, hi) is a record.  The mappings *)
(* of a VMAR are a function whose keys are the start addresses, as in the  *)
(* BTreeMap of the code: inserting under a key that is taken replaces what *)
(* was there.                                                              *)
(*                                                                         *)
(* A mapping is a range that also has                                      *)
(*   off    the page of the VMO mapped at lo,                              *)
(*   vmo    the VMO,                                                       *)
(*   perm   the permission of each page of the VMO it shows,               *)
(*   mapped the pages of the VMO that may be in the page table.            *)
(***************************************************************************)

Span(lo, hi) == [lo |-> lo, hi |-> hi]
Pages(r) == r.lo .. r.hi - 1

is_intersected(r, s) == Max({r.lo, s.lo}) < Min({r.hi, s.hi})
get_intersected_range(r, s) == Span(Max({r.lo, s.lo}), Min({r.hi, s.hi}))

(* What is left of the free region f when r is taken out of it.            *)
allocate_range(f, r) ==
  (IF f.lo < r.lo THEN {Span(f.lo, r.lo)} ELSE {})
    \cup (IF r.hi < f.hi THEN {Span(r.hi, f.hi)} ELSE {})

allocate_from(F, r) ==
  UNION {IF is_intersected(f, r) THEN allocate_range(f, get_intersected_range(f, r))
                                 ELSE {f} : f \in F}

(* Runs of adjacent regions become one region.                             *)
merge_continuous_regions(F) ==
  {Span(a.lo, b.hi) : <<a, b>> \in
     {<<x, y>> \in F \X F :
        /\ x.lo <= y.lo
        /\ \A g \in Pages(Span(x.lo, y.hi)) : \E f \in F : g \in Pages(f)
        /\ \A f \in F : f.hi # x.lo /\ f.lo # y.hi}}

(* First fit: the lowest region that holds size pages.                     *)
fitting(F, size) == {f \in F : f.hi - f.lo >= size}
find_free_region_for_child(F, size) ==
  CHOOSE f \in fitting(F, size) : \A g \in fitting(F, size) : f.lo <= g.lo

-----------------------------------------------------------------------------
(* Trimming mappings.                                                      *)
page_map_addr(m, idx) == idx - m.off + m.lo
page_idx(m, a) == a - m.lo + m.off
covers(m, a) == m.lo <= a /\ a < m.hi

trim_left(m, a) ==
  LET off == page_idx(m, a)
  IN  [m EXCEPT !.lo = a, !.off = off,
                !.perm = [i \in {j \in DOMAIN m.perm : j >= off} |-> m.perm[i]],
                !.mapped = {i \in @ : i >= off}]

trim_right(m, a) ==
  LET end == page_idx(m, a)
  IN  [m EXCEPT !.hi = a,
                !.perm = [i \in {j \in DOMAIN m.perm : j < end} |-> m.perm[i]],
                !.mapped = {i \in @ : i < end}]

(* The cases of trim_mapping for a range r that intersects m.  A range     *)
(* that ends where m ends but starts inside it counts as inside: the clone *)
(* that is appended is then empty.                                         *)
whole(m, r)  == r.lo <= m.lo /\ r.hi >= m.hi
left(m, r)   == ~whole(m, r) /\ r.lo <= m.lo
inside(m, r) == r.lo > m.lo /\ r.hi <= m.hi

(* trim_mapping for all the mappings of M, where cut[k] is the range that  *)
(* is cut out of M[k].  Removals come before insertions.                   *)
trimmed(M, cut) == {k \in DOMAIN M : is_intersected(M[k], cut[k])}
to_remove(M, cut) == {k \in trimmed(M, cut) : whole(M[k], cut[k]) \/ left(M[k], cut[k])}
to_append(M, cut) == {k \in trimmed(M, cut) : left(M[k], cut[k]) \/ inside(M[k], cut[k])}
trim_mapping(M, cut) ==
  LET new == {cut[k].hi : k \in to_append(M, cut)}
      src(a) == CHOOSE k \in to_append(M, cut) : cut[k].hi = a
  IN  [a \in (DOMAIN M \ to_remove(M, cut)) \cup new |->
         IF a \in new THEN trim_left(M[src(a)], a)
         ELSE IF a \in trimmed(M, cut) THEN trim_right(M[a], cut[a].lo)
         ELSE M[a]]

(* Mutant: a mapping cut at its start keeps its entries.                   *)
unmapped_not_left(m, r) ==
  IF whole(m, r) THEN IF page_idx(m, r.lo) < 0 THEN {} ELSE Pages(r)
  ELSE IF left(m, r) THEN {} ELSE r.lo .. m.hi - 1

(* The addresses that trimming m by r removes from the page table.  The    *)
(* index of r.lo in the VMO is computed with unsigned numbers: when it     *)
(* would be negative it wraps around, and no page is visited.              *)
unmapped(m, r) ==
  LET head == {a \in m.lo .. r.hi - 1 : page_idx(m, a) \in m.mapped}
  IN  IF whole(m, r) THEN IF page_idx(m, r.lo) < 0 THEN {} ELSE Pages(r)
      ELSE IF left(m, r) THEN head
      ELSE (IF inside(m, r) THEN head ELSE {}) \cup r.lo .. m.hi - 1

(* Does a subtraction on the way go below zero?  VmMappingInner::unmap     *)
(* subtracts the start of the mapping, and page_map_addr subtracts an      *)
(* offset that trim_left has already raised above the pages it removes.    *)
underflows(m, r) ==
  IF whole(m, r) THEN r.lo < m.lo
  ELSE /\ left(m, r) \/ inside(m, r)
       /\ \E a \in m.lo .. r.hi - 1 : page_idx(m, a) \in m.mapped

(* Pages whose entries trimming leaves in the page table although no       *)
(* mapping knows of them: those of a mapping whose key an appended one     *)
(* takes, and those that a wrapped index skips.                            *)
displaced(M, cut) ==
  {k \in DOMAIN M \ trimmed(M, cut) : k \in {cut[j].hi : j \in to_append(M, cut)}}
skipped(M, cut) ==
  {k \in trimmed(M, cut) : whole(M[k], cut[k]) /\ page_idx(M[k], cut[k].lo) < 0}
forgotten(M, cut) ==
  UNION {Pages(M[k]) : k \in displaced(M, cut) \cup skipped(M, cut)}

-----------------------------------------------------------------------------
CONSTANTS Procs, FileNew, NoSpace,
          LOWEST_ADDR, HIGHEST_ADDR,    \* the root VMAR
          HEAP_BASE, HEAP_SIZE_LIMIT,   \* USER_HEAP_BASE, USER_HEAP_SIZE_LIMIT
          STACK_BOTTOM, STACK_SIZE,     \* the initial stack
          OverflowChecks,               \* builds: do they check for overflow?
          Touched,                      \* the pages that programs access
          Ranges,                       \* the ranges given to system calls
          Sizes, MapPerms,              \* the sizes and permissions given to mmap
          Mixes,                        \* sets of system calls that are used together
          MaxSteps

VARIABLES memory,    \* frames, VMOs and page tables, see above
          space,     \* the root VMAR of a process: its mappings and free regions
          heap_end,  \* UserHeap::current_heap_end
          astray,    \* pages whose entry went astray, see above
          panicked,  \* "no", or why the kernel has panicked
          mix,       \* the calls used in this behaviour; never changes
          steps

vars == <<memory, space, heap_end, astray, panicked, mix, steps>>

Page == LOWEST_ADDR .. HIGHEST_ADDR - 1
Perms == {{}, {"R"}, {"R", "W"}}
RW == {"R", "W"}
File == 0                               \* the page cache of the only file

ASSUME LayoutAssumption ==
  /\ LOWEST_ADDR \in Int /\ HIGHEST_ADDR \in Int /\ LOWEST_ADDR < HIGHEST_ADDR
  /\ HEAP_BASE \in Int /\ HEAP_SIZE_LIMIT \in Int
  /\ STACK_BOTTOM \in Int /\ STACK_SIZE \in Int
  /\ Ranges \subseteq [lo : Int, hi : Int]

-----------------------------------------------------------------------------
(* VMARs.                                                                  *)
new_root == [maps |-> << >>, free |-> {Span(LOWEST_ADDR, HIGHEST_ADDR)}]

build_mapping(lo, size, vmo, perms) ==
  [lo |-> lo, hi |-> lo + size, off |-> 0, vmo |-> vmo,
   perm |-> [i \in 0 .. size - 1 |-> perms], mapped |-> {}]

(* allocate_free_region_for_vmo and add_mapping, without and with          *)
(* can_overwrite.                                                          *)
map_free(s, m) ==
  [maps |-> m.lo :> m @@ s.maps, free |-> allocate_from(s.free, m)]

all_cut(M, r) == [k \in DOMAIN M |-> r]
map_overwriting(s, m) ==
  [maps |-> m.lo :> m @@ trim_mapping(s.maps, all_cut(s.maps, m)),
   free |-> allocate_from(s.free, m)]

(* Each mapping loses its intersection with the range.                     *)
cut_by(M, r) == [k \in DOMAIN M |-> get_intersected_range(M[k], r)]
destroy(s, r) ==
  LET cut == cut_by(s.maps, r)
  IN  [maps |-> trim_mapping(s.maps, cut),
       free |-> merge_continuous_regions(
                  s.free \cup {cut[k] : k \in trimmed(s.maps, cut)})]

(* The mapping that handles an address: the first one that contains it.    *)
handlers(s, a) == {k \in DOMAIN s.maps : covers(s.maps[k], a)}
get_vm_mapping(s, a) == s.maps[Min(handlers(s, a))]

(* check_protected_range, and do_protect_inner for the mappings.           *)
check_protected_range(s, r) == \A f \in s.free : ~is_intersected(f, r)
protect(s, r, perms) ==
  [s EXCEPT !.maps = [k \in DOMAIN @ |->
     LET m == @[k]
         hit == {page_idx(m, a) : a \in Pages(m) \cap Pages(r)}
     IN  [m EXCEPT !.perm = [i \in DOMAIN m.perm \cup hit |->
                               IF i \in hit THEN perms ELSE m.perm[i]]]]]

UsedVmos(sp) ==
  {File} \cup UNION {{sp[p].maps[k].vmo : k \in DOMAIN sp[p].maps} :
                       p \in {q \in Procs : sp[q] # NoSpace}}

(* VmSpace::unmap and VmSpace::protect of the pages that are mapped.       *)
unmap(m, p, A) == [m EXCEPT !.pt[p] = [a \in Page |-> IF a \in A THEN NoPte ELSE @[a]]]
protect_pages(m, p, A, perms) ==
  [m EXCEPT !.pt[p] = [a \in Page |-> IF a \in A /\ @[a] # NoPte
                                      THEN [@[a] EXCEPT !.w = "W" \in perms] ELSE @[a]]]

-----------------------------------------------------------------------------
Running == panicked = "no" /\ steps < MaxSteps /\ steps' = steps + 1 /\ UNCHANGED mix
Alive(p) == space[p] # NoSpace
Call(name) == name \in mix /\ Running

(* The end of every operation: what nothing refers to is dropped.          *)
Ways == {"left", "forced", "apart"}
Nowhere == [way \in Ways |-> {}]
Finish(m, sp, A) ==
  /\ space' = sp
  /\ memory' = DropVmos(m, UsedVmos(sp))
  /\ astray' = [p \in Procs |-> [way \in Ways |-> {a \in A[p][way] : m.pt[p][a] # NoPte}]]
  /\ UNCHANGED panicked

Panic(why) ==
  /\ panicked' = why
  /\ UNCHANGED <<memory, space, heap_end, astray>>

(* Trimming in process p, which panics where overflow is checked.          *)
Trim(p, m, s, cut) ==
  LET M == space[p].maps
      under == \E k \in trimmed(M, cut) : underflows(M[k], cut[k])
  IN  \/ under /\ TRUE \in OverflowChecks /\ Panic("overflow")
      \/ /\ under => FALSE \in OverflowChecks
         /\ Finish(unmap(m, p, UNION {unmapped(M[k], cut[k]) : k \in trimmed(M, cut)}),
                   [space EXCEPT ![p] = s],
                   [astray EXCEPT ![p]["left"] = @ \cup forgotten(M, cut)])
         /\ UNCHANGED heap_end

-----------------------------------------------------------------------------
(* mmap: anonymous, or of the file, private or shared.  r is the VMO that  *)
(* was made for it.                                                        *)
mmap_vmo(kind, size) ==
  IF kind = "anonymous" THEN alloc_vmo_(memory, size, FALSE, FALSE)
  ELSE alloc_child_vmo_(memory, File, 0, size, kind = "private")

Mmap(p, kind, size, perms) ==
  LET r == mmap_vmo(kind, size)
      fit == fitting(space[p].free, size)
      lo == find_free_region_for_child(space[p].free, size).lo
  IN  /\ Call("mmap") /\ Alive(p)
      /\ kind # "anonymous" => child_range_ok(memory, File, 0, size, kind = "private")
      /\ fit # {}
      /\ Finish(r.m, [space EXCEPT ![p] = map_free(@, build_mapping(lo, size, r.vmo, perms))],
                astray)
      /\ UNCHANGED heap_end

MmapFixed(p, kind, range, perms) ==
  LET size == range.hi - range.lo
      r == mmap_vmo(kind, size)
      new == build_mapping(range.lo, size, r.vmo, perms)
  IN  /\ Call("fixed") /\ Alive(p)
      /\ kind # "anonymous" => child_range_ok(memory, File, 0, size, kind = "private")
      /\ Trim(p, r.m, map_overwriting(space[p], new), all_cut(space[p].maps, new))

Munmap(p, range) ==
  /\ Call("munmap") /\ Alive(p)
  /\ Trim(p, memory, destroy(space[p], range), cut_by(space[p].maps, range))

(* Does the entry at a show a frame that the VMO of its mapping holds?     *)
own_frame(m, p, mp, a) ==
  LET own == m.vmos[mp.vmo].committed
  IN  page_idx(mp, a) \in DOMAIN own /\ own[page_idx(mp, a)] = m.pt[p][a].frame
inherited_frame(m, p, mp, a) ==
  LET inh == m.vmos[mp.vmo].inherited
  IN  page_idx(mp, a) < Len(inh) /\ inh[page_idx(mp, a) + 1] = m.pt[p][a].frame

(* The permission of the page goes into its entry as it is, also into the  *)
(* read-only entry of a COW child.                                         *)
Mprotect(p, range, perms) ==
  LET hit == {a \in Pages(range) : handlers(space[p], a) # {}}
      forced == {a \in hit : /\ memory.pt[p][a] # NoPte /\ "W" \in perms
                             /\ memory.vmos[get_vm_mapping(space[p], a).vmo].is_cow
                             /\ ~own_frame(memory, p, get_vm_mapping(space[p], a), a)}
      apart == {a \in forced : ~inherited_frame(memory, p, get_vm_mapping(space[p], a), a)}
  IN  /\ Call("mprotect") /\ Alive(p)
      /\ check_protected_range(space[p], range)
      /\ Finish(protect_pages(memory, p, hit, perms),
                [space EXCEPT ![p] = protect(@, range, perms)],
                [astray EXCEPT ![p]["forced"] = (@ \ hit) \cup forced, ![p]["apart"] = @ \cup apart])
      /\ UNCHANGED heap_end

(* Mutant: the pages stay in the page table.                               *)
MadvDontneedKeepsEntries(p, range) ==
  /\ Call("madvise") /\ Alive(p)
  /\ handlers(space[p], range.lo) # {}
  /\ LET m == get_vm_mapping(space[p], range.lo)
     IN  /\ range.hi <= m.hi
         /\ Finish(decommit(memory, m.vmo, page_idx(m, range.lo), page_idx(m, range.hi)),
                   space, astray)
  /\ UNCHANGED heap_end

(* madvise(MADV_DONTNEED): the range lies in one mapping.                  *)
MadvDontneed(p, range) ==
  /\ Call("madvise") /\ Alive(p)
  /\ handlers(space[p], range.lo) # {}
  /\ LET m == get_vm_mapping(space[p], range.lo)
     IN  /\ range.hi <= m.hi
         /\ Finish(decommit(unmap(memory, p, Pages(range)), m.vmo,
                            page_idx(m, range.lo), page_idx(m, range.hi)),
                   [space EXCEPT ![p].maps[m.lo].mapped =
                      @ \ {page_idx(m, a) : a \in Pages(range)}],
                   astray)
  /\ UNCHANGED heap_end

(* brk: an end beyond the limit or below the current one is refused.       *)
Brk(p, end) ==
  LET m == get_vm_mapping(space[p], HEAP_BASE)
  IN  /\ Call("brk") /\ Alive(p)
      /\ heap_end[p] <= end /\ end <= HEAP_BASE + HEAP_SIZE_LIMIT
      /\ handlers(space[p], HEAP_BASE) # {}
      /\ \/ ~memory.vmos[m.vmo].resizable /\ Panic("resize")
         \/ /\ memory.vmos[m.vmo].resizable
            /\ Finish(resize(memory, m.vmo, end - HEAP_BASE), space, astray)
            /\ heap_end' = [heap_end EXCEPT ![p] = end]

-----------------------------------------------------------------------------
(* Accesses of the program.                                                *)
UserWrite(p, a) ==
  LET pte == memory.pt[p][a]
      of_file == \E i \in DOMAIN memory.vmos[File].committed :
                   memory.vmos[File].committed[i] = pte.frame
  IN  /\ Running /\ Alive(p)
      /\ pte # NoPte
      /\ pte.w
      /\ Finish([memory EXCEPT !.mem[pte.frame] = IF of_file THEN FileNew ELSE p],
                space, astray)
      /\ UNCHANGED heap_end

(* VmMapping::handle_page_fault and map_one_page.  A fault that is not     *)
(* handled becomes a signal and changes nothing here.                      *)
PageFault(p, a, write) ==
  LET m == get_vm_mapping(space[p], a)
      idx == page_idx(m, a)
      cow == memory.vmos[m.vmo].is_cow
      r == get_committed_frame(memory, m.vmo, idx, write)
      w == "W" \in m.perm[idx] /\ ~(cow /\ ~write)
  IN  /\ Running /\ Alive(p)
      /\ ~(memory.pt[p][a] # NoPte /\ (write => memory.pt[p][a].w))
      /\ handlers(space[p], a) # {}
      /\ idx < memory.vmos[m.vmo].size
      /\ idx \in DOMAIN m.perm
      /\ (IF write THEN "W" ELSE "R") \in m.perm[idx]
      /\ r.frame # NoFrame
      /\ \/ memory.pt[p][a] # NoPte /\ ~cow /\ Panic("is existed")
         \/ /\ memory.pt[p][a] # NoPte => cow
            /\ Finish([r.m EXCEPT !.pt[p][a] = [frame |-> r.frame, w |-> w]],
                      [space EXCEPT ![p].maps[m.lo].mapped = @ \cup {idx}],
                      [astray EXCEPT ![p] = [way \in Ways |-> @[way] \ {a}]])
            /\ UNCHANGED heap_end

(* Vmar::read and Vmar::write: the kernel goes through the VMO.  A write   *)
(* that copies the page leaves the entry of the old frame.                 *)
KernelAccess(p, a, write) ==
  LET m == get_vm_mapping(space[p], a)
      idx == page_idx(m, a)
      copies == /\ write
                /\ memory.vmos[m.vmo].is_cow
                /\ idx \notin DOMAIN memory.vmos[m.vmo].committed
  IN  /\ Running /\ Alive(p)
      /\ handlers(space[p], a) # {}
      /\ idx \in DOMAIN m.perm
      /\ (IF write THEN "W" ELSE "R") \in m.perm[idx]
      /\ idx < memory.vmos[m.vmo].size
      /\ Finish(IF write
                THEN write_bytes(memory, m.vmo, idx,
                                 IF memory.vmos[m.vmo].is_child /\ ~memory.vmos[m.vmo].is_cow
                                 THEN FileNew ELSE p)
                ELSE read_bytes(memory, m.vmo, idx),
                space,
                [astray EXCEPT ![p]["apart"] = IF copies THEN @ \cup {a} ELSE @])
      /\ UNCHANGED heap_end

(* write(2) on the file.                                                   *)
FileWrite ==
  /\ Running
  /\ Finish(write_bytes(memory, File, 0, FileNew), space, astray)
  /\ UNCHANGED heap_end

-----------------------------------------------------------------------------
(* VmMapping::new_cow for the mappings in the order of their addresses,    *)
(* of process p for its child q.                                           *)
set_vmo(vmo, k, r) == [m |-> r.m, vmo |-> [vmo EXCEPT ![k] = r.vmo]]

new_cow(m, p) ==
  LET M == space[p].maps
  IN  MapThenFoldSet(LAMBDA k, acc :
                       set_vmo(acc.vmo, k, alloc_child_vmo_(acc.m, M[k].vmo, 0,
                                                            acc.m.vmos[M[k].vmo].size, TRUE)),
                     [m |-> m, vmo |-> [k \in DOMAIN M |-> NoVmo]],
                     LAMBDA k : k, LAMBDA S : Max(S), DOMAIN M)

cow_space(s, vmo) ==
  [s EXCEPT !.maps = [k \in DOMAIN @ |-> [@[k] EXCEPT !.vmo = vmo[k], !.mapped = {}]]]

Fork(p, q) ==
  /\ Call("fork") /\ Alive(p) /\ ~Alive(q)
  /\ \E r \in {new_cow(memory, p)} :
       Finish(r.m, [space EXCEPT ![q] = cow_space(space[p], r.vmo)], astray)
  /\ heap_end' = [heap_end EXCEPT ![q] = heap_end[p]]

(* ProcessVm::clear, the segments of a shared object, and the stack.  The  *)
(* address range of the object is reserved first, by a mapping of nothing. *)
reserve(s, vmo) ==
  map_free(s, build_mapping(find_free_region_for_child(s.free, 2).lo, 2, vmo, {}))

(* The VMOs of the new program, in the order in which they are made.       *)
exec_kinds == <<"heap", "reserved", "text", "data", "stack">>
exec_vmo(m, kind) ==
  IF kind \in {"text", "data"} THEN alloc_child_vmo_(m, File, 0, 1, TRUE)
  ELSE alloc_vmo_(m, IF kind = "stack" THEN STACK_SIZE ELSE 0, kind = "heap", FALSE)
add_vmo(ids, r) == [m |-> r.m, vmo |-> Append(ids, r.vmo)]
exec_vmos(m) ==
  MapThenFoldSet(LAMBDA i, acc : add_vmo(acc.vmo, exec_vmo(acc.m, exec_kinds[i])),
                 [m |-> m, vmo |-> << >>], LAMBDA i : i, LAMBDA S : Max(S), 1 .. 5)

map_object(s, base, vmo) ==
  map_overwriting(map_overwriting(reserve(s, vmo[2]), build_mapping(base, 1, vmo[3], {"R"})),
                  build_mapping(base + 1, 1, vmo[4], RW))
exec_space(vmo) ==
  LET s == map_free(new_root, build_mapping(HEAP_BASE, HEAP_SIZE_LIMIT, vmo[1], RW))
  IN  map_free(map_object(s, find_free_region_for_child(s.free, 2).lo, vmo),
               build_mapping(STACK_BOTTOM, STACK_SIZE, vmo[5], RW))

(* The stack is cleared page by page, then arguments go to its end.        *)
write_stack(m, stack, p) ==
  LET clear[i \in 0 .. STACK_SIZE] ==
        IF i = 0 THEN m ELSE write_bytes(clear[i - 1], stack, i - 1, Zero)
  IN  write_bytes(clear[STACK_SIZE], stack, STACK_SIZE - 1, p)

loaded(r, p) == [m |-> write_stack(r.m, r.vmo[5], p), space |-> exec_space(r.vmo)]

exec(m, p) ==
  loaded(exec_vmos(DropVmos(unmap(m, p, Page), UsedVmos([space EXCEPT ![p] = NoSpace]))), p)

Exec(p) ==
  /\ Call("exec") /\ Alive(p)
  /\ \E r \in {exec(memory, p)} :
       Finish(r.m, [space EXCEPT ![p] = r.space], [astray EXCEPT ![p] = Nowhere])
  /\ heap_end' = [heap_end EXCEPT ![p] = HEAP_BASE]

(* reap_zombie_child: destroy_all, and the last reference to the VMAR.     *)
Reap(p) ==
  /\ Call("reap") /\ Alive(p)
  /\ Finish(unmap(memory, p, Page), [space EXCEPT ![p] = NoSpace], [astray EXCEPT ![p] = Nowhere])
  /\ UNCHANGED heap_end

-----------------------------------------------------------------------------
EmptyMemory ==
  [mem |-> [f \in Frames |-> Zero],
   vmos |-> [v \in Vmos |->
      IF v = File THEN [size |-> 1, committed |-> << >>, inherited |-> << >>,
                        is_child |-> FALSE, is_cow |-> FALSE,
                        resizable |-> TRUE, pager |-> TRUE]
      ELSE NoVmo],
   pt |-> [p \in Procs |-> [a \in Page |-> NoPte]]]

Init ==
  /\ space = [p \in Procs |-> NoSpace]
  /\ memory = EmptyMemory
  /\ heap_end = [p \in Procs |-> HEAP_BASE]
  /\ astray = [p \in Procs |-> Nowhere]
  /\ panicked = "no"
  /\ mix \in Mixes
  /\ steps = 0

(* spawn_user_process.                                                     *)
Spawn(p) ==
  /\ panicked = "no" /\ UNCHANGED <<mix, steps>>
  /\ \A q \in Procs : ~Alive(q)
  /\ \E r \in {exec(memory, p)} : Finish(r.m, [space EXCEPT ![p] = r.space], astray)
  /\ heap_end' = [heap_end EXCEPT ![p] = HEAP_BASE]

Kinds == {"anonymous", "private", "shared"}

Next ==
  \/ \E p \in Procs : Spawn(p) \/ Exec(p) \/ Reap(p)
  \/ \E p, q \in Procs : Fork(p, q)
  \/ \E p \in Procs, kind \in Kinds, size \in Sizes, perms \in MapPerms :
       Mmap(p, kind, size, perms)
  \/ \E p \in Procs, kind \in Kinds, range \in Ranges, perms \in MapPerms :
       MmapFixed(p, kind, range, perms)
  \/ \E p \in Procs, range \in Ranges : Munmap(p, range) \/ MadvDontneed(p, range)
  \/ \E p \in Procs, range \in Ranges, perms \in Perms : Mprotect(p, range, perms)
  \/ \E p \in Procs, end \in HEAP_BASE .. HEAP_BASE + HEAP_SIZE_LIMIT : Brk(p, end)
  \/ \E p \in Procs, a \in Touched : UserWrite(p, a)
  \/ \E p \in Procs, a \in Touched, write \in BOOLEAN :
       PageFault(p, a, write) \/ KernelAccess(p, a, write)
  \/ FileWrite

Spec == Init /\ [][Next]_vars

-----------------------------------------------------------------------------
(* The pages with an entry, without those astray in one of the ways W.     *)
Present(p, W) ==
  {a \in Page : memory.pt[p][a] # NoPte} \ UNION {astray[p][way] : way \in W}

(* The mappings of an address space do not overlap each other or a free    *)
(* region, and free regions do not overlap: whatever mmap, MAP_FIXED,      *)
(* munmap, fork and execve split, trim, merge and copy.                    *)
Disjoint(r, s) == r.hi <= s.lo \/ s.hi <= r.lo
Empty(r) == r.hi <= r.lo
Sound(s) ==
  /\ \A k \in DOMAIN s.maps : s.maps[k].lo = k
  /\ \A j, k \in DOMAIN s.maps :
       j # k => Empty(s.maps[j]) \/ Empty(s.maps[k]) \/ Disjoint(s.maps[j], s.maps[k])
  /\ \A k \in DOMAIN s.maps, f \in s.free : Empty(s.maps[k]) \/ Disjoint(s.maps[k], f)
  /\ \A f, g \in s.free : f # g => Disjoint(f, g)
AddressSpaceSound == \A p \in Procs : Alive(p) => Sound(space[p])

(* A page table entry is known to the one mapping that contains it, and    *)
(* grants no more than the mapping's permission for that page: a partial   *)
(* munmap or a MAP_FIXED leaves no entry behind, mprotect none that is too *)
(* generous.  Excepted are the entries of a mapping whose key in the map   *)
(* was taken by the empty rest of its neighbour, and those of a mapping    *)
(* inside a MAP_FIXED that starts below the VMO offset (`left`).           *)
PageTableSound ==
  \A p \in Procs : \A a \in Present(p, {"left"}) :
    /\ Alive(p)
    /\ \E k \in handlers(space[p], a) :
         LET m == space[p].maps[k]
         IN  /\ page_idx(m, a) \in m.mapped \cap DOMAIN m.perm
             /\ memory.pt[p][a].w => "W" \in m.perm[page_idx(m, a)]

(* A frame that can be written at two places is a page of the file: after  *)
(* a fork no private frame is writable in both processes, unless mprotect  *)
(* has made the entry of the COW child writable (`forced`).                *)
FileFrames == {memory.vmos[File].committed[i] : i \in DOMAIN memory.vmos[File].committed}
WritersDisjoint ==
  \A p, q \in Procs : \A a \in Present(p, {"forced"}), b \in Present(q, {"forced"}) :
    /\ memory.pt[p][a].w /\ memory.pt[q][b].w
    /\ memory.pt[p][a].frame = memory.pt[q][b].frame
    => <<p, a>> = <<q, b>> \/ memory.pt[p][a].frame \in FileFrames

(* The program sees at an address what the kernel sees there: the frame in *)
(* the page table and the frame the VMO would give hold the same, through  *)
(* copy-on-write, mprotect, MADV_DONTNEED, brk and writes to the file.     *)
(* Excepted are entries whose mapping is gone (`left`), those of a page    *)
(* that the kernel was the first to write in a COW child, where the        *)
(* program goes on seeing the old frame, and those of a page behind the    *)
(* parent's end that was read and then made writable (`apart`).            *)
Content(v, idx) ==
  LET vmo == memory.vmos[v]
  IN  IF idx \in DOMAIN vmo.committed THEN memory.mem[vmo.committed[idx]]
      ELSE IF idx < Len(vmo.inherited) THEN memory.mem[vmo.inherited[idx + 1]]
      ELSE Zero
UserSeesVmo ==
  \A p \in Procs : \A a \in Present(p, {"left", "apart"}) : \A k \in handlers(space[p], a) :
    memory.mem[memory.pt[p][a].frame]
      = Content(space[p].maps[k].vmo, page_idx(space[p].maps[k], a))

(* What VmoChildOptions::new_cow documents: a COW child "behaves as if all *)
(* its memory pages are copied from the parent VMO upon creation".  So     *)
(* nobody can write a frame that a child still shows, unless it belongs to *)
(* the file.                                                               *)
CowFramesFrozen ==
  \A v \in {w \in Vmos : memory.vmos[w] # NoVmo /\ memory.vmos[w].is_cow} :
    \A i \in DOMAIN memory.vmos[v].inherited :
      \/ i - 1 \in DOMAIN memory.vmos[v].committed
      \/ memory.vmos[v].inherited[i] \in FileFrames
      \/ \A p \in Procs : \A a \in Present(p, {}) :
           memory.pt[p][a].w => memory.pt[p][a].frame # memory.vmos[v].inherited[i]
=============================================================================
