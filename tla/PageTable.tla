----------------------------- MODULE PageTable -----------------------------
(***************************************************************************)
(* The multi-level page table, the set of mapped areas on top of it and    *)
(* the user address space (framework/aster-frame/src/vm/{page_table,       *)
(* memory_set,space}.rs, arch/x86/mm/), with the TLB of the one CPU, and   *)
(* the byte copies of VmIo (vm/frame.rs).                                  *)
(*                                                                         *)
(* Addresses of pages are numbers; the upper half is the kernel's, which   *)
(* every address space shares through its root entry.  A page of the       *)
(* kernel is cached in the TLB as global.                                  *)
(***************************************************************************)
EXTENDS Integers, Sequences, FiniteSets

CONSTANTS Spaces, FrameIds,
          LEVELS, ENTRY_COUNT,
          TableIds,          \* numbers of the frames for page tables; 0 and up
          PAGE_SIZE,
          Lengths,           \* of the copies, in bytes
          Used               \* the pages that are used: <<space, page>>, when page
                             \* tables and when copies are looked at

VARIABLES table,      \* the entries of every table
          root,       \* of every space; the kernel's is "kernel"
          areas,      \* MemorySet::areas: page -> [frame, flags]
          cr3, tlb,
          mem,        \* bytes of the frames
          shadow, agree,  \* ghosts: what the copies were to do
          mix             \* rigid: "tables" or "copies"

ptvars == <<table, root, areas, cr3, tlb, mem, shadow, agree, mix>>

Pages == 0..(ENTRY_COUNT ^ LEVELS - 1)
is_kernel_vaddr(va) == va >= ENTRY_COUNT ^ LEVELS \div 2
UserPages == {va \in Pages : ~is_kernel_vaddr(va)}
KernelPages == Pages \ UserPages
page_index(va, level) == (va \div ENTRY_COUNT ^ (level - 1)) % ENTRY_COUNT

To(frame) == <<"f", frame>>
Unused == [to |-> To("none"), flags |-> {}]
Entry(to, flags) == [to |-> to, flags |-> flags]
Empty == [i \in 0..(ENTRY_COUNT - 1) |-> Unused]
NoArea == [frame |-> "none", flags |-> {}]
Roots == Spaces \union {"kernel"}

(* The boot page table of the kernel: a leaf for each of its pages.        *)
KernelTable(level, i) == <<"k", level, i>>
KernelTables == {KernelTable(l, i) : l \in 1..(LEVELS - 1), i \in 0..(ENTRY_COUNT ^ LEVELS - 1)}
RootTable(r) == <<"root", LEVELS, r>>
UserTables == {<<"u", 0, i>> : i \in TableIds}
AllTables == {RootTable(r) : r \in Roots} \union KernelTables \union UserTables

(* The first page that a table of the kernel at a level covers.            *)
KernelEntries(t) ==
  [i \in 0..(ENTRY_COUNT - 1) |->
     LET va == t[3] + i * ENTRY_COUNT ^ (t[2] - 1)
     IN  IF t[2] = 1 THEN Entry(<<"frame of", va>>, {"PRESENT", "GLOBAL"})
         ELSE Entry(KernelTable(t[2] - 1, va), {"PRESENT"})]
KernelRoot ==
  [i \in 0..(ENTRY_COUNT - 1) |->
     LET va == i * ENTRY_COUNT ^ (LEVELS - 1)
     IN  IF is_kernel_vaddr(va) THEN Entry(KernelTable(LEVELS - 1, va), {"PRESENT"})
         ELSE Unused]

(* MemorySet::new copies the root entries of the kernel.                   *)
add_root_mapping == KernelRoot

PTInit == /\ table = [t \in AllTables |-> IF t[1] = "root" THEN add_root_mapping
                                          ELSE IF t[1] = "k" THEN KernelEntries(t)
                                          ELSE Empty]
          /\ root = [s \in Spaces |-> RootTable(s)]
          /\ areas = [s \in Spaces |-> [va \in UserPages |-> NoArea]]
          /\ cr3 \in Spaces /\ tlb = {}
          /\ mem = [f \in FrameIds |-> [i \in 0..(PAGE_SIZE - 1) |-> 0]]
          /\ shadow = mem /\ agree = TRUE
          /\ mix \in {"tables", "copies"}

-----------------------------------------------------------------------------
(* PageTable.                                                              *)

Present(e) == "PRESENT" \in e.flags
Pointed(tb) == {tb[t][i].to : t \in AllTables, i \in 0..(ENTRY_COUNT - 1)}
FreshTable(tb) == CHOOSE u \in UserTables : u \notin Pointed(tb)

(* page_walk from an entry of a table at a level: the tables, as far as    *)
(* they had to be made, and the place of the last entry, if there is one.  *)
RECURSIVE Walk(_, _, _, _, _)
Walk(tb, t, level, va, create) ==
  LET i == page_index(va, level)
      e == tb[t][i]
      u == FreshTable(tb)
  IN  IF level = 1 THEN [tb |-> tb, at |-> <<t, i>>, found |-> TRUE]
      ELSE IF Present(e) THEN Walk(tb, e.to, level - 1, va, create)
      ELSE IF ~create THEN [tb |-> tb, at |-> <<t, i>>, found |-> FALSE]
      ELSE Walk([tb EXCEPT ![t][i] = Entry(u, {"PRESENT", "WRITABLE"})], u, level - 1, va,
                create)
page_walk(tb, r, va, create) == Walk(tb, r, LEVELS, va, create)

Translate(tb, r, va) ==
  LET w == page_walk(tb, r, va, FALSE)
  IN  IF w.found THEN tb[w.at[1]][w.at[2]] ELSE Unused

(* The three changes of an entry; each flushes the page from the TLB.      *)
Flushed(c, va) == {x \in c : x.va # va}

do_map(m, r, va, frame, flags) ==
  LET w == page_walk(m.tb, r, va, TRUE)
  IN  [tb |-> [w.tb EXCEPT ![w.at[1]][w.at[2]] = Entry(To(frame), flags)],
       tlb |-> Flushed(m.tlb, va)]

(* Mutant: the entry of the TLB stays.                                     *)
UnmapWithoutFlush(m, r, va) ==
  LET w == page_walk(m.tb, r, va, FALSE)
  IN  [tb |-> [m.tb EXCEPT ![w.at[1]][w.at[2]] = Unused], tlb |-> m.tlb]

do_unmap(m, r, va) ==
  LET w == page_walk(m.tb, r, va, FALSE)
  IN  [tb |-> [m.tb EXCEPT ![w.at[1]][w.at[2]] = Unused], tlb |-> Flushed(m.tlb, va)]

do_protect(m, r, va, flags) ==
  LET w == page_walk(m.tb, r, va, FALSE)
  IN  [tb |-> [m.tb EXCEPT ![w.at[1]][w.at[2]].flags = flags], tlb |-> Flushed(m.tlb, va)]

Now == [tb |-> table, tlb |-> tlb]
Become(m) == table' = m.tb /\ tlb' = m.tlb

-----------------------------------------------------------------------------
(* MemorySet and VmSpace.  Each area is one page.                          *)

is_mapped(s, va) == areas[s][va].frame # "none"
Perms(perm) == {"PRESENT"} \union (IF perm = "rw" THEN {"WRITABLE"} ELSE {})

(* MemorySet::unmap of a page that is mapped.                              *)
UnmapArea(x, s, va) ==
  [m |-> do_unmap(x.m, root[s], va), areas |-> [x.areas EXCEPT ![s][va] = NoArea]]

(* VmSpace::unmap stops at the first page that is not mapped.              *)
RECURSIVE UnmapPages(_, _, _, _)
UnmapPages(x, s, va, n) ==
  IF n = 0 \/ x.areas[s][va].frame = "none" THEN x
  ELSE UnmapPages(UnmapArea(x, s, va), s, va + 1, n - 1)

State == [m |-> Now, areas |-> areas]
Done(x) == /\ Become(x.m) /\ areas' = x.areas
           /\ UNCHANGED <<root, cr3, mem, shadow, agree>>

unmap(s, va, n) == /\ va + n - 1 \in UserPages
                   /\ Done(UnmapPages(State, s, va, n))

(* VmSpace::map of one frame, over what is there if can_overwrite.         *)
map(s, va, frame, perm) ==
  LET x == UnmapPages(State, s, va, 1)
  IN  Done([m |-> do_map(x.m, root[s], va, frame, Perms(perm)),
            areas |-> [x.areas EXCEPT ![s][va] = [frame |-> frame, flags |-> Perms(perm)]]])

(* MemorySet::protect changes the page table and not the area.             *)
protect(s, va, perm) == /\ is_mapped(s, va)
                        /\ Done([m |-> do_protect(Now, root[s], va, Perms(perm)),
                                 areas |-> areas])

(* VmSpace::clear, with a flush of the whole TLB but its global entries.   *)
RECURSIVE UnmapAll(_, _, _)
UnmapAll(x, s, pages) ==
  IF pages = {} THEN x
  ELSE LET va == CHOOSE va \in pages : TRUE
       IN  UnmapAll(IF x.areas[s][va].frame = "none" THEN x ELSE UnmapArea(x, s, va), s,
                    pages \ {va})
Global(c) == {x \in c : "GLOBAL" \in x.flags}
clear(s) == LET x == UnmapAll(State, s, UserPages)
            IN  Done([x EXCEPT !.m.tlb = Global(@)])

(* activate_page_table.                                                    *)
activate(s) == /\ cr3' = s /\ tlb' = Global(tlb)
               /\ UNCHANGED <<table, root, areas, mem, shadow, agree>>

(* An access of the CPU fills the TLB.                                     *)
Access(va) == LET e == Translate(table, root[cr3], va)
              IN  /\ Present(e) /\ \A x \in tlb : x.va # va
                  /\ tlb' = tlb \union {[va |-> va, to |-> e.to, flags |-> e.flags]}
                  /\ UNCHANGED <<table, root, areas, cr3, mem, shadow, agree>>

(* PageTable<KernelMode>::protect, by a DMA mapping.                       *)
ProtectKernel(va) ==
  LET e == Translate(table, RootTable("kernel"), va)
  IN  /\ Become(do_protect(Now, RootTable("kernel"), va,
                           (e.flags \ {"NO_CACHE"}) \union
                           ({"NO_CACHE"} \ e.flags)))
      /\ UNCHANGED <<root, areas, cr3, mem, shadow, agree>>

-----------------------------------------------------------------------------
(* VmIo.                                                                   *)

(* VmWriter::write and VmReader::read after a skip: as much as fits.       *)
Copied(avail, remain) == IF avail < remain THEN avail ELSE remain
WriteFrame(m, f, skip, data) ==
  LET n == Copied(PAGE_SIZE - skip, Len(data))
  IN  [m EXCEPT ![f] = [i \in 0..(PAGE_SIZE - 1) |->
                          IF i \in skip..(skip + n - 1) THEN data[i - skip + 1] ELSE @[i]]]
ReadFrame(m, f, skip, n) == [i \in 1..Copied(PAGE_SIZE - skip, n) |-> m[f][skip + i - 1]]
Rest(data, n) == SubSeq(data, n + 1, Len(data))

(* Mutant: the offset is kept for the next frame.                          *)
RECURSIVE WriteVecKeeping(_, _, _, _)
WriteVecKeeping(m, frames, start, data) ==
  IF frames = <<>> \/ data = <<>> THEN m
  ELSE WriteVecKeeping(WriteFrame(m, Head(frames), start, data), Tail(frames), start,
                       Rest(data, Copied(PAGE_SIZE - start, Len(data))))

(* VmFrameVec::write_bytes and read_bytes.                                 *)
RECURSIVE WriteVec(_, _, _, _)
WriteVec(m, frames, start, data) ==
  IF frames = <<>> \/ data = <<>> THEN m
  ELSE WriteVec(WriteFrame(m, Head(frames), start, data), Tail(frames), 0,
                Rest(data, Copied(PAGE_SIZE - start, Len(data))))

RECURSIVE ReadVec(_, _, _, _)
ReadVec(m, frames, start, n) ==
  IF frames = <<>> \/ n = 0 THEN <<>>
  ELSE ReadFrame(m, Head(frames), start, n)
       \o ReadVec(m, Tail(frames), 0, n - Copied(PAGE_SIZE - start, n))

Skipped(frames, offset) == SubSeq(frames, offset \div PAGE_SIZE + 1, Len(frames))
InVec(frames, offset, n) == n + offset <= Len(frames) * PAGE_SIZE

(* MemorySet::write_bytes goes through the areas in order of address and   *)
(* stops at one that is not writable; read_bytes does not look.            *)
RECURSIVE WriteAreas(_, _, _, _, _)
WriteAreas(m, s, va, addr, data) ==
  IF va \notin UserPages THEN m
  ELSE IF ~is_mapped(s, va) \/ addr \div PAGE_SIZE # va THEN WriteAreas(m, s, va + 1, addr, data)
  ELSE IF "WRITABLE" \notin areas[s][va].flags THEN m
  ELSE LET skip == addr - va * PAGE_SIZE
           n == Copied(PAGE_SIZE - skip, Len(data))
           m2 == WriteFrame(m, areas[s][va].frame, skip, data)
       IN  IF n = Len(data) THEN m2
           ELSE WriteAreas(m2, s, va + 1, (va + 1) * PAGE_SIZE, Rest(data, n))

RECURSIVE ReadAreas(_, _, _, _)
ReadAreas(s, va, addr, n) ==
  IF va \notin UserPages THEN <<>>
  ELSE IF ~is_mapped(s, va) \/ addr \div PAGE_SIZE # va THEN ReadAreas(s, va + 1, addr, n)
  ELSE LET got == ReadFrame(mem, areas[s][va].frame, addr - va * PAGE_SIZE, n)
       IN  IF Len(got) = n THEN got
           ELSE got \o ReadAreas(s, va + 1, (va + 1) * PAGE_SIZE, n - Len(got))

(* What the copies mean: byte i of the data has its own place, and in a    *)
(* space the copy ends at the first byte that has none.                    *)
PlaceIn(s, b, writing) ==
  LET a == areas[s][b \div PAGE_SIZE]
  IN  IF a.frame = "none" \/ (writing /\ "WRITABLE" \notin a.flags) THEN <<>>
      ELSE <<a.frame, b % PAGE_SIZE>>
Reach(s, addr, n, writing) ==
  {i \in 1..n : \A j \in 1..i : /\ (addr + j - 1) \div PAGE_SIZE \in UserPages
                                /\ PlaceIn(s, addr + j - 1, writing) # <<>>}
Placed(place, reach, data) ==
  [f \in FrameIds |-> [k \in 0..(PAGE_SIZE - 1) |->
     LET is == {i \in reach : place[i] = <<f, k>>}
     IN  IF is = {} THEN shadow[f][k]
         ELSE data[CHOOSE i \in is : \A j \in is : j <= i]]]

Same == UNCHANGED <<table, root, areas, cr3, tlb>>

write_bytes(s, addr, data) ==
  LET reach == Reach(s, addr, Len(data), TRUE)
  IN  /\ mem' = WriteAreas(mem, s, 0, addr, data)
      /\ shadow' = Placed([i \in reach |-> PlaceIn(s, addr + i - 1, TRUE)], reach, data)
      /\ Same /\ UNCHANGED agree

read_bytes(s, addr, n) ==
  /\ agree' = (ReadAreas(s, 0, addr, n) =
                 [i \in 1..Cardinality(Reach(s, addr, n, FALSE)) |->
                    LET p == PlaceIn(s, addr + i - 1, FALSE) IN shadow[p[1]][p[2]]])
  /\ Same /\ UNCHANGED <<mem, shadow>>

Vecs == {v \in [1..Cardinality(FrameIds) -> FrameIds] : \A i, j \in DOMAIN v : v[i] = v[j] => i = j}
InPlace(v, b) == <<v[b \div PAGE_SIZE + 1], b % PAGE_SIZE>>

WriteFrames(v, offset, data) ==
  /\ InVec(v, offset, Len(data))
  /\ mem' = WriteVec(mem, Skipped(v, offset), offset % PAGE_SIZE, data)
  /\ shadow' = Placed([i \in 1..Len(data) |-> InPlace(v, offset + i - 1)], 1..Len(data), data)
  /\ Same /\ UNCHANGED agree

ReadFrames(v, offset, n) ==
  /\ InVec(v, offset, n)
  /\ agree' = (ReadVec(mem, Skipped(v, offset), offset % PAGE_SIZE, n) =
                 [i \in 1..n |-> LET p == InPlace(v, offset + i - 1) IN shadow[p[1]][p[2]]])
  /\ Same /\ UNCHANGED <<mem, shadow>>

-----------------------------------------------------------------------------
(* The bytes of a buffer are told apart by their position.                 *)
Data(n) == {[i \in 1..n |-> i]}

Changes ==
  \E x \in Used[mix] : LET s == x[1] va == x[2] IN
    \/ clear(s)
    \/ \E n \in 1..2 : unmap(s, va, n)
    \/ \E perm \in {"r", "rw"} : \/ mix = "tables" /\ protect(s, va, perm)
                                 \/ \E f \in FrameIds : map(s, va, f, perm)

(* One page of the kernel is enough.                                       *)
KernelPage == CHOOSE va \in KernelPages : \A w \in KernelPages : va <= w
Translations == \/ \E x \in Used[mix] : activate(x[1]) \/ Access(x[2])
                \/ Access(KernelPage) \/ ProtectKernel(KernelPage)

Copies ==
  \/ \E x \in Used[mix], skip \in 0..(PAGE_SIZE - 1), n \in Lengths :
       \/ read_bytes(x[1], x[2] * PAGE_SIZE + skip, n)
       \/ \E data \in Data(n) : write_bytes(x[1], x[2] * PAGE_SIZE + skip, data)
  \/ \E v \in Vecs, offset \in 0..(Cardinality(FrameIds) * PAGE_SIZE), n \in Lengths :
       \/ ReadFrames(v, offset, n)
       \/ \E data \in Data(n) : WriteFrames(v, offset, data)

PTNext == /\ UNCHANGED mix
          /\ \/ Changes
             \/ mix = "tables" /\ Translations
             \/ mix = "copies" /\ Copies

PTSpec == PTInit /\ [][PTNext]_ptvars

-----------------------------------------------------------------------------
(* The page table of every space maps exactly the pages of its areas, to   *)
(* their frames, and the pages of the kernel as the kernel's own table     *)
(* does; and the CPU never uses a translation that is no longer there.     *)
TranslationsSound ==
  /\ \A s \in Spaces :
       /\ \A va \in UserPages : Translate(table, root[s], va).to = To(areas[s][va].frame)
       /\ \A va \in KernelPages :
            Translate(table, root[s], va) = Translate(table, RootTable("kernel"), va)
  /\ \A x \in tlb : Translate(table, root[cr3], x.va) = [to |-> x.to, flags |-> x.flags]

(* Copies that cross pages put every byte in its place, stop where a page  *)
(* is missing or read-only, and read back the same bytes.                  *)
BytesLand == mem = shadow /\ agree
=============================================================================
