------------------------------ MODULE PhysMem ------------------------------
(***************************************************************************)
(* Physical memory of the framework: the frame allocator, the handles that *)
(* own frames (VmFrame, VmSegment), DMA mappings, kernel stacks with their *)
(* guard page, and the frames that the kernel heap takes                   *)
(* (framework/aster-frame/src/vm/{frame,frame_allocator,options,           *)
(* heap_allocator,dma}, task/task.rs).                                     *)
(*                                                                         *)
(* A frame has a number.  Of the linear mapping only the flags PRESENT and *)
(* NO_CACHE of a page are kept.                                            *)
(***************************************************************************)
EXTENDS Integers, FiniteSets, FiniteSetsExt

CONSTANTS NFRAMES,
          Requests,           \* numbers of frames asked for
          STACK_FRAMES,       \* KERNEL_STACK_SIZE / PAGE_SIZE
          MIN_NUM_FRAMES,     \* what rescue asks for first
          MaxHandles          \* handles that exist at a time

VARIABLES free,         \* the buddy allocator
          handles,        \* VmFrame instances of each frame
          segments,     \* live Inner: start -> [n, count, views], views counts the
                        \* VmSegments of each range, count all of them; n = 0 where no segment starts
          dma,          \* live DmaCoherentInner and DmaStreamInner
          mapping_set,  \* DMA_MAPPING_SET
          iommu,        \* what the device page table maps
          flags,        \* of the linear mapping
          stacks,       \* start of the segments of live kernel stacks
          heap, padding,
          has_iommu,    \* rigid
          panicked

pmvars == <<free, handles, segments, dma, mapping_set, iommu, flags, stacks, heap, padding,
            has_iommu, panicked>>

FrameNos == 0..(NFRAMES - 1)
Span(start, n) == start..(start + n - 1)
FrameRanges == {r \in FrameNos \X (1..NFRAMES) : r[1] < r[2]}
NoSegment == [n |-> 0, count |-> 0, views |-> [r \in FrameRanges |-> 0]]

PMInit == /\ free = FrameNos /\ handles = [f \in FrameNos |-> 0]
          /\ segments = [f \in FrameNos |-> NoSegment]
          /\ dma = {} /\ mapping_set = {} /\ iommu = {}
          /\ flags = [f \in FrameNos |-> {"PRESENT"}]
          /\ stacks = {} /\ heap = {} /\ padding = {}
          /\ has_iommu \in BOOLEAN /\ panicked = FALSE

-----------------------------------------------------------------------------
(* The buddy allocator (external): blocks of a power of two, aligned.      *)
RoundUp(n) == CHOOSE p \in {1, 2, 4, 8, 16} : p >= n /\ p < 2 * n
Blocks(n) == {s \in FrameNos : s % RoundUp(n) = 0 /\ Span(s, RoundUp(n)) \subseteq free}
Reserve(s, n) == free' = free \ Span(s, RoundUp(n))
Padding(s, n) == Span(s, RoundUp(n)) \ Span(s, n)

Handles == MapThenSumSet(LAMBDA f : handles[f] + segments[f].count, FrameNos)
Room(n) == Handles + n <= MaxHandles

-----------------------------------------------------------------------------
(* VmFrame.                                                                *)

alloc_single == /\ Room(1)
                /\ \E s \in Blocks(1) : /\ Reserve(s, 1)
                                        /\ handles' = [handles EXCEPT ![s] = 1]
                /\ UNCHANGED <<segments, dma, mapping_set, iommu, flags, stacks, heap, padding>>

(* VmAllocOptions::alloc of a contiguous VmFrameVec: the frames are freed  *)
(* one by one, what the block has beyond them never.                       *)
alloc(n) == /\ Room(n)
            /\ \E s \in Blocks(n) : /\ Reserve(s, n)
                                    /\ handles' = [f \in FrameNos |->
                                                   IF f \in Span(s, n) THEN 1 ELSE handles[f]]
                                    /\ padding' = padding \union Padding(s, n)
            /\ UNCHANGED <<segments, dma, mapping_set, iommu, flags, stacks, heap>>

CloneFrame(f) == /\ Room(1) /\ handles[f] > 0
                 /\ handles' = [handles EXCEPT ![f] = @ + 1]
                 /\ UNCHANGED <<free, segments, dma, mapping_set, iommu, flags, stacks, heap,
                                padding>>

(* VmFrame::drop.                                                          *)
DropFrame(f) == /\ handles[f] > 0
                /\ handles' = [handles EXCEPT ![f] = @ - 1]
                /\ free' = IF handles[f] = 1 THEN free \union {f} ELSE free
                /\ UNCHANGED <<segments, dma, mapping_set, iommu, flags, stacks, heap, padding>>

-----------------------------------------------------------------------------
(* VmSegment.                                                              *)

NewSegment(n) == [n |-> n, count |-> 1,
                  views |-> [r \in FrameRanges |-> IF r = <<0, n>> THEN 1 ELSE 0]]
View(sg, r, k) == [sg EXCEPT !.views[r] = @ + k, !.count = @ + k]

(* VmSegment::drop of a handle of range r.                                 *)
DropView(start, r) ==
  LET sg == segments[start]
  IN  IF sg.count = 1
      THEN /\ segments' = [segments EXCEPT ![start] = NoSegment]
           /\ free' = free \union Span(start, RoundUp(sg.n))
      ELSE /\ segments' = [segments EXCEPT ![start] = View(sg, r, -1)]
           /\ UNCHANGED free

alloc_contiguous(n) ==
  /\ Room(1)
  /\ \E s \in Blocks(n) : /\ Reserve(s, n)
                          /\ segments' = [segments EXCEPT ![s] = NewSegment(n)]
  /\ UNCHANGED <<handles, dma, mapping_set, iommu, flags, stacks, heap, padding>>

(* Handles that belong to a DMA mapping or to a kernel stack are not given *)
(* out; the others are.                                                    *)
HeldViews(start, r) == Cardinality({d \in dma : d.start = start /\ d.range = r})
                       + (IF start \in stacks /\ r = <<0, STACK_FRAMES + 1>> THEN 1 ELSE 0)
Starts == {s \in FrameNos : segments[s].n > 0}
Loose(start) == {r \in FrameRanges : /\ segments[start].views[r] > 0
                                /\ segments[start].views[r] > HeldViews(start, r)}

(* VmSegment::range of a view, relative to it.                             *)
range(start, r, sub) ==
  /\ Room(1) /\ r \in Loose(start)
  /\ r[1] + sub[2] <= r[2]
  /\ segments' = [segments EXCEPT ![start] = View(@, <<r[1] + sub[1], r[1] + sub[2]>>, 1)]
  /\ UNCHANGED <<free, handles, dma, mapping_set, iommu, flags, stacks, heap, padding>>

DropSegment(start, r) ==
  /\ r \in Loose(start)
  /\ DropView(start, r)
  /\ UNCHANGED <<handles, dma, mapping_set, iommu, flags, stacks, heap, padding>>

-----------------------------------------------------------------------------
(* DMA.                                                                    *)

Pages(start, r) == Span(start + r[1], r[2] - r[1])

check_and_insert_dma_mapping(pages) ==
  /\ pages \cap mapping_set = {}
  /\ mapping_set' = mapping_set \union pages

remove_dma_mapping(pages) == mapping_set' = mapping_set \ pages

MapIommu(pages) == iommu' = IF has_iommu THEN iommu \union pages ELSE iommu
UnmapIommu(pages) == iommu' = IF has_iommu THEN iommu \ pages ELSE iommu

SetNoCache(pages) == [f \in FrameNos |-> IF f \in pages THEN flags[f] \union {"NO_CACHE"}
                                      ELSE flags[f]]
ClearNoCache(pages) == [f \in FrameNos |-> IF f \in pages THEN flags[f] \ {"NO_CACHE"}
                                        ELSE flags[f]]

(* DmaCoherent::map and DmaStream::map take a handle; when a page belongs  *)
(* to another mapping the handle is dropped with the error.                *)
MapCoherent(start, r, coherent) ==
  LET pages == Pages(start, r)
  IN  /\ r \in Loose(start)
      /\ check_and_insert_dma_mapping(pages)
      /\ flags' = IF coherent THEN flags ELSE SetNoCache(pages)
      /\ MapIommu(pages)
      /\ dma' = dma \union {[start |-> start, range |-> r, uncached |-> ~coherent]}
      /\ UNCHANGED <<free, handles, segments, stacks, heap, padding>>

MapStream(start, r) ==
  LET pages == Pages(start, r)
  IN  /\ r \in Loose(start)
      /\ check_and_insert_dma_mapping(pages)
      /\ MapIommu(pages)
      /\ dma' = dma \union {[start |-> start, range |-> r, uncached |-> FALSE]}
      /\ UNCHANGED <<free, handles, segments, flags, stacks, heap, padding>>

AlreadyMapped(start, r) ==
  /\ r \in Loose(start)
  /\ Pages(start, r) \cap mapping_set # {}
  /\ DropView(start, r)
  /\ UNCHANGED <<handles, dma, mapping_set, iommu, flags, stacks, heap, padding>>

(* DmaCoherentInner::drop and DmaStreamInner::drop, then the segment's.    *)
DropCoherent(d) ==
  LET pages == Pages(d.start, d.range)
  IN  /\ d.uncached
      /\ UnmapIommu(pages)
      /\ flags' = ClearNoCache(pages)
      /\ remove_dma_mapping(pages)
      /\ dma' = dma \ {d}
      /\ DropView(d.start, d.range)
      /\ UNCHANGED <<handles, stacks, heap, padding>>

DropStream(d) ==
  LET pages == Pages(d.start, d.range)
  IN  /\ ~d.uncached
      /\ UnmapIommu(pages)
      /\ remove_dma_mapping(pages)
      /\ dma' = dma \ {d}
      /\ DropView(d.start, d.range)
      /\ UNCHANGED <<handles, flags, stacks, heap, padding>>

-----------------------------------------------------------------------------
(* Kernel stacks.  PageTable::protect refuses a page that is not present;  *)
(* protect_guard_page unwraps.                                             *)

new_with_guard_page ==
  /\ Room(1)
  /\ \E s \in Blocks(STACK_FRAMES + 1) :
       /\ Reserve(s, STACK_FRAMES + 1)
       /\ segments' = [segments EXCEPT ![s] = NewSegment(STACK_FRAMES + 1)]
       /\ stacks' = stacks \union {s}
       /\ IF "PRESENT" \in flags[s] THEN /\ flags' = [flags EXCEPT ![s] = {}]
                                         /\ UNCHANGED panicked
                                    ELSE panicked' = TRUE /\ UNCHANGED flags
  /\ UNCHANGED <<handles, dma, mapping_set, iommu, heap, padding>>

(* Drop of a stack that no task uses.                                      *)
DropStack(s) ==
  /\ s \in stacks
  /\ IF "PRESENT" \in flags[s]
     THEN /\ flags' = [flags EXCEPT ![s] = {"PRESENT"}]
          /\ stacks' = stacks \ {s}
          /\ DropView(s, <<0, STACK_FRAMES + 1>>)
          /\ UNCHANGED panicked
     ELSE panicked' = TRUE /\ UNCHANGED <<flags, stacks, segments, free>>
  /\ UNCHANGED <<handles, dma, mapping_set, iommu, heap, padding>>

-----------------------------------------------------------------------------
(* rescue of the heap allocator: at least MIN_NUM_FRAMES if there are that *)
(* many, or just what is needed; the heap keeps them.                      *)
rescue(n) ==
  /\ LET k == IF n < MIN_NUM_FRAMES /\ Blocks(MIN_NUM_FRAMES) # {} THEN MIN_NUM_FRAMES ELSE n
     IN  \E s \in Blocks(k) : /\ Reserve(s, k)
                              /\ heap' = heap \union Span(s, k)
                              /\ padding' = padding \union Padding(s, k)
  /\ UNCHANGED <<handles, segments, dma, mapping_set, iommu, flags, stacks>>

-----------------------------------------------------------------------------
PMNext ==
  /\ ~panicked
  /\ UNCHANGED has_iommu
  /\ \/ /\ UNCHANGED panicked
        /\ \/ alloc_single
           \/ \E n \in Requests : alloc(n) \/ alloc_contiguous(n) \/ rescue(n)
           \/ \E f \in FrameNos : CloneFrame(f) \/ DropFrame(f)
           \/ \E f \in Starts : \E r \in Loose(f) :
                \/ DropSegment(f, r) \/ MapStream(f, r) \/ AlreadyMapped(f, r)
                \/ \E coherent \in BOOLEAN : MapCoherent(f, r, coherent)
                \/ \E sub \in FrameRanges : range(f, r, sub)
           \/ \E d \in dma : DropCoherent(d) \/ DropStream(d)
     \/ new_with_guard_page
     \/ \E s \in stacks : DropStack(s)

PMSpec == PMInit /\ [][PMNext]_pmvars

-----------------------------------------------------------------------------
Owners(f) == {o \in {"free", "frame", "heap", "padding"} :
                \/ o = "free" /\ f \in free
                \/ o = "frame" /\ handles[f] > 0
                \/ o = "heap" /\ f \in heap
                \/ o = "padding" /\ f \in padding}
OwningSegments(f) == {s \in FrameNos : segments[s].n > 0
                                     /\ f \in Span(s, RoundUp(segments[s].n))}

(* Every frame has one owner: the allocator, the handles of one VmFrame,   *)
(* those of one segment, the heap, or nobody where a VmFrameVec or the     *)
(* heap did not use its whole block.                                       *)
FramesPartitioned ==
  \A f \in FrameNos : Cardinality(Owners(f)) + Cardinality(OwningSegments(f)) = 1

(* DMA mappings are disjoint and stay inside memory that they keep alive;  *)
(* the set, the IOMMU and the cache flags tell exactly what is mapped, so  *)
(* that memory that goes back to the allocator is neither uncached nor     *)
(* open to a device.                                                       *)
DmaSound ==
  /\ mapping_set = UNION {Pages(d.start, d.range) : d \in dma}
  /\ \A d, e \in dma : d # e => Pages(d.start, d.range) \cap Pages(e.start, e.range) = {}
  /\ iommu = IF has_iommu THEN mapping_set ELSE {}
  /\ mapping_set \cap free = {}
  /\ \A f \in FrameNos : "NO_CACHE" \in flags[f] <=>
       \E d \in dma : d.uncached /\ f \in Pages(d.start, d.range)
=============================================================================
