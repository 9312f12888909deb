------------------------------ MODULE MCMemory ------------------------------
(* The memory of user processes, and under it the frame allocator, DMA and *)
(* the page tables. A behaviour exercises one part, chosen in MCInit; the  *)
(* variables of the others are absent (0) or stay as they are.             *)
EXTENDS Vm

(* Parts are those that the run exercises.                                 *)
CONSTANTS Parts

VARIABLES which, pm_free, pm_handles, pm_segments, pm_dma, pm_mapping_set,
          pm_iommu, pm_flags, pm_stacks, pm_heap, pm_padding, pm_has_iommu,
          pm_panicked, pt_table, pt_root, pt_areas, pt_cr3, pt_tlb, pt_mem,
          pt_shadow, pt_agree, pt_mix

(* Pages 0 .. 6, with the heap in page 0, text and data in 1 and 2, room   *)
(* for mmap in 3 .. 5 and the stack in 6.                                  *)
MCFrames == 1 .. 18
MCVmos == 0 .. 16
MCTouched == {2, 3, 4}
MCRanges == {Span(3, 4), Span(3, 5), Span(4, 5)}
MCSizes == {2}
MCMapPerms == {RW}
MCMixes == {{"mmap", "munmap", "fixed"}, {"mmap", "mprotect", "fork"},
            {"fork", "brk", "exec", "reap"}, {"mmap", "madvise", "fork", "munmap"}}
MCBuilds == {FALSE, TRUE}

PagesUsed == [tables |-> {<<"s1", 0>>, <<"s2", 0>>},
              copies |-> {<<"s1", 1>>, <<"s1", 2>>}]

PM == INSTANCE PhysMem WITH NFRAMES <- 4, Requests <- 1 .. 3,
        STACK_FRAMES <- 1, MIN_NUM_FRAMES <- 2, MaxHandles <- 3,
        free <- pm_free, handles <- pm_handles, segments <- pm_segments,
        dma <- pm_dma, mapping_set <- pm_mapping_set, iommu <- pm_iommu,
        flags <- pm_flags, stacks <- pm_stacks, heap <- pm_heap,
        padding <- pm_padding, has_iommu <- pm_has_iommu,
        panicked <- pm_panicked
framesVars == <<pm_free, pm_handles, pm_segments, pm_dma, pm_mapping_set,
                pm_iommu, pm_flags, pm_stacks, pm_heap, pm_padding,
                pm_has_iommu, pm_panicked>>
PT == INSTANCE PageTable WITH Spaces <- {"s1", "s2"},
        FrameIds <- {"f1", "f2"}, LEVELS <- 3, ENTRY_COUNT <- 2,
        TableIds <- 1 .. 6, PAGE_SIZE <- 2, Lengths <- {3}, Used <- PagesUsed,
        table <- pt_table, root <- pt_root, areas <- pt_areas, cr3 <- pt_cr3,
        tlb <- pt_tlb, mem <- pt_mem, shadow <- pt_shadow, agree <- pt_agree,
        mix <- pt_mix
tablesVars == <<pt_table, pt_root, pt_areas, pt_cr3, pt_tlb, pt_mem,
                pt_shadow, pt_agree, pt_mix>>

allVars == <<which, vars, framesVars, tablesVars>>

MCInit ==
  /\ which \in Parts
  /\ Init
  /\ which # "vm" => mix = CHOOSE x \in Mixes : TRUE
  /\ IF which = "frames" THEN PM!PMInit
     ELSE pm_free = 0 /\ pm_handles = 0 /\ pm_segments = 0 /\ pm_dma = 0 /\
          pm_mapping_set = 0 /\ pm_iommu = 0 /\ pm_flags = 0 /\ pm_stacks = 0
          /\ pm_heap = 0 /\ pm_padding = 0 /\ pm_has_iommu = 0 /\ pm_panicked
          = 0
  /\ IF which = "tables" THEN PT!PTInit
     ELSE pt_table = 0 /\ pt_root = 0 /\ pt_areas = 0 /\ pt_cr3 = 0 /\ pt_tlb
          = 0 /\ pt_mem = 0 /\ pt_shadow = 0 /\ pt_agree = 0 /\ pt_mix = 0

MCNext ==
  /\ UNCHANGED which
  /\ \/ which = "vm" /\ Next /\ UNCHANGED <<framesVars, tablesVars>>
     \/ which = "frames" /\ PM!PMNext /\ UNCHANGED <<vars, tablesVars>>
     \/ which = "tables" /\ PT!PTNext /\ UNCHANGED <<vars, framesVars>>

MCSpec == MCInit /\ [][MCNext]_allVars

Symmetry == Permutations(Procs)

(* The mappings of an address space, its free regions and its page table   *)
(* fit each other.                                                         *)
SpacesSound == which = "vm" => AddressSpaceSound /\ PageTableSound

(* What user programs find: no page is written by two that do not share    *)
(* it, and what is read is what the VMO holds.                             *)
UserMemorySound == which = "vm" => WritersDisjoint /\ UserSeesVmo

(* Each frame is free, in use once or a table, devices reach what was      *)
(* mapped for them only, and what the tables and the TLB translate is what *)
(* was mapped, also for copies to and from user space.                     *)
HardwareSound == /\ which = "frames" => PM!FramesPartitioned /\ PM!DmaSound
                 /\ which = "tables" => PT!TranslationsSound /\ PT!BytesLand
=============================================================================
