-------------------------------- MODULE Heaps --------------------------------
(***************************************************************************)
(* The three allocators a build chooses one of, side by side over one set  *)
(* of variables: the heap of mem.c, a heap of memheap.c and slab.c.        *)
(***************************************************************************)
EXTENDS Integers, SequencesExt

CONSTANTS Threads,                                  \* that allocate
          Header, MinSize,                          \* of both heaps
          MemSize, Sizes,                           \* of the one of mem.c
          PoolSize, ItemSizes,                      \* of the one of memheap.c
          LastPage, ZonePages, Chunks, PageCounts, Threshold,   \* of Slab
          NoCall

VARIABLES
    mem, lfree, moving,                                    \* of Heap
    item, freeList, available,                             \* of MemHeap
    runs, usage, zones, avail, spare,                      \* of Slab
    call,                                                  \* of the last two
    held                                                   \* of the three

Small == INSTANCE Heap
Large == INSTANCE MemHeap WITH Sizes <- ItemSizes
Paged == INSTANCE Slab
=============================================================================
