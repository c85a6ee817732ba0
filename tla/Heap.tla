-------------------------------- MODULE Heap --------------------------------
(***************************************************************************)
(* The heap of mem.c: rt_malloc, rt_realloc and rt_free.                   *)
(*                                                                         *)
(* Blocks lie one behind the other, each with a header that names the next *)
(* and the previous one.  What a call does between taking heap_sem and     *)
(* releasing it is one step; rt_realloc gives heap_sem back between its    *)
(* look at the block, its rt_malloc and its rt_free, and other calls come  *)
(* between.  Addresses and sizes count words, what RT_ALIGN makes of them. *)
(***************************************************************************)
EXTENDS Integers, FiniteSets, FiniteSetsExt, Functions

CONSTANTS Threads,   \* the threads that call rt_realloc
          Header,    \* SIZEOF_STRUCT_MEM
          MinSize,   \* MIN_SIZE_ALIGNED
          MemSize,   \* mem_size_aligned
          Sizes,     \* the sizes callers ask for
          NoCall     \* is not inside rt_realloc

End == MemSize + Header   \* heap_end

HeapAssumption ==
    /\ Header \in Nat \ {0} /\ MinSize \in Nat \ {0}
    /\ MemSize \in Nat /\ MinSize =< MemSize
    /\ Sizes \subseteq 1..MemSize

VARIABLES
    mem,    \* the headers, by the offset of the block
    lfree,  \* lfree
    held,   \* [the pointers callers have -> the size they count on]
    moving  \* where a thread is in rt_realloc

vars == <<mem, lfree, held, moving>>

Blocks == [used : BOOLEAN, next : 0..End, prev : 0..End]
Moves == [old : 0..End, size : Sizes, new : 0..End \union {NoCall}]

TypeOK == /\ DOMAIN mem \subseteq 0..End /\ \A b \in DOMAIN mem : mem[b] \in Blocks
          /\ lfree \in DOMAIN mem
          /\ DOMAIN held \subseteq 0..End /\ \A p \in DOMAIN held : held[p] \in 1..MemSize
          /\ moving \in [Threads -> Moves \union {NoCall}]

-----------------------------------------------------------------------------
Room(h, b) == h[b].next - (b + Header)
Pointer(b) == b + Header
BlockOf(p) == p - Header

\* The fields are changed one at a time, as in the code: a block may be its
\* own neighbour.
WithNext(h, b, n) == [h EXCEPT ![b].next = n]
WithPrev(h, b, n) == [h EXCEPT ![b].prev = n]
Without(h, b) == [c \in DOMAIN h \ {b} |-> h[c]]

\* A heap is [mem, lfree] here.  plug_holes joins a free block with the one
\* behind it ...
PlugForward(h, b) ==
    LET n == h.mem[b].next
    IN  IF b = n \/ h.mem[n].used \/ n = End THEN h
        ELSE [lfree |-> IF h.lfree = n THEN b ELSE h.lfree,
              mem |-> Without(WithPrev(WithNext(h.mem, b, h.mem[n].next), h.mem[n].next, b), n)]

\* ... and with the one before it.
PlugBackward(h, b) ==
    LET p == h.mem[b].prev
    IN  IF b = p \/ h.mem[p].used THEN h
        ELSE [lfree |-> IF h.lfree = b THEN p ELSE h.lfree,
              mem |-> Without(WithPrev(WithNext(h.mem, p, h.mem[b].next), h.mem[b].next, p), b)]

PlugHoles(h, b) == PlugBackward(PlugForward(h, b), b)

\* Both rt_malloc and rt_realloc cut off what is behind the first n words.
\* The header behind the last block keeps its prev, which nobody reads.
Split(h, b, n) ==
    LET c == b + Header + n
        behind == h[b].next
        new == [used |-> FALSE, next |-> behind, prev |-> b]
        cut == [x \in DOMAIN h \union {c} |-> IF x = c THEN new ELSE WithNext(h, b, c)[x]]
    IN  IF behind = End THEN cut ELSE WithPrev(cut, behind, c)

AtLeast(n) == IF n < MinSize THEN MinSize ELSE n

\* The blocks the loop of rt_malloc, which starts at lfree, would take.
Fitting(n) == {b \in DOMAIN mem : /\ b >= lfree /\ b < MemSize - n
                                  /\ ~mem[b].used /\ Room(mem, b) >= n}

\* Mutation of NextFree: the block that was cut off is passed over.
NextFreePast(h, b) == Min({End} \union {c \in DOMAIN h : c > h[b].next /\ ~h[c].used})

\* The next free block at or behind b, or heap_end.
NextFree(h, b) == Min({End} \union {c \in DOMAIN h : c >= b /\ ~h[c].used})

\* rt_malloc of the block b: what is left is cut off when it makes a block.
Allocated(b, n) ==
    LET whole == IF Room(mem, b) >= n + Header + MinSize THEN Split(mem, b, n) ELSE mem
        taken == [whole EXCEPT ![b].used = TRUE]
    IN  [mem |-> taken, lfree |-> IF b = lfree THEN NextFree(taken, b) ELSE lfree]

\* Mutation of Freed: lfree is not lowered.
FreedLfreeKept(b) ==
    PlugHoles([mem |-> [mem EXCEPT ![b].used = FALSE], lfree |-> lfree], b)

\* rt_free
Freed(b) ==
    PlugHoles([mem |-> [mem EXCEPT ![b].used = FALSE],
               lfree |-> IF b < lfree THEN b ELSE lfree], b)

Becomes(h) == mem' = h.mem /\ lfree' = h.lfree

\* A caller that is inside rt_realloc does nothing else with the pointer.
Busy == {moving[t].old : t \in {u \in Threads : moving[u] # NoCall}}
        \union {moving[t].new : t \in {u \in Threads : moving[u] # NoCall}}
Given == DOMAIN held \ Busy
Give(p, n) == held' = [x \in DOMAIN held \union {p} |-> IF x = p THEN n ELSE held[x]]
TakeBack(p) == held' = Restrict(held, DOMAIN held \ {p})

-----------------------------------------------------------------------------
\* rt_malloc, first fit.  A caller that gets RT_NULL changes nothing.
Malloc(n) ==
    LET size == AtLeast(n)
        b == Min(Fitting(size))
    IN  /\ Fitting(size) # {}
        /\ Becomes(Allocated(b, size))
        /\ Give(Pointer(b), n)
        /\ UNCHANGED moving

\* rt_free, and rt_realloc to 0
Free(p) ==
    /\ p \in Given
    /\ Becomes(Freed(BlockOf(p)))
    /\ TakeBack(p)
    /\ UNCHANGED moving

\* rt_realloc: a block that is larger by enough gives its end back, ...
Shrink(p, n) ==
    /\ p \in Given
    /\ n + Header + MinSize < Room(mem, BlockOf(p))
    /\ LET b == BlockOf(p)
       IN  Becomes(PlugHoles([mem |-> Split(mem, b, n), lfree |-> lfree], b + Header + n))
    /\ Give(p, n)
    /\ UNCHANGED moving

\* ... one of the right size stays, ...
Keep(p, n) ==
    /\ p \in Given
    /\ Room(mem, BlockOf(p)) = n
    /\ Give(p, n)
    /\ UNCHANGED <<mem, lfree, moving>>

\* ... and for all others rt_realloc goes on without heap_sem:
Move(t, p, n) ==
    /\ moving[t] = NoCall /\ p \in Given
    /\ LET room == Room(mem, BlockOf(p)) IN room # n /\ n + Header + MinSize >= room
    /\ moving' = [moving EXCEPT ![t] = [old |-> p, size |-> n, new |-> NoCall]]
    /\ UNCHANGED <<mem, lfree, held>>

\* it takes a new block, ...
MoveMalloc(t) ==
    /\ moving[t] # NoCall /\ moving[t].new = NoCall
    /\ LET size == AtLeast(moving[t].size)
           b == Min(Fitting(size))
       IN  /\ Fitting(size) # {}
           /\ Becomes(Allocated(b, size))
           /\ Give(Pointer(b), moving[t].size)
           /\ moving' = [moving EXCEPT ![t].new = Pointer(b)]

\* ... of which there may be none: RT_NULL, and the old one stays,
MoveFails(t) ==
    /\ moving[t] # NoCall /\ moving[t].new = NoCall
    /\ Fitting(AtLeast(moving[t].size)) = {}
    /\ moving' = [moving EXCEPT ![t] = NoCall]
    /\ UNCHANGED <<mem, lfree, held>>

\* copies what is in the old one and frees that.
MoveFree(t) ==
    /\ moving[t] # NoCall /\ moving[t].new # NoCall
    /\ Becomes(Freed(BlockOf(moving[t].old)))
    /\ TakeBack(moving[t].old)
    /\ moving' = [moving EXCEPT ![t] = NoCall]

-----------------------------------------------------------------------------
\* rt_system_heap_init
Init ==
    /\ mem = [b \in {0, End} |-> [used |-> b = End, next |-> End, prev |-> b]]
    /\ lfree = 0
    /\ held = << >>
    /\ moving = [t \in Threads |-> NoCall]

Next ==
    \/ \E n \in Sizes : \/ Malloc(n)
                        \/ \E p \in DOMAIN held : \/ Shrink(p, n) \/ Keep(p, n)
                                                  \/ \E t \in Threads : Move(t, p, n)
    \/ \E p \in DOMAIN held : Free(p)
    \/ \E t \in Threads : MoveMalloc(t) \/ MoveFails(t) \/ MoveFree(t)

Spec == Init /\ [][Next]_vars
-----------------------------------------------------------------------------
(* Properties                                                               *)

FreeBlocks == {b \in DOMAIN mem : ~mem[b].used}

\* The headers tile the arena: next leads to the header right behind the
\* block and prev to the one right before it (heap_end's is not kept).
Tiled ==
    /\ TypeOK
    /\ {0, End} \subseteq DOMAIN mem
    /\ \A b \in DOMAIN mem \ {End} :
          /\ mem[b].next = Min({c \in DOMAIN mem : c > b}) /\ b + Header < mem[b].next
          /\ mem[b].prev = Max({0} \union {c \in DOMAIN mem : c < b})

\* No two neighbours are free, which is what plug_holes is for, and lfree is
\* a free block or heap_end, whatever was joined.
FreeSound ==
    /\ \A b \in FreeBlocks : mem[b].next \notin FreeBlocks
    /\ lfree \in FreeBlocks \union {End}

\* Every block that is used belongs to exactly one caller, and has the room
\* that caller counts on, also while others allocate in the middle of its
\* rt_realloc: nothing is handed out twice and nothing leaks.
OwnedOnce ==
    /\ {BlockOf(p) : p \in DOMAIN held} = {b \in DOMAIN mem : mem[b].used} \ {End}
    /\ \A p \in DOMAIN held : held[p] =< Room(mem, BlockOf(p))

\* "pointer to the lowest free block"
LowestFree == \A b \in FreeBlocks : lfree =< b

\* The only step after which a free block lies below lfree is an rt_realloc
\* that cuts the end off a block below it; such blocks cannot be allocated
\* until a block below them is freed.
HiddenByShrinking ==
    LowestFree /\ ~LowestFree' =>
        /\ DOMAIN held' = DOMAIN held /\ moving' = moving
        /\ \E p \in DOMAIN held :
              p < lfree /\ Room(mem', BlockOf(p)) < Room(mem, BlockOf(p))
LostOnlyByShrinking == [][HiddenByShrinking]_vars

\* ... which is over at the latest when everything is freed: whatever the
\* order of the calls, the heap is then one block again, and lfree is there.
Recovered ==
    DOMAIN held = {} =>
        /\ FreeBlocks = {0} /\ Room(mem, 0) = MemSize
        /\ lfree = 0
=============================================================================
