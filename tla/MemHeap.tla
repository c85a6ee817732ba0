------------------------------ MODULE MemHeap ------------------------------
(***************************************************************************)
(* A heap of memheap.c: rt_memheap_alloc, rt_memheap_realloc and            *)
(* rt_memheap_free.                                                        *)
(*                                                                         *)
(* Items tile the pool, in a ring that goes from the used tailer item back *)
(* to the first one; the free ones are on a free list, too, the last freed *)
(* first.  What a call does with heap->lock taken is one step.  The size   *)
(* left is read before the lock is taken, and rt_memheap_realloc gives the *)
(* lock back before it allocates and before it frees; other calls come     *)
(* between.  Addresses and sizes count words, what RT_ALIGN makes of them; *)
(* of the counters, the greatest use (max_used_size) is left out.          *)
(***************************************************************************)
EXTENDS Integers, SequencesExt

CONSTANTS Threads,   \* the threads that use the heap
          Header,    \* RT_MEMHEAP_SIZE
          MinSize,   \* RT_MEMHEAP_MINIALLOC
          PoolSize,  \* memheap->pool_size
          Sizes,     \* the sizes callers ask for
          NoCall     \* is in no call; RT_NULL

Tailer == PoolSize - Header

MemHeapAssumption ==
    /\ Header \in Nat \ {0} /\ MinSize \in Nat \ {0}
    /\ PoolSize \in Nat /\ 2 * Header + MinSize =< PoolSize
    /\ Sizes \subseteq 1..PoolSize

VARIABLES
    item,       \* the headers, by the offset of the item
    freeList,   \* the items behind heap->free_list, in its order
    available,  \* heap->available_size
    held,       \* [the pointers callers have -> the size they count on]
    call        \* where a thread is in an allocation

vars == <<item, freeList, available, held, call>>

Items == [used : BOOLEAN, next : 0..Tailer, prev : 0..Tailer]
Calls == [at : {"check", "take", "free"}, size : Sizes,
          old : 0..PoolSize \union {NoCall}, new : 0..PoolSize \union {NoCall}]

TypeOK ==
    /\ DOMAIN item \subseteq 0..Tailer /\ \A b \in DOMAIN item : item[b] \in Items
    /\ freeList \in Seq(DOMAIN item)
    /\ available \in 0..PoolSize
    /\ DOMAIN held \subseteq 0..PoolSize /\ \A p \in DOMAIN held : held[p] \in 1..PoolSize
    /\ call \in [Threads -> Calls \union {NoCall}]

-----------------------------------------------------------------------------
(* A heap is [item, freeList, available] in the operators.                  *)

Room(s, b) == s[b].next - b - Header     \* MEMITEM_SIZE
Pointer(b) == b + Header
ItemOf(p) == p - Header
AtLeast(n) == IF n < MinSize THEN MinSize ELSE n
Now == [item |-> item, freeList |-> freeList, available |-> available]
Becomes(h) == item' = h.item /\ freeList' = h.freeList /\ available' = h.available

\* The item is cut off behind its first n words; what is behind is free.
Split(s, b, n) ==
    LET c == b + Header + n
        behind == s[b].next
    IN  [x \in DOMAIN s \union {c} |->
            CASE x = c -> [used |-> FALSE, next |-> behind, prev |-> b]
              [] x = b -> [s[b] EXCEPT !.next = c]
              [] x = behind -> [s[behind] EXCEPT !.prev = c]
              [] OTHER -> s[x]]

\* Item b takes in the free one behind it.
Joined(h, b) ==
    LET gone == h.item[b].next
        behind == h.item[gone].next
        linked == [h.item EXCEPT ![b].next = behind, ![behind].prev = b]
    IN  [item |-> [x \in DOMAIN linked \ {gone} |-> linked[x]],
         freeList |-> RemoveFirst(h.freeList, gone),
         available |-> h.available + Header]

\* The free item b is taken for n words; a rest that makes an item is cut off.
Allocated(h, b, n) ==
    LET rest == RemoveFirst(h.freeList, b)
        whole == [h.item EXCEPT ![b].used = TRUE]
    IN  IF Room(h.item, b) >= n + Header + MinSize
        THEN [item |-> Split(whole, b, n), freeList |-> <<b + Header + n>> \o rest,
              available |-> h.available - n - Header]
        ELSE [item |-> whole, freeList |-> rest,
              available |-> h.available - Room(h.item, b)]

\* Mutation of Freed: an item that the one before took in is listed again.
FreedListed(h, b) ==
    LET left == h.item[b].prev
        open == [h EXCEPT !.item[b].used = FALSE, !.available = @ + Room(h.item, b)]
        one == IF h.item[left].used THEN open ELSE Joined(open, left)
        c == IF h.item[left].used THEN b ELSE left
        two == IF one.item[one.item[c].next].used THEN one ELSE Joined(one, c)
    IN  [two EXCEPT !.freeList = <<c>> \o @]

\* rt_memheap_free joins what it frees with the item before, which is on the
\* list already, and with the one behind.
Freed(h, b) ==
    LET left == h.item[b].prev
        alone == h.item[left].used
        open == [h EXCEPT !.item[b].used = FALSE, !.available = @ + Room(h.item, b)]
        one == IF alone THEN open ELSE Joined(open, left)
        c == IF alone THEN b ELSE left
        two == IF one.item[one.item[c].next].used THEN one ELSE Joined(one, c)
    IN  IF alone THEN [two EXCEPT !.freeList = <<b>> \o @] ELSE two

\* The used item b takes n words in all from the free one behind it ...
Grown(h, b, n) ==
    LET whole == Joined(h, b)
    IN  [item |-> Split(whole.item, b, n),
         freeList |-> <<b + Header + n>> \o whole.freeList,
         available |-> h.available - (n - Room(h.item, b))]

\* ... or gives what is behind its first n words back.
Shrunk(h, b, n) ==
    LET c == b + Header + n
        behind == h.item[b].next
        cut == [h EXCEPT !.item = Split(@, b, n)]
        whole == IF h.item[behind].used THEN cut ELSE Joined(cut, c)
        lost == IF h.item[behind].used THEN 0 ELSE Room(h.item, behind)
    IN  [item |-> whole.item, freeList |-> <<c>> \o whole.freeList,
         available |-> h.available - lost + Room(whole.item, c)]

-----------------------------------------------------------------------------
Outside(t) == call[t] = NoCall
At(t, l) == call[t] # NoCall /\ call[t].at = l
Leave(t) == call' = [call EXCEPT ![t] = NoCall]

\* A caller that is inside rt_memheap_realloc does nothing else with the pointer.
InCall == {t \in Threads : call[t] # NoCall}
Given == DOMAIN held \ UNION {{call[t].old, call[t].new} : t \in InCall}
Give(p, n) == held' = [x \in DOMAIN held \union {p} |-> IF x = p THEN n ELSE held[x]]

\* rt_memheap_alloc, when the size left promises enough
AllocCheck(t, n) ==
    /\ Outside(t) /\ AtLeast(n) < available
    /\ call' = [call EXCEPT ![t] = [at |-> "take", size |-> n, old |-> NoCall, new |-> NoCall]]
    /\ UNCHANGED <<item, freeList, available, held>>

\* The same look as a part of rt_memheap_realloc, which fails with it.
MoveCheck(t) ==
    /\ At(t, "check")
    /\ IF AtLeast(call[t].size) < available THEN call' = [call EXCEPT ![t].at = "take"]
                                            ELSE Leave(t)
    /\ UNCHANGED <<item, freeList, available, held>>

\* The search, with the lock: the first of the free list that is large enough.
Fits(size) == {i \in DOMAIN freeList : Room(item, freeList[i]) >= size}
AllocTake(t) ==
    LET size == AtLeast(call[t].size)
        b == freeList[Min(Fits(size))]
    IN  /\ At(t, "take")
        /\ \/ /\ Fits(size) = {}
              /\ Leave(t) /\ UNCHANGED <<item, freeList, available, held>>
           \/ /\ Fits(size) # {}
              /\ Becomes(Allocated(Now, b, size))
              /\ Give(Pointer(b), call[t].size)
              /\ IF call[t].old = NoCall THEN Leave(t)
                 ELSE call' = [call EXCEPT ![t].at = "free", ![t].new = Pointer(b)]

\* rt_memheap_free, and rt_memheap_realloc to 0
Free(p) ==
    /\ p \in Given
    /\ Becomes(Freed(Now, ItemOf(p)))
    /\ held' = Restrict(held, DOMAIN held \ {p})
    /\ UNCHANGED call

\* rt_memheap_realloc to more than there is: the item grows where it is, ...
Behind(p) == item[ItemOf(p)].next
Growable(p, size) ==
    /\ ~item[Behind(p)].used
    /\ Room(item, Behind(p)) + Room(item, ItemOf(p)) > size + MinSize
Grow(p, n) ==
    LET size == AtLeast(n) IN
    /\ p \in Given /\ size > Room(item, ItemOf(p)) /\ Growable(p, size)
    /\ Becomes(Grown(Now, ItemOf(p), size))
    /\ Give(p, n)
    /\ UNCHANGED call

\* ... or another is allocated, for which the lock is given back, ...
Move(t, p, n) ==
    LET size == AtLeast(n) IN
    /\ Outside(t) /\ p \in Given
    /\ size > Room(item, ItemOf(p)) /\ ~Growable(p, size)
    /\ call' = [call EXCEPT ![t] = [at |-> "check", size |-> n, old |-> p, new |-> NoCall]]
    /\ UNCHANGED <<item, freeList, available, held>>

\* ... the words are copied and the old one is freed.
MoveFree(t) ==
    /\ At(t, "free")
    /\ Becomes(Freed(Now, ItemOf(call[t].old)))
    /\ held' = Restrict(held, DOMAIN held \ {call[t].old})
    /\ Leave(t)

\* To less: the end is given back if it makes an item.
Shrink(p, n) ==
    LET size == AtLeast(n) IN
    /\ p \in Given /\ size + Header + MinSize < Room(item, ItemOf(p))
    /\ Becomes(Shrunk(Now, ItemOf(p), size))
    /\ Give(p, n)
    /\ UNCHANGED call

Keep(p, n) ==
    LET size == AtLeast(n)
        room == Room(item, ItemOf(p))
    IN  /\ p \in Given /\ size =< room /\ size + Header + MinSize >= room
        /\ Give(p, n)
        /\ UNCHANGED <<item, freeList, available, call>>

-----------------------------------------------------------------------------
\* rt_memheap_init
Init ==
    /\ item = [b \in {0, Tailer} |-> [used |-> b = Tailer, next |-> Tailer - b, prev |-> Tailer - b]]
    /\ freeList = <<0>> /\ available = PoolSize - 2 * Header
    /\ held = << >>
    /\ call = [t \in Threads |-> NoCall]

Next ==
    \/ \E t \in Threads : \/ MoveCheck(t) \/ AllocTake(t) \/ MoveFree(t)
                          \/ \E n \in Sizes : \/ AllocCheck(t, n)
                                              \/ \E p \in DOMAIN held : Move(t, p, n)
    \/ \E p \in DOMAIN held : \/ Free(p)
                              \/ \E n \in Sizes : Grow(p, n) \/ Shrink(p, n) \/ Keep(p, n)

Spec == Init /\ [][Next]_vars
-----------------------------------------------------------------------------
(* Properties                                                               *)

FreeItems == {b \in DOMAIN item : ~item[b].used}

\* Whatever was split, joined, grown and cut: the items tile the pool in both
\* directions, the free list holds every free item once, no two neighbours are
\* free, and the size left is the sum of what the free items have room for.
Tiled ==
    /\ TypeOK
    /\ {0, Tailer} \subseteq DOMAIN item /\ item[Tailer].next = 0
    /\ \A b \in DOMAIN item \ {Tailer} :
          /\ item[b].next = Min({c \in DOMAIN item : c > b})
          /\ item[item[b].next].prev = b
          /\ Room(item, b) >= MinSize
          /\ b \in FreeItems => item[b].next \notin FreeItems
    /\ IsInjective(freeList) /\ Range(freeList) = FreeItems
    /\ available = SumFunctionOnSet([b \in DOMAIN item |-> Room(item, b)], FreeItems)

\* Every used item belongs to one caller and has the room that caller counts on.
OwnedOnce ==
    /\ {ItemOf(p) : p \in DOMAIN held} = {b \in DOMAIN item : item[b].used} \ {Tailer}
    /\ \A p \in DOMAIN held : held[p] =< Room(item, ItemOf(p))
=============================================================================
