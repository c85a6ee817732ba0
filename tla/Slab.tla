-------------------------------- MODULE Slab --------------------------------
(***************************************************************************)
(* The slab allocator, slab.c: rt_malloc, rt_realloc and rt_free on zones, *)
(* with rt_page_alloc and rt_page_free under them.                         *)
(*                                                                         *)
(* A zone is some pages in a row that hold chunks of one class of sizes;   *)
(* a page knows by memusage how far behind the first page of its zone it   *)
(* is.  What a call does with heap_sem taken is one step.  It gives the    *)
(* semaphore back before it takes or returns pages, and in rt_realloc      *)
(* before it frees the old block; other calls come between.  The greatest  *)
(* class, whose size rt_realloc rounds up to the limit from which requests *)
(* take whole pages, is left out.                                          *)
(***************************************************************************)
EXTENDS Integers, SequencesExt

CONSTANTS Threads,    \* the threads that use the heap
          LastPage,   \* the pages behind those of memusage are 1..LastPage
          ZonePages,  \* zone_page_cnt
          Chunks,     \* [the classes of zoneindex -> z_nmax of a zone of the class]
          PageCounts,      \* the numbers of pages large requests take
          Threshold,  \* ZONE_RELEASE_THRESH
          NoCall      \* is in no call; RT_NULL

Pages == 1..LastPage
Classes == DOMAIN Chunks

Runs == [page : Pages, n : Pages]
Zones == [class : Classes, nfree : Nat, uindex : Nat, free : Seq(Nat)]
Usages == [type : {"free", "small", "large"}, size : 0..LastPage]
Pointers == [page : Pages, chunk : Nat]
Calls == [at : {"pages", "zone", "free", "release"}, what : Classes \union PageCounts \union {NoCall},
          run : Runs \union {NoCall}, old : Pointers \union {NoCall}]

\* A zone is four times the greatest size of a chunk: it holds several.
SlabAssumption ==
    /\ LastPage \in Nat \ {0} /\ ZonePages \in Nat \ {0} /\ Threshold \in Nat
    /\ \A c \in Classes : Chunks[c] \in Nat \ {0, 1}
    /\ PageCounts \subseteq Nat \ {0} /\ PageCounts \intersect Classes = {}
    /\ NoCall \notin Runs /\ NoCall \notin Calls

VARIABLES
    runs,   \* rt_page_list
    usage,  \* memusage
    zones,  \* the headers of the zones in use, by their first page
    avail,  \* zone_array: the zones of a class with free chunks
    spare,  \* zone_free
    held,   \* [the pointers callers have -> the class or number of pages]
    call    \* where a thread is in a call

vars == <<runs, usage, zones, avail, spare, held, call>>

TypeOK ==
    /\ runs \in Seq(Runs) /\ usage \in [Pages -> Usages]
    /\ DOMAIN zones \subseteq Pages /\ \A z \in DOMAIN zones : zones[z] \in Zones
    /\ avail \in [Classes -> Seq(DOMAIN zones)] /\ spare \in Seq(Pages)
    /\ DOMAIN held \subseteq Pointers
    /\ \A p \in DOMAIN held : held[p] \in Classes \union PageCounts
    /\ call \in [Threads -> Calls \union {NoCall}]

-----------------------------------------------------------------------------
(* Pages                                                                    *)

\* rt_page_alloc takes from the front of the first run that is long enough.
Fits(n) == {i \in DOMAIN runs : runs[i].n >= n}
FirstFit(n) == Min(Fits(n))
Taken(i, n) ==
    IF runs[i].n = n THEN RemoveAt(runs, i)
    ELSE [runs EXCEPT ![i] = [page |-> @.page + n, n |-> @.n - n]]

\* rt_page_free puts a run behind the k that begin before it, and joins it with
\* its neighbours.
Returned(r) ==
    LET k     == Max({i \in DOMAIN runs : runs[i].page < r.page} \union {0})
        left  == k > 0 /\ runs[k].page + runs[k].n = r.page
        right == k < Len(runs) /\ r.page + r.n = runs[k + 1].page
        joined == [page |-> IF left THEN runs[k].page ELSE r.page,
                   n    |-> r.n + (IF left THEN runs[k].n ELSE 0)
                                + (IF right THEN runs[k + 1].n ELSE 0)]
    IN  SubSeq(runs, 1, IF left THEN k - 1 ELSE k) \o <<joined>>
        \o SubSeq(runs, IF right THEN k + 2 ELSE k + 1, Len(runs))

-----------------------------------------------------------------------------
(* rt_malloc.  In a call of rt_realloc `old` is the block it will free, else *)
(* NoCall.                                                                  *)

Outside(t) == call[t] = NoCall
Goto(t, c) == call' = [call EXCEPT ![t] = c]
InCall(t, l) == call[t] # NoCall /\ call[t].at = l

\* Chunk i of a zone begins on this page (the header is on the first one).
PageOf(z, c, i) == z + (i * ZonePages) \div Chunks[c]
Pointer(z, c, i) == [page |-> PageOf(z, c, i), chunk |-> i]

\* rt_malloc returns the pointer; rt_realloc copies, and frees the old block.
Return(t, p, what, old) ==
    /\ held' = [x \in DOMAIN held \union {p} |-> IF x = p THEN what ELSE held[x]]
    /\ Goto(t, IF old = NoCall THEN NoCall
               ELSE [at |-> "free", what |-> NoCall, run |-> NoCall, old |-> old])

\* A request above the zone limit takes whole pages.
MallocLarge(t, n, old) ==
    /\ Fits(n) # {}
    /\ LET p == runs[FirstFit(n)].page
       IN  /\ usage' = [usage EXCEPT ![p] = [type |-> "large", size |-> n]]
           /\ Return(t, [page |-> p, chunk |-> 0], n, old)
    /\ runs' = Taken(FirstFit(n), n)
    /\ UNCHANGED <<zones, avail, spare>>

\* Mutation of MallocChunk: a zone gives a fresh chunk once more than it has.
MallocChunkPast(t, c, old) ==
    /\ avail[c] # <<>>
    /\ LET z == Head(avail[c])
           h == zones[z]
           fresh == h.uindex # Chunks[c]
       IN  /\ zones' = [zones EXCEPT ![z] =
                  [h EXCEPT !.nfree = @ - 1, !.uindex = IF fresh THEN @ + 1 ELSE @,
                            !.free = IF fresh THEN @ ELSE Tail(@)]]
           /\ avail' = IF h.nfree = 1 THEN [avail EXCEPT ![c] = Tail(@)] ELSE avail
           /\ Return(t, Pointer(z, c, IF fresh THEN h.uindex + 1 ELSE Head(h.free)), c, old)
    /\ UNCHANGED <<runs, usage, spare>>

\* The first zone of the class gives a chunk: one it never gave, as long as
\* there are such, or the one that was freed last.
MallocChunk(t, c, old) ==
    /\ avail[c] # <<>>
    /\ LET z == Head(avail[c])
           h == zones[z]
           fresh == h.uindex + 1 # Chunks[c]
       IN  /\ zones' = [zones EXCEPT ![z] =
                  [h EXCEPT !.nfree = @ - 1, !.uindex = IF fresh THEN @ + 1 ELSE @,
                            !.free = IF fresh THEN @ ELSE Tail(@)]]
           /\ avail' = IF h.nfree = 1 THEN [avail EXCEPT ![c] = Tail(@)] ELSE avail
           /\ Return(t, Pointer(z, c, IF fresh THEN h.uindex + 1 ELSE Head(h.free)), c, old)
    /\ UNCHANGED <<runs, usage, spare>>

\* A zone is made for a class; its first chunk is given at once.
Made(t, z, c, old) ==
    /\ zones' = [x \in DOMAIN zones \union {z} |->
                    IF x = z THEN [class |-> c, nfree |-> Chunks[c] - 1, uindex |-> 0, free |-> <<>>]
                    ELSE zones[x]]
    /\ avail' = [avail EXCEPT ![c] = <<z>> \o @]
    /\ Return(t, Pointer(z, c, 0), c, old)

MallocSpare(t, c, old) ==
    /\ avail[c] = <<>> /\ spare # <<>>
    /\ Made(t, Head(spare), c, old)
    /\ spare' = Tail(spare)
    /\ UNCHANGED <<runs, usage>>

\* Without a spare zone it goes for pages, with the semaphore given back.
MallocZone(t, c, old) ==
    /\ avail[c] = <<>> /\ spare = <<>>
    /\ Goto(t, [at |-> "pages", what |-> c, run |-> NoCall, old |-> old])
    /\ UNCHANGED <<runs, usage, zones, avail, spare, held>>

\* The rt_page_alloc; without pages rt_malloc returns RT_NULL.
TakePages(t) ==
    /\ InCall(t, "pages")
    /\ IF Fits(ZonePages) = {} THEN Goto(t, NoCall) /\ UNCHANGED runs
       ELSE LET i == FirstFit(ZonePages)
            IN  /\ runs' = Taken(i, ZonePages)
                /\ Goto(t, [call[t] EXCEPT !.at = "zone",
                               !.run = [page |-> runs[i].page, n |-> ZonePages]])
    /\ UNCHANGED <<usage, zones, avail, spare, held>>

NewZone(t) ==
    /\ InCall(t, "zone")
    /\ LET z == call[t].run.page
       IN  /\ usage' = [x \in Pages |-> IF x \in z..z + ZonePages - 1
                                        THEN [type |-> "small", size |-> x - z] ELSE usage[x]]
           /\ Made(t, z, call[t].what, call[t].old)
    /\ UNCHANGED <<runs, spare>>

Obtain(t, what, old) ==
    \/ what \in PageCounts /\ MallocLarge(t, what, old)
    \/ what \in Classes /\ (MallocChunk(t, what, old) \/ MallocSpare(t, what, old)
                            \/ MallocZone(t, what, old))

Malloc(t, what) == Outside(t) /\ Obtain(t, what, NoCall)

-----------------------------------------------------------------------------
(* rt_free and rt_realloc                                                   *)

Gone(t, p, r) ==
    /\ held' = [x \in DOMAIN held \ {p} |-> held[x]]
    /\ Goto(t, IF r = NoCall THEN NoCall
               ELSE [at |-> "release", what |-> NoCall, run |-> r, old |-> NoCall])

FreeLarge(t, p) ==
    /\ usage[p.page].type = "large"
    /\ usage' = [usage EXCEPT ![p.page].size = 0]
    /\ Gone(t, p, [page |-> p.page, n |-> usage[p.page].size])
    /\ UNCHANGED <<runs, zones, avail, spare>>

\* The zone, found by memusage, gets its chunk back and is put on its list if
\* it was full.  If all its chunks are free and it is not the only zone on the
\* list it becomes a spare one, and then the Threshold bounds the spare ones:
\* the same zone, which was put on their list last, goes back to the pages.
FreeChunk(t, p) ==
    LET z == p.page - usage[p.page].size
        h == [zones[z] EXCEPT !.nfree = @ + 1, !.free = <<p.chunk>> \o @]
        list == IF h.nfree = 1 THEN <<z>> \o avail[h.class] ELSE avail[h.class]
        whole == h.nfree = Chunks[h.class] /\ Len(list) > 1
        extra == whole /\ Len(spare) = Threshold
    IN  /\ usage[p.page].type # "large"
        /\ avail' = [avail EXCEPT ![h.class] =
                        IF whole THEN RemoveFirst(list, z) ELSE list]
        /\ zones' = IF whole THEN [x \in DOMAIN zones \ {z} |-> zones[x]]
                    ELSE [zones EXCEPT ![z] = h]
        /\ spare' = IF whole /\ ~extra THEN <<z>> \o spare ELSE spare
        /\ usage' = IF ~extra THEN usage
                    ELSE [x \in Pages |-> IF x \in z..z + ZonePages - 1
                                          THEN [type |-> "free", size |-> 0] ELSE usage[x]]
        /\ Gone(t, p, IF extra THEN [page |-> z, n |-> ZonePages] ELSE NoCall)
        /\ UNCHANGED runs

Dispose(t, p) == FreeLarge(t, p) \/ FreeChunk(t, p)

\* A block that another thread is moving is not its caller's to free or move.
Moving == {call[t].old : t \in {u \in Threads : call[u] # NoCall}}

Free(t, p) == Outside(t) /\ p \in DOMAIN held \ Moving /\ Dispose(t, p)

\* The rt_page_free at the end of rt_free.
Release(t) ==
    /\ InCall(t, "release")
    /\ runs' = Returned(call[t].run)
    /\ Goto(t, NoCall)
    /\ UNCHANGED <<usage, zones, avail, spare, held>>

\* rt_realloc keeps a chunk of the right class, and moves everything else.
Realloc(t, p, what) ==
    /\ Outside(t) /\ p \in DOMAIN held \ Moving
    /\ what = held[p] => usage[p.page].type = "large"
    /\ Obtain(t, what, p)

ReallocFree(t) == InCall(t, "free") /\ Dispose(t, call[t].old)

-----------------------------------------------------------------------------
\* rt_system_heap_init; what memusage holds before a page is given nobody reads.
Init ==
    /\ runs = <<[page |-> 1, n |-> LastPage]>>
    /\ usage = [p \in Pages |-> [type |-> "free", size |-> 0]]
    /\ zones = <<>> /\ avail = [c \in Classes |-> <<>>] /\ spare = <<>>
    /\ held = <<>> /\ call = [t \in Threads |-> NoCall]

Next ==
    \E t \in Threads :
        \/ TakePages(t) \/ NewZone(t) \/ Release(t) \/ ReallocFree(t)
        \/ \E what \in Classes \union PageCounts :
              Malloc(t, what) \/ \E p \in DOMAIN held : Realloc(t, p, what)
        \/ \E p \in DOMAIN held : Free(t, p)

Spec == Init /\ [][Next]_vars
-----------------------------------------------------------------------------
(* Properties                                                               *)

\* Who has pages: the list, the zones, the callers and the calls.
Area(p, n) == p..p + n - 1
Holders ==
    {Area(r.page, r.n) : r \in Range(runs)}
    \union {Area(z, ZonePages) : z \in DOMAIN zones \union Range(spare)}
    \union {Area(p.page, held[p]) : p \in {x \in DOMAIN held : held[x] \in PageCounts}}
    \union {Area(call[t].run.page, call[t].run.n) :
               t \in {u \in Threads : call[u] # NoCall /\ call[u].run # NoCall}}

\* After any calls, in any order: every page has one holder, two free runs never
\* touch, and memusage leads from every page of a zone to the zone.
Tiled ==
    /\ TypeOK
    /\ UNION Holders = Pages
    /\ \A a, b \in Holders : a = b \/ a \intersect b = {}
    /\ \A i, j \in DOMAIN runs : i < j => runs[i].page + runs[i].n < runs[j].page
    /\ \A z \in DOMAIN zones \union Range(spare) : \A p \in Area(z, ZonePages) :
          usage[p] = [type |-> "small", size |-> p - z]

\* A chunk of a zone was never given, is free again, or has one owner, who asked
\* for its class; z_nfree counts the first two, and the zones for which it is not
\* 0 are on the list of their class.
OwnedOnce ==
    /\ \A z \in DOMAIN zones :
          LET h == zones[z]
              fresh == h.uindex + 1..Chunks[h.class] - 1
              owned == {i \in 0..Chunks[h.class] - 1 : Pointer(z, h.class, i) \in DOMAIN held}
          IN  /\ IsInjective(h.free)
              /\ fresh \intersect Range(h.free) = {}
              /\ owned = (0..Chunks[h.class] - 1) \ (fresh \union Range(h.free))
              /\ \A i \in owned : held[Pointer(z, h.class, i)] = h.class
              /\ h.nfree = Cardinality(fresh) + Len(h.free)
              /\ h.nfree > 0 <=> z \in Range(avail[h.class])
    /\ \A c \in Classes : IsInjective(avail[c]) /\ \A z \in Range(avail[c]) : zones[z].class = c
    /\ \A p \in DOMAIN held : held[p] \in PageCounts =>
          usage[p.page] = [type |-> "large", size |-> held[p]]

\* Once everything is freed a class keeps one zone at most, and the rest went
\* back to the pages but for the spare ones.
Recovered ==
    /\ Len(spare) =< Threshold
    /\ held = <<>> /\ (\A t \in Threads : Outside(t)) => \A c \in Classes : Len(avail[c]) =< 1
=============================================================================
