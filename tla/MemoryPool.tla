----------------------------- MODULE MemoryPool -----------------------------
(***************************************************************************)
(* A memory pool of mempool.c: rt_mp_alloc, rt_mp_free and rt_mp_delete.    *)
(*                                                                         *)
(* A waiter that is woken comes back to look at the pool again.  Beside    *)
(* the suspend list the pool counts its waiters, and the count is what     *)
(* rt_mp_free goes by.  Any thread that is not suspended may take the next *)
(* step; a block is freed by whoever has it, handlers included.            *)
(***************************************************************************)
EXTENDS Integers, SequencesExt

CONSTANTS Threads,   \* the threads that use the pool
          Blocks,    \* the blocks between mp->start_address and its end
          MaxPended  \* BOUND: suspend_thread_count

Waits == {"no", "timed", "forever"}   \* time = 0, > 0, < 0

MemoryPoolAssumption == IsFiniteSet(Blocks) /\ Blocks # {} /\ MaxPended \in Nat

VARIABLES
    blockList,  \* the chain that starts at mp->block_list
    freeCount,  \* mp->block_free_count
    given,      \* the blocks the callers have
    waiting,    \* the suspend list
    pended,     \* mp->suspend_thread_count
    armed,      \* the waiters whose thread_timer is active
    err,        \* thread->error of a thread that waits or was woken
    inside,     \* the threads that wait, or were woken and have not looked
    mode,       \* the time they wait with
    again,      \* history: who waits, or waited, again since it began
    phase       \* how far rt_mp_delete is, or "wild": rt_mp_free or rt_mp_delete
                \* took the list head for a thread, and anything may follow

blocks == <<blockList, freeCount, given>>
waits == <<waiting, pended, armed, err>>
vars == <<blocks, waits, inside, mode, again, phase>>

TypeOK ==
    /\ blockList \in Seq(Blocks) /\ given \subseteq Blocks
    /\ freeCount \in 0..Cardinality(Blocks)
    /\ waiting \in Seq(Threads) /\ armed \subseteq Range(waiting)
    /\ pended \in 0..MaxPended
    /\ err \in [Threads -> {"ok", "timeout", "error"}]
    /\ inside \subseteq Threads /\ mode \in [Threads -> Waits]
    /\ again \subseteq Threads
    /\ phase \in {"live", "check", "take", "free", "gone", "wild"}

-----------------------------------------------------------------------------
(* rt_mp_alloc                                                              *)

\* A thread comes to the loop with m of its time left: at the call, and after
\* a wake-up without an error, when some of a timed wait is over.  Nobody calls
\* for a pool that is being deleted.
Left(m) == IF m = "timed" THEN {"no", "timed"} ELSE {m}
Looks(t, m) ==
    /\ phase \notin {"gone", "wild"}
    /\ \/ t \notin inside /\ phase = "live"
       \/ t \in inside \ Range(waiting) /\ err[t] = "ok" /\ m \in Left(mode[t])

\* What a call leaves in thread->error is not looked at again.
Return(t) == /\ inside' = inside \ {t}
             /\ mode' = [mode EXCEPT ![t] = "no"]
             /\ err' = [err EXCEPT ![t] = "ok"]
             /\ UNCHANGED <<waiting, pended, armed>>

Alloc(t, m) ==
    /\ Looks(t, m) /\ freeCount # 0
    /\ freeCount' = freeCount - 1
    /\ blockList' = Tail(blockList)
    /\ given' = given \union {Head(blockList)}
    /\ Return(t)
    /\ UNCHANGED <<again, phase>>

\* Nothing is free and there is no time (left): RT_NULL.
AllocEmpty(t) ==
    /\ Looks(t, "no") /\ t \in inside /\ freeCount = 0
    /\ Return(t)
    /\ UNCHANGED <<blocks, again, phase>>

\* The last to come is linked first.
Wait(t, m) ==
    /\ Looks(t, m) /\ freeCount = 0 /\ m # "no" /\ pended < MaxPended
    /\ waiting' = <<t>> \o waiting
    /\ pended' = pended + 1
    /\ armed' = IF m = "timed" THEN armed \union {t} ELSE armed
    /\ err' = [err EXCEPT ![t] = "ok"]
    /\ inside' = inside \union {t} /\ mode' = [mode EXCEPT ![t] = m]
    /\ again' = IF phase = "live" THEN again ELSE again \union {t}
    /\ UNCHANGED <<blocks, phase>>

\* Woken by its timer, or by rt_mp_delete: RT_NULL.
Fails(t) ==
    /\ t \in inside \ Range(waiting) /\ err[t] # "ok" /\ phase # "wild"
    /\ Return(t)
    /\ UNCHANGED <<blocks, again, phase>>

\* rt_list_remove, of a waiter
Without(l, t) == RemoveAt(l, CHOOSE i \in DOMAIN l : l[i] = t)

\* rt_thread_timeout takes the thread off the list; nobody corrects the count.
Timeout(t) ==
    /\ t \in armed /\ phase \notin {"gone", "wild"}
    /\ armed' = armed \ {t}
    /\ waiting' = Without(waiting, t)
    /\ err' = [err EXCEPT ![t] = "timeout"]
    /\ UNCHANGED <<blocks, pended, inside, mode, again, phase>>

-----------------------------------------------------------------------------
\* The head of the suspend list is resumed with result e; an empty list is its
\* own head, and what lies around it is written to as if it were a thread.
Resume(e, after) ==
    \/ /\ waiting = <<>>
       /\ phase' = "wild" /\ UNCHANGED waits
    \/ /\ waiting # <<>>
       /\ waiting' = Tail(waiting)
       /\ armed' = armed \ {Head(waiting)}
       /\ err' = [err EXCEPT ![Head(waiting)] = e]
       /\ pended' = pended - 1
       /\ phase' = after

\* rt_mp_free, by a thread or a handler
Free(b) ==
    /\ b \in given /\ phase = "live"
    /\ freeCount' = freeCount + 1
    /\ blockList' = <<b>> \o blockList
    /\ given' = given \ {b}
    /\ \/ pended > 0 /\ Resume("ok", "live")
       \/ pended = 0 /\ UNCHANGED <<waits, phase>>
    /\ UNCHANGED <<inside, mode, again>>

\* rt_mp_delete and rt_mp_detach look whether anybody waits with interrupts
\* enabled, and wake the first of the list with interrupts disabled.
DeleteCheck ==
    /\ phase \in {"live", "check"}
    /\ phase' = IF waiting = <<>> THEN "free" ELSE "take"
    /\ UNCHANGED <<blocks, waits, inside, mode, again>>

DeleteTake ==
    /\ phase = "take"
    /\ Resume("error", "check")
    /\ UNCHANGED <<blocks, inside, mode, again>>

\* The pool is freed.
Delete ==
    /\ phase = "free" /\ phase' = "gone"
    /\ UNCHANGED <<blocks, waits, inside, mode, again>>

\* rt_mp_create, rt_mp_init
Init ==
    /\ blockList = SetToSeq(Blocks) /\ given = {}
    /\ freeCount = Cardinality(Blocks)
    /\ waiting = <<>> /\ pended = 0 /\ armed = {} /\ inside = {}
    /\ err = [t \in Threads |-> "ok"] /\ mode = [t \in Threads |-> "no"]
    /\ phase = "live" /\ again = {}

Next ==
    \/ \E t \in Threads : \/ AllocEmpty(t) \/ Fails(t) \/ Timeout(t)
                          \/ \E m \in Waits : Alloc(t, m) \/ Wait(t, m)
    \/ \E b \in Blocks : Free(b)
    \/ DeleteCheck \/ DeleteTake \/ Delete

Spec == Init /\ [][Next]_vars
-----------------------------------------------------------------------------
(* Properties                                                               *)

\* Every block is on the free list or with one caller, and is counted.
BlocksPartitioned ==
    /\ TypeOK
    /\ IsInjective(blockList) /\ freeCount = Len(blockList)
    /\ Range(blockList) \intersect given = {}
    /\ Range(blockList) \union given = Blocks

\* No lost wake-up: while a thread is suspended on a pool in use there are at
\* most as many free blocks as threads on their way to one, and rt_mp_free will
\* find the count of waiters above 0.
NobodyForgotten ==
    phase = "live" /\ waiting # <<>> =>
        /\ freeCount =< Cardinality({t \in inside \ Range(waiting) : err[t] = "ok"})
        /\ pended > 0

\* Nobody stays suspended on a pool that is freed but who had been woken for a
\* block, came too late for it, and waited again meanwhile.
NobodyLeft == phase = "gone" => Range(waiting) \subseteq again

\* "numbers of thread pended on this resource" (rtdef.h): suspend_thread_count
\* is the length of the suspend list.
PendedCounted == pended = Len(waiting)
=============================================================================
