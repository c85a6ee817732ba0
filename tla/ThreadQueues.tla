---------------------------- MODULE ThreadQueues ----------------------------
(***************************************************************************)
(* The lists a thread control block can be on, as values.                  *)
(*                                                                         *)
(* A thread has ONE list node, thread->tlist.  It links the thread into    *)
(* the ready list of its priority (rt_thread_priority_table), into the     *)
(* suspend list of an IPC object, into rt_thread_defunct, or into nothing. *)
(* rt_list_remove takes the node off whatever list it is on; the insert    *)
(* routines do not look whether it is linked already.                      *)
(*                                                                         *)
(* A value q of Queues holds those lists with the two fields of the thread *)
(* the kernel keeps beside them (stat, current_priority) and the bitmap of *)
(* non-empty ready lists, so that an atomic section of the code that calls *)
(* several of these routines is their composition.                         *)
(***************************************************************************)
EXTENDS Integers, SequencesExt

CONSTANTS Threads,   \* the thread control blocks
          MaxPrio,   \* the lowest priority, RT_THREAD_PRIORITY_MAX - 1
          Objects,   \* the suspend lists of IPC objects
          NoThread   \* a pointer that is no thread (RT_NULL, or a list head)

ASSUME QueueAssumption == MaxPrio \in Nat /\ NoThread \notin Threads

Prios == 0..MaxPrio
Stats == {"init", "ready", "suspend", "close"}

Queues == [stat    : [Threads -> Stats],
           prio    : [Threads -> Prios],
           ready   : [Prios -> Seq(Threads)],
           group   : SUBSET Prios,
           wait    : [Objects -> Seq(Threads)],
           defunct : Seq(Threads)]

\* Where t is in list l; meaningful when t is on l.
IndexOf(l, t) == CHOOSE i \in DOMAIN l : l[i] = t

\* rt_list_remove(&t->tlist), seen from one list.
Unlink(l, t) == IF t \in Range(l) THEN RemoveAt(l, IndexOf(l, t)) ELSE l

\* rt_list_remove(&t->tlist), seen from all of them.
Unlinked(q, t) ==
    [q EXCEPT !.ready   = [p \in Prios |-> Unlink(q.ready[p], t)],
              !.wait    = [o \in Objects |-> Unlink(q.wait[o], t)],
              !.defunct = Unlink(q.defunct, t)]

\* rt_schedule_insert_thread
InsertThread(q, t) ==
    LET p == q.prio[t] IN
    [q EXCEPT !.stat[t]  = "ready",
              !.ready[p] = Append(q.ready[p], t),
              !.group    = q.group \union {p}]

\* Mutations of RemoveThread: the bit is always cleared, or never.
RemoveThreadClears(q, t) == [Unlinked(q, t) EXCEPT !.group = q.group \ {q.prio[t]}]
RemoveThreadKeeps(q, t) == Unlinked(q, t)

\* rt_schedule_remove_thread: the bit is cleared when the list of the
\* thread's priority is empty, whatever list the thread was on.
RemoveThread(q, t) ==
    LET r == Unlinked(q, t)
        p == q.prio[t]
    IN  [r EXCEPT !.group = IF r.ready[p] = <<>> THEN q.group \ {p} ELSE q.group]

\* The section of rt_thread_suspend behind its status check.
Suspended(q, t) == RemoveThread([q EXCEPT !.stat[t] = "suspend"], t)

\* rt_thread_resume with interrupts off all along, as the IPC code calls it.
Resumed(q, t) ==
    IF q.stat[t] = "suspend" THEN InsertThread(Unlinked(q, t), t) ELSE q

\* Mutation of Reprioritised: a ready thread stays on its old list.
ReprioritisedInPlace(q, t, p) == [q EXCEPT !.prio[t] = p]

\* The section of rt_thread_control that changes a priority.
Reprioritised(q, t, p) ==
    IF q.stat[t] = "ready"
    THEN InsertThread([RemoveThread(q, t) EXCEPT !.prio[t] = p], t)
    ELSE [q EXCEPT !.prio[t] = p]

\* rt_ipc_list_suspend with RT_IPC_FLAG_FIFO, on the list of object o.
WaitFifo(q, o, t) ==
    LET s == IF q.stat[t] = "ready" THEN Suspended(q, t) ELSE q
    IN  [s EXCEPT !.wait[o] = Append(s.wait[o], t)]

\* rt_ipc_list_suspend with RT_IPC_FLAG_PRIO: before the first waiter that is
\* less urgent than t, as it finds the list (it never sorts it).
WaitPrio(q, o, t) ==
    LET s    == IF q.stat[t] = "ready" THEN Suspended(q, t) ELSE q
        l    == s.wait[o]
        less == {i \in DOMAIN l : s.prio[t] < s.prio[l[i]]}
        at   == IF less = {} THEN Len(l) + 1 ELSE Min(less)
    IN  [s EXCEPT !.wait[o] = InsertAt(l, at, t)]

\* __rt_ffs(rt_thread_ready_priority_group) - 1, for a non-empty bitmap.
Highest(q) == CHOOSE p \in q.group : \A r \in q.group : p =< r

\* The thread rt_schedule picks: the first of the highest list.  On an empty
\* list, rt_list_entry makes a thread pointer out of the list head.
NextThread(q) ==
    IF q.group = {} \/ q.ready[Highest(q)] = <<>>
    THEN NoThread ELSE Head(q.ready[Highest(q)])

-----------------------------------------------------------------------------
(* State formulae over these lists, used by the modules that keep one.      *)

Distinct(l) == \A i, j \in DOMAIN l : l[i] = l[j] => i = j

\* Every list is free of repetitions and holds only threads that belong
\* there: by priority and status, blocked threads, dead threads.
ListsSound(q) ==
    /\ \A p \in Prios : /\ Distinct(q.ready[p])
                        /\ \A t \in Range(q.ready[p]) :
                              q.stat[t] = "ready" /\ q.prio[t] = p
    /\ \A o \in Objects : /\ Distinct(q.wait[o])
                          /\ \A t \in Range(q.wait[o]) : q.stat[t] = "suspend"
    /\ \A o1, o2 \in Objects :
          o1 # o2 => Range(q.wait[o1]) \intersect Range(q.wait[o2]) = {}
    /\ Distinct(q.defunct)
    /\ \A t \in Range(q.defunct) : q.stat[t] = "close"

\* A ready thread is on its ready list.
ReadyLinked(q) ==
    \A t \in Threads : q.stat[t] = "ready" => t \in Range(q.ready[q.prio[t]])

\* The bitmap is the set of non-empty ready lists.
GroupExact(q) == \A p \in Prios : p \in q.group <=> q.ready[p] # <<>>

QueuesSound(q) == ListsSound(q) /\ ReadyLinked(q) /\ GroupExact(q)
=============================================================================
