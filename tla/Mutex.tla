------------------------------- MODULE Mutex -------------------------------
(***************************************************************************)
(* Mutexes with priority inheritance: rt_mutex_take, rt_mutex_release and  *)
(* rt_mutex_delete of ipc.c, on the thread lists of ThreadQueues.          *)
(*                                                                         *)
(* A step is an interrupt-free section with the rt_schedule that follows   *)
(* it: an interrupt between the two ends with an rt_schedule of its own,   *)
(* after which the later one changes nothing.  Scheduler shows that the    *)
(* thread on the processor is rt_current_thread whenever it executes, so   *)
(* one variable stands for both here.  What a call still does with a mutex *)
(* that was deleted is undefined, and not modelled.                        *)
(***************************************************************************)
EXTENDS ThreadQueues

CONSTANTS Idle,      \* the idle thread
          NoObject,  \* waits for no mutex
          Base,      \* [Threads -> Prios], the priority a thread was made with
          Ordered,   \* the mutexes made with RT_IPC_FLAG_PRIO
          MaxHold,   \* BOUND: how deep a thread nests takes of one mutex
          Calls      \* [Threads -> the calls its code makes]

CallNames == {"try", "take", "timed take", "release", "delete", "delay"}
Mutexes == Objects

ASSUME MutexAssumption ==
    /\ IsFiniteSet(Threads) /\ Idle \in Threads /\ NoObject \notin Objects
    /\ Base \in [Threads -> Prios]
    /\ Base[Idle] = MaxPrio /\ \A t \in Threads \ {Idle} : Base[t] < MaxPrio
    /\ Ordered \subseteq Objects
    /\ MaxHold \in Nat \ {0}
    /\ Calls \in [Threads -> SUBSET CallNames] /\ Calls[Idle] = {}

VARIABLES
    q,        \* the thread lists
    current,  \* rt_current_thread
    owner,    \* mutex->owner
    value,    \* mutex->value
    hold,     \* mutex->hold
    orig,     \* mutex->original_priority
    armed,    \* the threads whose thread_timer is active
    err,      \* thread->error, of a thread inside rt_mutex_take
    want,     \* the mutex such a thread waits for, NoObject outside
    life,     \* how far rt_mutex_delete is with a mutex; "wild" when it took
              \* the list head for a thread, and anything may follow
    by,       \* the thread that deletes it
    took      \* what return values told a thread: takes that succeeded and
              \* that it has not released

mutexes == <<owner, value, hold, orig>>
deletion == <<life, by>>
vars == <<q, current, mutexes, armed, err, want, deletion, took>>

NoPrio == MaxPrio + 1     \* original_priority of a free mutex, 0xff

TypeOK == /\ q \in Queues
          /\ current \in Threads
          /\ owner \in [Mutexes -> Threads \union {NoThread}]
          /\ value \in [Mutexes -> {0, 1}]
          /\ hold \in [Mutexes -> 0..MaxHold]
          /\ orig \in [Mutexes -> Prios \union {NoPrio}]
          /\ armed \subseteq Threads
          /\ err \in [Threads -> {"ok", "timeout", "error"}]
          /\ want \in [Threads -> Mutexes \union {NoObject}]
          /\ life \in [Mutexes -> {"live", "check", "take", "gone", "wild"}]
          /\ by \in [Mutexes -> Threads \union {NoThread}]
          /\ took \in [Threads -> [Mutexes -> 0..MaxHold]]

-----------------------------------------------------------------------------
Tame == \A m \in Mutexes : life[m] # "wild"
Deletes(t) == \E m \in Mutexes : by[m] = t /\ life[m] \in {"check", "take"}
Runs(t) == Tame /\ current = t /\ want[t] = NoObject /\ ~Deletes(t)
Schedule == current' = NextThread(q')

\* rt_mutex_take returns RT_EOK to t.
Took(t, m) == took' = [took EXCEPT ![t][m] = @ + 1]

\* rt_mutex_take of a free mutex
TakeFree(t, m) ==
    /\ Runs(t) /\ life[m] = "live" /\ owner[m] # t /\ value[m] > 0
    /\ value' = [value EXCEPT ![m] = @ - 1]
    /\ owner' = [owner EXCEPT ![m] = t]
    /\ orig' = [orig EXCEPT ![m] = q.prio[t]]
    /\ hold' = [hold EXCEPT ![m] = @ + 1]
    /\ Took(t, m)
    /\ UNCHANGED <<q, current, armed, err, want, deletion>>

\* ... of one it owns
TakeAgain(t, m) ==
    /\ Runs(t) /\ life[m] = "live" /\ owner[m] = t /\ hold[m] < MaxHold
    /\ hold' = [hold EXCEPT ![m] = @ + 1]
    /\ Took(t, m)
    /\ UNCHANGED <<q, current, owner, value, orig, armed, err, want, deletion>>

\* Mutations of Wait and Boosted: the flag is ignored; nobody inherits.
WaitInOrder(r, m, t) == WaitFifo(r, m, t)
BoostedNot(r, t, u) == r

\* rt_ipc_list_suspend with the flag of mutex m
Wait(r, m, t) == IF m \in Ordered THEN WaitPrio(r, m, t) ELSE WaitFifo(r, m, t)

\* The owner u of a mutex that t is about to wait for inherits t's priority.
Boosted(r, t, u) ==
    IF r.prio[t] < r.prio[u] THEN Reprioritised(r, u, r.prio[t]) ELSE r

\* ... of one somebody else owns: the thread waits.  With time = 0 it does not,
\* the call fails; so does the release of a mutex by a thread that is not its
\* owner.  Neither changes anything but thread->error, which every call that
\* waits sets first.
TakeWait(t, m, timed) ==
    /\ Runs(t) /\ life[m] = "live" /\ owner[m] # t /\ value[m] = 0
    /\ q' = Wait(Boosted(q, t, owner[m]), m, t)
    /\ armed' = IF timed THEN armed \union {t} ELSE armed \ {t}
    /\ err' = [err EXCEPT ![t] = "ok"]
    /\ want' = [want EXCEPT ![t] = m]
    /\ Schedule
    /\ UNCHANGED <<owner, value, hold, orig, took, deletion>>

\* ... and, once it runs again, tells its caller what thread->error says.
TakeReturn(t) ==
    /\ Tame /\ current = t /\ want[t] # NoObject
    /\ IF err[t] = "ok" THEN Took(t, want[t]) ELSE UNCHANGED took
    /\ want' = [want EXCEPT ![t] = NoObject]
    /\ UNCHANGED <<q, current, owner, value, hold, orig, armed, err, deletion>>

\* rt_mutex_release by the owner, not the last one
ReleaseNested(t, m) ==
    /\ Runs(t) /\ life[m] # "gone" /\ owner[m] = t /\ hold[m] > 1
    /\ hold' = [hold EXCEPT ![m] = @ - 1]
    /\ took' = [took EXCEPT ![t][m] = @ - 1]
    /\ UNCHANGED <<q, current, owner, value, orig, armed, err, want, deletion>>

\* Mutation of Restored: the owner keeps what it inherited.
RestoredNot(r, t, m) == r

\* The owner t gets the priority back that it had when it took m.
Restored(r, t, m) ==
    IF orig[m] # r.prio[t] THEN Reprioritised(r, t, orig[m]) ELSE r

\* Mutation of HandOver: no rt_schedule.
HandOverQuiet(t, m) ==
    LET r == Restored(q, t, m)
        u == Head(r.wait[m])
    IN  /\ owner' = [owner EXCEPT ![m] = u]
        /\ orig' = [orig EXCEPT ![m] = r.prio[u]]
        /\ q' = Resumed(r, u)
        /\ armed' = armed \ {u}
        /\ UNCHANGED <<current, value, hold>>

\* Another: the timer of the new owner goes on.
HandOverTimerOn(t, m) ==
    LET r == Restored(q, t, m)
        u == Head(r.wait[m])
    IN  /\ owner' = [owner EXCEPT ![m] = u]
        /\ orig' = [orig EXCEPT ![m] = r.prio[u]]
        /\ q' = Resumed(r, u)
        /\ Schedule
        /\ UNCHANGED <<value, hold, armed>>

\* The last release gives the mutex to the first waiter; hold goes to 0 and,
\* for the new owner, back to 1; ...
HandOver(t, m) ==
    LET r == Restored(q, t, m)
        u == Head(r.wait[m])
    IN  /\ owner' = [owner EXCEPT ![m] = u]
        /\ orig' = [orig EXCEPT ![m] = r.prio[u]]
        /\ q' = Resumed(r, u)
        /\ armed' = armed \ {u}
        /\ Schedule
        /\ UNCHANGED <<value, hold>>

\* Mutation of SetFree: the hold count is left.
SetFreeHeld(t, m) ==
    /\ q' = Restored(q, t, m)
    /\ value' = [value EXCEPT ![m] = @ + 1]
    /\ owner' = [owner EXCEPT ![m] = NoThread]
    /\ orig' = [orig EXCEPT ![m] = NoPrio]
    /\ UNCHANGED <<current, armed, hold>>

\* ... without one it is free, and nothing calls rt_schedule, whatever
\* priority t is left with.
SetFree(t, m) ==
    /\ q' = Restored(q, t, m)
    /\ hold' = [hold EXCEPT ![m] = 0]
    /\ value' = [value EXCEPT ![m] = @ + 1]
    /\ owner' = [owner EXCEPT ![m] = NoThread]
    /\ orig' = [orig EXCEPT ![m] = NoPrio]
    /\ UNCHANGED <<current, armed>>

ReleaseLast(t, m) ==
    /\ Runs(t) /\ life[m] # "gone" /\ owner[m] = t /\ hold[m] = 1
    /\ IF q.wait[m] # <<>> THEN HandOver(t, m) ELSE SetFree(t, m)
    /\ took' = [took EXCEPT ![t][m] = @ - 1]
    /\ UNCHANGED <<err, want, deletion>>

\* rt_mutex_delete and rt_mutex_detach; nobody takes a mutex that is being
\* deleted, but its owner may release it.  rt_ipc_list_resume_all looks whether
\* anybody waits with interrupts enabled, ...
DeleteCheck(t, m) ==
    /\ \/ life[m] = "live" /\ Runs(t) /\ "delete" \in Calls[t]
       \/ life[m] = "check" /\ by[m] = t /\ current = t
    /\ Tame
    /\ life' = [life EXCEPT ![m] = IF q.wait[m] = <<>> THEN "gone" ELSE "take"]
    /\ by' = [by EXCEPT ![m] = t]
    /\ UNCHANGED <<q, current, mutexes, armed, err, want, took>>

\* ... and wakes the first of the list, or what it takes for one, with interrupts
\* disabled.  Nothing calls rt_schedule, and the owner keeps what it inherited.
DeleteTake(t, m) ==
    /\ Tame /\ life[m] = "take" /\ by[m] = t /\ current = t
    /\ IF q.wait[m] = <<>>
       THEN life' = [life EXCEPT ![m] = "wild"] /\ UNCHANGED <<q, armed, err>>
       ELSE LET u == Head(q.wait[m])
            IN  /\ q' = Resumed(q, u)
                /\ armed' = armed \ {u}
                /\ err' = [err EXCEPT ![u] = "error"]
                /\ life' = [life EXCEPT ![m] = "check"]
    /\ UNCHANGED <<current, mutexes, want, by, took>>

\* rt_thread_delay: any other call in which a thread waits
Delay(t) ==
    /\ Runs(t)
    /\ q' = Suspended(q, t)
    /\ armed' = armed \union {t}
    /\ Schedule
    /\ UNCHANGED <<mutexes, err, want, took, deletion>>

\* rt_thread_timeout, from the tick interrupt
Timeout(u) ==
    /\ Tame /\ u \in armed
    /\ q' = InsertThread(Unlinked(q, u), u)
    /\ armed' = armed \ {u}
    /\ err' = [err EXCEPT ![u] = "timeout"]
    /\ Schedule
    /\ UNCHANGED <<mutexes, want, took, deletion>>

\* rt_thread_yield at the end of a slice, from the tick interrupt
SliceEnds ==
    LET p == q.prio[current]
    IN  /\ Tame /\ Len(q.ready[p]) > 1
        /\ q' = [q EXCEPT !.ready[p] = Append(Unlink(q.ready[p], current), current)]
        /\ Schedule
        /\ UNCHANGED <<mutexes, armed, err, want, took, deletion>>

-----------------------------------------------------------------------------
\* All threads were started and nobody took a mutex yet.
Init ==
    /\ q = [stat    |-> [t \in Threads |-> "ready"],
            prio    |-> Base,
            ready   |-> [p \in Prios |-> SetToSeq({t \in Threads : Base[t] = p})],
            group   |-> {Base[t] : t \in Threads},
            wait    |-> [m \in Mutexes |-> <<>>],
            defunct |-> <<>>]
    /\ current = NextThread(q)
    /\ owner = [m \in Mutexes |-> NoThread]
    /\ value = [m \in Mutexes |-> 1]
    /\ hold = [m \in Mutexes |-> 0]
    /\ orig = [m \in Mutexes |-> NoPrio]
    /\ armed = {}
    /\ err = [t \in Threads |-> "ok"]
    /\ want = [t \in Threads |-> NoObject]
    /\ life = [m \in Mutexes |-> "live"]
    /\ by = [m \in Mutexes |-> NoThread]
    /\ took = [t \in Threads |-> [m \in Mutexes |-> 0]]

Take(t, m) ==
    \/ Calls[t] \intersect {"try", "take", "timed take"} # {} /\ (TakeFree(t, m) \/ TakeAgain(t, m))
    \/ "take" \in Calls[t] /\ TakeWait(t, m, FALSE)
    \/ "timed take" \in Calls[t] /\ TakeWait(t, m, TRUE)

Release(t, m) == "release" \in Calls[t] /\ (ReleaseNested(t, m) \/ ReleaseLast(t, m))

Next ==
    \/ \E t \in Threads : \/ \E m \in Mutexes : \/ Take(t, m) \/ Release(t, m)
                                                 \/ DeleteCheck(t, m) \/ DeleteTake(t, m)
                          \/ TakeReturn(t)
                          \/ "delay" \in Calls[t] /\ Delay(t)
                          \/ Timeout(t)
    \/ SliceEnds

Spec == Init /\ [][Next]_vars

\* Time passes, kernel code runs to its end, and a thread that owns a mutex
\* and gets the processor again and again comes to the end of what it does
\* with it: it makes the releases of its nested takes and then the last one.
\* Nothing else is assumed: a thread may compute forever.
Fairness ==
    \A t \in Threads : /\ WF_vars(Timeout(t)) /\ SF_vars(TakeReturn(t))
                       /\ \A m \in Mutexes :
                             /\ SF_vars(Release(t, m))
                             /\ SF_vars(Release(t, m) /\ hold[m] = 1)

FairSpec == Spec /\ Fairness
-----------------------------------------------------------------------------
(* Properties                                                               *)

\* Mutual exclusion, as callers see it: a thread whose takes succeeded more
\* often than it released is the owner, as often as mutex->hold says, and no
\* return value was wrong.  The one other owner there can be was handed the
\* mutex by rt_mutex_release and has not run since.
OwnerAgrees ==
    \A m \in Mutexes : \A t \in Threads :
        LET handed == want[t] = m /\ err[t] = "ok" /\ q.stat[t] = "ready"
            times  == took[t][m] + (IF handed THEN 1 ELSE 0)
        IN  /\ (owner[m] = t) <=> (times > 0)
            /\ owner[m] = t => hold[m] = times

\* No lost wake-up: a mutex that nobody owns has value 1, is held by nobody
\* and has no waiters; one that is owned has value 0; nobody stays suspended on
\* one that is deleted.  TypeOK is part of it.
FreeWithoutWaiters ==
    /\ TypeOK
    /\ \A m \in Mutexes :
          /\ IF owner[m] = NoThread THEN value[m] = 1 /\ hold[m] = 0 /\ q.wait[m] = <<>>
                                    ELSE value[m] = 0 /\ hold[m] > 0
          /\ life[m] = "gone" => q.wait[m] = <<>>

\* Priority inheritance: an owner is at least as urgent as any of its
\* waiters, also right after the mutex was handed over.
Inherits ==
    \A m \in Mutexes : \A t \in Range(q.wait[m]) : q.prio[owner[m]] =< q.prio[t]

\* "change the owner thread to original priority": a thread that owns no mutex
\* runs at the priority it was made with.
RestoredAll ==
    \A t \in Threads : (\A m \in Mutexes : owner[m] # t) => q.prio[t] = Base[t]

\* rt_mutex_release calls rt_schedule only when it wakes a waiter, and
\* rt_mutex_delete never does.  The running thread is not the most urgent ready
\* one only after a release that wakes nobody and takes from it the priority
\* of a waiter that timed out, or after it woke waiters to delete a mutex; it
\* goes on until something else reschedules.
LateOnlyAfterRestore ==
    [][current = NextThread(q) /\ current' # NextThread(q') =>
          /\ current' = current
          /\ \/ /\ q'.stat = q.stat /\ q.prio[current] < q'.prio[current]
                /\ \E m \in Mutexes : owner[m] = current /\ owner'[m] = NoThread
             \/ \E m \in Mutexes : life[m] = "take" /\ by[m] = current]_vars

\* No unbounded inversion: a thread of the highest priority that waits for a
\* mutex without a timeout gets it, unless the mutex is deleted, although
\* threads more urgent than the owner never give the processor up.
WaiterServed ==
    \A t \in Threads : \A m \in Mutexes :
        (Base[t] = 0 /\ t \in Range(q.wait[m]) \ armed) ~> (owner[m] = t \/ life[m] # "live")
=============================================================================
