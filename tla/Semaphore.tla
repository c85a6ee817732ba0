----------------------------- MODULE Semaphore -----------------------------
(***************************************************************************)
(* A semaphore of ipc.c: rt_sem_take, rt_sem_release, rt_sem_control and    *)
(* rt_sem_delete.                                                          *)
(*                                                                         *)
(* Every call is one interrupt-free section; a thread that waited comes    *)
(* back to look at thread->error and at nothing else, so the unit it waits *)
(* for is given to it by the release that wakes it.  Any thread that is    *)
(* not suspended may take the next step, and an interrupt handler may      *)
(* release at any time (USART2_IRQHandler does).                           *)
(***************************************************************************)
EXTENDS Integers, SequencesExt

CONSTANTS Threads,    \* the threads that use the semaphore
          Width,      \* 2^16: sem->value is an rt_uint16_t
          Initial,    \* the value it is made with
          Ordered,    \* made with RT_IPC_FLAG_PRIO
          Prio,       \* [Threads -> Nat], thread->current_priority
          MaxBalance  \* BOUND: units released and not taken

SemaphoreAssumption ==
    /\ Width \in Nat \ {0} /\ Initial \in 0..Width - 1
    /\ Ordered \in BOOLEAN /\ Prio \in [Threads -> Nat]
    /\ MaxBalance \in Nat

VARIABLES
    value,    \* sem->value
    waiting,  \* the suspend list
    armed,    \* the waiters whose thread_timer is active
    err,      \* thread->error of a thread that waits or was woken
    inside,   \* the threads that wait, or were woken and have not returned
    phase,    \* how far rt_sem_delete is
    balance   \* units the callers may still take: those the semaphore was
              \* made with or reset to, plus releases, minus successful takes

vars == <<value, waiting, armed, err, inside, phase, balance>>

TypeOK == /\ value \in 0..Width - 1
          /\ waiting \in Seq(Threads) /\ armed \subseteq Range(waiting)
          /\ err \in [Threads -> {"ok", "timeout", "error"}]
          /\ inside \subseteq Threads
          /\ phase \in {"live", "check", "take", "gone", "wild"}
          /\ balance \in Int

-----------------------------------------------------------------------------
\* Mutation of Enlisted: the flag is ignored.
EnlistedLast(l, t) == Append(l, t)

\* rt_ipc_list_suspend
Enlisted(l, t) ==
    LET less == {i \in DOMAIN l : Ordered /\ Prio[t] < Prio[l[i]]}
    IN  InsertAt(l, IF less = {} THEN Len(l) + 1 ELSE Min(less), t)

\* Nobody calls for a semaphore that is being deleted but handlers; when the
\* deletion has taken the list head for a thread, anything may follow.
Outside(t) == phase = "live" /\ t \notin inside
Usable == phase \in {"live", "check", "take"}

\* rt_sem_take, and rt_sem_trytake; with no unit and time = 0 it only fails.
Take(t) ==
    /\ Outside(t) /\ value > 0
    /\ value' = value - 1
    /\ balance' = balance - 1
    /\ UNCHANGED <<waiting, armed, err, inside, phase>>

Wait(t, timed) ==
    /\ Outside(t) /\ value = 0
    /\ waiting' = Enlisted(waiting, t)
    /\ armed' = IF timed THEN armed \union {t} ELSE armed
    /\ err' = [err EXCEPT ![t] = "ok"]
    /\ inside' = inside \union {t}
    /\ UNCHANGED <<value, phase, balance>>

\* A thread that waited runs again: rt_sem_take succeeded unless the timer or
\* a reset woke it.
Return(t) ==
    /\ t \in inside /\ t \notin Range(waiting) /\ phase # "wild"
    /\ inside' = inside \ {t}
    /\ balance' = IF err[t] = "ok" THEN balance - 1 ELSE balance
    /\ UNCHANGED <<value, waiting, armed, err, phase>>

\* Mutation of Release: the unit is counted and a waiter is woken for it, too.
ReleaseTwice ==
    /\ Usable /\ balance < MaxBalance
    /\ IF waiting = <<>> THEN UNCHANGED <<waiting, armed>>
       ELSE /\ waiting' = Tail(waiting)
            /\ armed' = armed \ {Head(waiting)}
    /\ value' = (value + 1) % Width
    /\ balance' = balance + 1
    /\ UNCHANGED <<err, inside, phase>>

\* rt_sem_release, by a thread or an interrupt handler.  The count wraps.
Release ==
    /\ Usable /\ balance < MaxBalance
    /\ IF waiting = <<>>
       THEN value' = (value + 1) % Width /\ UNCHANGED <<waiting, armed>>
       ELSE /\ waiting' = Tail(waiting)
            /\ armed' = armed \ {Head(waiting)}
            /\ UNCHANGED value
    /\ balance' = balance + 1
    /\ UNCHANGED <<err, inside, phase>>

\* rt_list_remove, of a waiter
Without(l, t) == RemoveAt(l, CHOOSE i \in DOMAIN l : l[i] = t)

\* rt_thread_timeout
Timeout(t) ==
    /\ t \in armed /\ phase # "wild"
    /\ armed' = armed \ {t}
    /\ waiting' = Without(waiting, t)
    /\ err' = [err EXCEPT ![t] = "timeout"]
    /\ UNCHANGED <<value, inside, phase, balance>>

\* Threads woken without an error that have not returned.
Granted == {t \in inside : t \notin Range(waiting) /\ err[t] = "ok"}

\* rt_sem_control(RT_IPC_CMD_RESET): all waiters fail and the value is set.
Reset(n) ==
    /\ phase = "live"
    /\ waiting' = <<>> /\ armed' = {}
    /\ err' = [t \in Threads |-> IF t \in Range(waiting) THEN "error" ELSE err[t]]
    /\ value' = n
    /\ balance' = n + Cardinality(Granted)
    /\ UNCHANGED <<inside, phase>>

\* rt_sem_delete and rt_sem_detach.  rt_ipc_list_resume_all looks whether
\* anybody waits with interrupts enabled, and then, with interrupts disabled,
\* wakes the first thread on the list, or what it takes for one.  Who deletes
\* uses the object for nothing else.
DeleteCheck ==
    /\ phase \in {"live", "check"}
    /\ phase' = IF waiting = <<>> THEN "gone" ELSE "take"
    /\ UNCHANGED <<value, waiting, armed, err, inside, balance>>

DeleteTake ==
    /\ phase = "take"
    /\ IF waiting = <<>>
       THEN phase' = "wild" /\ UNCHANGED <<waiting, armed, err>>
       ELSE /\ waiting' = Tail(waiting)
            /\ armed' = armed \ {Head(waiting)}
            /\ err' = [err EXCEPT ![Head(waiting)] = "error"]
            /\ phase' = "check"
    /\ UNCHANGED <<value, inside, balance>>

Init ==
    /\ value = Initial /\ balance = Initial
    /\ waiting = <<>> /\ armed = {} /\ inside = {}
    /\ err = [t \in Threads |-> "ok"] /\ phase = "live"

Next ==
    \/ \E t \in Threads : \/ Take(t) \/ Return(t) \/ Timeout(t)
                          \/ \E timed \in BOOLEAN : Wait(t, timed)
    \/ Release
    \/ \E n \in 0..Width - 1 : Reset(n)
    \/ DeleteCheck \/ DeleteTake

Spec == Init /\ [][Next]_vars
-----------------------------------------------------------------------------
(* Properties                                                               *)

\* Every unit released is either in the count, taken, or granted to a thread
\* that was woken for it, whatever time-outs and resets come between; beyond
\* 2^16 units the count wraps and loses them all.  Nobody waits while there is
\* a unit.
UnitsKept == /\ value = (balance - Cardinality(Granted)) % Width
             /\ waiting # <<>> => value = 0

\* A thread leaves the suspend list for one of three reasons, and the result
\* of its rt_sem_take says which: a release takes the first waiter (the most
\* urgent of an ordered list), whose timer is off from then on; its timer; a
\* reset, which takes all, or the deletion of the semaphore.
ServedInOrder ==
    \A t \in Range(waiting) \ Range(waiting') :
       \/ /\ err'[t] = "ok" /\ balance' = balance + 1
          /\ t = Head(waiting) /\ t \notin armed'
          /\ Ordered => \A u \in Range(waiting) : Prio[t] =< Prio[u]
       \/ err'[t] = "timeout" /\ t \in armed /\ balance' = balance
       \/ err'[t] = "error" /\ (waiting' = <<>> \/ phase = "take")
FirstServed == [][ServedInOrder]_vars

\* rt_sem_delete leaves nobody suspended on what it frees.
NobodyLeft == phase = "gone" => waiting = <<>>
=============================================================================
