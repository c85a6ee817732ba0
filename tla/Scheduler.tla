------------------------------ MODULE Scheduler ------------------------------
(***************************************************************************)
(* The thread scheduler: scheduler.c, thread.c, the tick of clock.c, the   *)
(* reaping of dead threads in idle.c, and the PendSV context switch of the *)
(* Cortex-M3 port, with the interrupts that preempt all of them.           *)
(*                                                                         *)
(* A step is the code between two points where interrupts are enabled.     *)
(* Between steps an interrupt may arrive; it runs to its end before any    *)
(* thread goes on, and a context switch that is pending then is taken      *)
(* first.  rt_hw_context_switch only sets three words and pends PendSV, so *)
(* the thread the kernel calls current (sw.current) and the thread whose   *)
(* registers are on the processor (sw.cpu) differ until PendSV_Handler.    *)
(***************************************************************************)
EXTENDS ThreadQueues

CONSTANTS Idle,      \* the idle thread, alone at the lowest priority
          Main,      \* the main thread, which starts the others
          Static,    \* threads made by rt_thread_init, with no cleanup function
          InitPrio,  \* [Threads -> Prios], thread->init_priority
          Slice,     \* [Threads -> ticks], thread->init_tick
          MaxNest,   \* BOUND: how deep a thread nests rt_enter_critical
          Calls,     \* [Threads -> the kernel calls its code makes]
          Targets    \* [Threads -> the threads it passes to such a call]

CallNames == {"yield", "sleep", "block", "timed block", "release", "suspend", "resume", "control",
              "critical", "startup", "create", "exit", "delete", "schedule"}

ASSUME SchedulerAssumption ==
    /\ Idle \in Threads /\ Main \in Threads /\ Main # Idle
    /\ Static \subseteq Threads
    /\ InitPrio \in [Threads -> Prios]
    /\ InitPrio[Idle] = MaxPrio /\ InitPrio[Main] # MaxPrio
    /\ Slice \in [Threads -> Nat \ {0}]
    /\ MaxNest \in Nat
    /\ Calls \in [Threads -> SUBSET CallNames] /\ Calls[Idle] = {}
    /\ Targets \in [Threads -> SUBSET (Threads \ {Idle})]

VARIABLES
    q,      \* the thread lists, a value of Queues
    sw,     \* rt_current_thread, the processor and the words PendSV reads
    lock,   \* rt_scheduler_lock_nest
    armed,  \* threads whose thread_timer is active
    rem,    \* thread->remaining_tick
    pc,     \* where the code of a thread is: "run" is outside the kernel
    arg,    \* the thread its current call is about
    then,   \* where it goes when rt_thread_resume returns
    isr,    \* where SysTick_Handler is, "none" when no handler is active
    freed   \* threads whose stack and object the idle thread released

vars == <<q, sw, lock, armed, rem, pc, arg, then, isr, freed>>

Positions == {"run", "schedule", "suspend", "unlink", "insert", "detach", "close"}
IsrPositions == {"none", "schedule", "timers"}
ThreadOrNone == Threads \union {NoThread}
Switches == [current : ThreadOrNone, cpu : ThreadOrNone, from : ThreadOrNone,
             to : ThreadOrNone, flag : BOOLEAN]

TypeOK == /\ q \in Queues
          /\ sw \in Switches
          /\ lock \in 0..MaxNest
          /\ armed \subseteq Threads
          /\ rem \in [Threads -> Nat \ {0}]
          /\ pc \in [Threads -> Positions]
          /\ arg \in [Threads -> ThreadOrNone]
          /\ then \in [Threads -> {"run", "schedule"}]
          /\ isr \in IsrPositions
          /\ freed \subseteq Threads

-----------------------------------------------------------------------------
(* Switching                                                               *)

\* Mutation of SwitchTo: the from thread is set even if a switch is pending.
SwitchToAlwaysFrom(s, t) == [s EXCEPT !.from = s.current, !.to = t,
                                      !.flag = TRUE, !.current = t]

\* rt_hw_context_switch and rt_hw_context_switch_interrupt, which are one
\* routine: a switch that is still pending keeps its from thread.
SwitchTo(s, t) == [s EXCEPT !.from = IF s.flag THEN s.from ELSE s.current,
                            !.to = t, !.flag = TRUE, !.current = t]

\* rt_schedule on the lists r, given the switching words.
Rescheduled(r, s) ==
    IF lock = 0 /\ NextThread(r) # s.current THEN SwitchTo(s, NextThread(r)) ELSE s

\* The words when the lock nesting is n: the section of rt_schedule.
Schedule == sw' = Rescheduled(q, sw)

\* PendSV_Handler: taken when no other handler is active.
PendSV ==
    /\ sw.flag /\ isr = "none"
    /\ sw' = [sw EXCEPT !.flag = FALSE, !.cpu = sw.to]
    /\ UNCHANGED <<q, lock, armed, rem, pc, arg, then, isr, freed>>

\* Thread t executes: its registers are loaded and nothing preempts it.
OnCpu(t) == sw.cpu = t /\ ~sw.flag /\ isr = "none"
At(t, l) == OnCpu(t) /\ pc[t] = l
Invokes(t, c) == At(t, "run") /\ c \in Calls[t]

Goto(t, l) == pc' = [pc EXCEPT ![t] = l]

\* A thread that reached a call of rt_schedule.
CallSchedule(t) ==
    /\ At(t, "schedule")
    /\ Schedule
    /\ Goto(t, "run")
    /\ UNCHANGED <<q, lock, armed, rem, arg, then, isr, freed>>

\* rt_schedule called on its own.
ScheduleCall(t) ==
    /\ Invokes(t, "schedule")
    /\ Goto(t, "schedule")
    /\ UNCHANGED <<q, sw, lock, armed, rem, arg, then, isr, freed>>

\* rt_enter_critical
EnterCritical(t) ==
    /\ Invokes(t, "critical") /\ lock < MaxNest
    /\ lock' = lock + 1
    /\ UNCHANGED <<q, sw, armed, rem, pc, arg, then, isr, freed>>

\* Mutation of ExitCritical: the last exit does not reschedule.
ExitCriticalQuiet(t) ==
    /\ Invokes(t, "critical")
    /\ lock' = IF lock > 1 THEN lock - 1 ELSE 0
    /\ UNCHANGED <<q, sw, armed, rem, pc, arg, then, isr, freed>>

\* rt_exit_critical: the outermost one reschedules, and so does one too many.
ExitCritical(t) ==
    /\ Invokes(t, "critical")
    /\ lock' = IF lock > 1 THEN lock - 1 ELSE 0
    /\ Goto(t, IF lock > 1 THEN "run" ELSE "schedule")
    /\ UNCHANGED <<q, sw, armed, rem, arg, then, isr, freed>>

-----------------------------------------------------------------------------
(* Threads giving up the processor                                          *)

\* The thread is not alone on the list its node is on.
Shares(t) == Len(q.ready[q.prio[t]]) > 1

Rotated(r, t) ==
    LET p == r.prio[t] IN
    [r EXCEPT !.ready[p] = Append(Unlink(r.ready[p], t), t)]

\* rt_thread_yield; with nothing to yield to it changes nothing.
Yield(t) ==
    /\ Invokes(t, "yield")
    /\ q.stat[t] = "ready" /\ Shares(t)
    /\ q' = Rotated(q, t)
    /\ Goto(t, "schedule")
    /\ UNCHANGED <<sw, lock, armed, rem, arg, then, isr, freed>>

\* The timers left active when rt_thread_suspend(t) returns.
Stopped(r, t) == IF r.stat[t] = "ready" THEN armed \ {t} ELSE armed

\* Mutation of Sleep: the timer is started before rt_thread_suspend stops it.
SleepTimerFirst(t) ==
    /\ Invokes(t, "sleep")
    /\ q' = IF q.stat[t] = "ready" THEN Suspended(q, t) ELSE q
    /\ armed' = Stopped(q, t)
    /\ Goto(t, "schedule")
    /\ UNCHANGED <<sw, lock, rem, arg, then, isr, freed>>

\* rt_thread_sleep: the timer is started even if the suspension is refused.
Sleep(t) ==
    /\ Invokes(t, "sleep")
    /\ q' = IF q.stat[t] = "ready" THEN Suspended(q, t) ELSE q
    /\ armed' = armed \union {t}
    /\ Goto(t, "schedule")
    /\ UNCHANGED <<sw, lock, rem, arg, then, isr, freed>>

\* An IPC call that has to wait, with or without a timeout.  Nobody waits
\* inside rt_enter_critical (the code does not check it).
Block(t, o, timed) ==
    /\ Invokes(t, IF timed THEN "timed block" ELSE "block") /\ lock = 0
    /\ q' = WaitFifo(q, o, t)
    /\ armed' = IF timed THEN armed \union {t} ELSE Stopped(q, t)
    /\ Goto(t, "schedule")
    /\ UNCHANGED <<sw, lock, rem, arg, then, isr, freed>>

\* Mutation of Release: rt_thread_resume does not stop the waiter's timer.
ReleaseTimerOn(t, o) ==
    /\ Invokes(t, "release") /\ q.wait[o] # <<>>
    /\ q' = Resumed(q, Head(q.wait[o]))
    /\ Goto(t, "schedule")
    /\ UNCHANGED <<sw, lock, armed, rem, arg, then, isr, freed>>

\* An IPC call that wakes the first waiter (rt_ipc_list_resume).
Release(t, o) ==
    /\ Invokes(t, "release") /\ q.wait[o] # <<>>
    /\ LET u == Head(q.wait[o]) IN
          /\ q' = Resumed(q, u)
          /\ armed' = IF q.stat[u] = "suspend" THEN armed \ {u} ELSE armed
    /\ Goto(t, "schedule")
    /\ UNCHANGED <<sw, lock, rem, arg, then, isr, freed>>

-----------------------------------------------------------------------------
(* Calls about another thread.  rt_thread_suspend and rt_thread_resume read *)
(* the status with interrupts enabled and act on it later; when the check   *)
(* fails they return and nothing has changed.                               *)

\* rt_thread_suspend up to its status check.
SuspendCheck(t, u) ==
    /\ Invokes(t, "suspend") /\ u \in Targets[t] \union {t}
    /\ q.stat[u] = "ready"
    /\ Goto(t, "suspend")
    /\ arg' = [arg EXCEPT ![t] = u]
    /\ UNCHANGED <<q, sw, lock, armed, rem, then, isr, freed>>

\* The section behind it.  A thread that suspended itself calls rt_schedule.
SuspendSection(t) ==
    /\ At(t, "suspend")
    /\ q' = Suspended(q, arg[t])
    /\ armed' = armed \ {arg[t]}
    /\ Goto(t, IF arg[t] = t THEN "schedule" ELSE "run")
    /\ UNCHANGED <<sw, lock, rem, arg, then, isr, freed>>

\* A direct call of rt_thread_resume, which does not reschedule, up to its
\* status check.
Resume(t, u) ==
    /\ Invokes(t, "resume") /\ u \in Targets[t]
    /\ q.stat[u] = "suspend"
    /\ Goto(t, "unlink")
    /\ arg' = [arg EXCEPT ![t] = u]
    /\ then' = [then EXCEPT ![t] = "run"]
    /\ UNCHANGED <<q, sw, lock, armed, rem, isr, freed>>

\* rt_thread_startup up to the status check of the rt_thread_resume in it.
Startup(t, u) ==
    /\ Invokes(t, "startup") /\ u \in Targets[t]
    /\ q.stat[u] = "init"
    /\ q' = [q EXCEPT !.prio[u] = InitPrio[u], !.stat[u] = "suspend"]
    /\ Goto(t, "unlink")
    /\ arg' = [arg EXCEPT ![t] = u]
    /\ then' = [then EXCEPT ![t] = "schedule"]
    /\ UNCHANGED <<sw, lock, armed, rem, isr, freed>>

\* The section of rt_thread_resume ...
ResumeUnlink(t) ==
    /\ At(t, "unlink")
    /\ q' = Unlinked(q, arg[t])
    /\ armed' = armed \ {arg[t]}
    /\ Goto(t, "insert")
    /\ UNCHANGED <<sw, lock, rem, arg, then, isr, freed>>

\* ... and its call of rt_schedule_insert_thread, after interrupts were on.
ResumeInsert(t) ==
    /\ At(t, "insert")
    /\ q' = InsertThread(q, arg[t])
    /\ Goto(t, then[t])
    /\ UNCHANGED <<sw, lock, armed, rem, arg, then, isr, freed>>

\* rt_thread_control(RT_THREAD_CTRL_CHANGE_PRIORITY), which does not reschedule.
ChangePriority(t, u, p) ==
    /\ Invokes(t, "control") /\ u \in Targets[t] \union {t}
    /\ q' = Reprioritised(q, u, p)
    /\ UNCHANGED <<sw, lock, armed, rem, pc, arg, then, isr, freed>>

-----------------------------------------------------------------------------
(* Birth and death                                                          *)

\* rt_thread_create, or rt_thread_init of a static thread, for a control block
\* that was given back.
Create(t, u) ==
    /\ Invokes(t, "create") /\ u \in Targets[t] /\ q.stat[u] = "close"
    /\ u \in freed \/ (u \in Static /\ u \notin Range(q.defunct))
    /\ q' = [q EXCEPT !.stat[u] = "init", !.prio[u] = InitPrio[u]]
    /\ rem' = [rem EXCEPT ![u] = Slice[u]]
    /\ Goto(u, "run")
    /\ freed' = freed \ {u}
    /\ UNCHANGED <<sw, lock, armed, arg, then, isr>>

\* rt_thread_exit, where a thread ends up when its function returns.  A static
\* thread is only detached; another one waits for the idle thread.
Exit(t) ==
    /\ Invokes(t, "exit") /\ lock = 0
    /\ LET r == [RemoveThread(q, t) EXCEPT !.stat[t] = "close"] IN
          q' = IF t \in Static THEN r ELSE [r EXCEPT !.defunct = <<t>> \o r.defunct]
    /\ armed' = armed \ {t}
    /\ Goto(t, "schedule")
    /\ UNCHANGED <<sw, lock, rem, arg, then, isr, freed>>

\* rt_thread_delete of another thread, or rt_thread_detach of a static one: off
\* its list, ...
Delete(t, u) ==
    /\ Invokes(t, "delete") /\ u \in Targets[t] \ {t}
    /\ q.stat[u] # "close"
    /\ q' = IF q.stat[u] = "init" THEN q ELSE RemoveThread(q, u)
    /\ Goto(t, "detach")
    /\ arg' = [arg EXCEPT ![t] = u]
    /\ UNCHANGED <<sw, lock, armed, rem, then, isr, freed>>

\* ... then its timer stopped (rt_timer_detach), ...
DeleteTimer(t) ==
    /\ At(t, "detach")
    /\ armed' = armed \ {arg[t]}
    /\ Goto(t, "close")
    /\ UNCHANGED <<q, sw, lock, rem, arg, then, isr, freed>>

\* ... then closed, and put on the defunct list wherever its node is by now,
\* unless it is static.
DeleteClose(t) ==
    /\ At(t, "close")
    /\ LET r == [q EXCEPT !.stat[arg[t]] = "close"] IN
          q' = IF arg[t] \in Static THEN r ELSE [r EXCEPT !.defunct = <<arg[t]>> \o r.defunct]
    /\ Goto(t, "run")
    /\ UNCHANGED <<sw, lock, armed, rem, arg, then, isr, freed>>

\* Mutation of Reap: the thread is freed where it is linked.
ReapLinked ==
    /\ At(Idle, "run") /\ q.defunct # <<>>
    /\ freed' = freed \union {Head(q.defunct)}
    /\ UNCHANGED <<q, sw, lock, armed, rem, pc, arg, then, isr>>

\* One round of rt_thread_idle_excute: the thread is taken off the defunct
\* list under rt_enter_critical, whose end calls rt_schedule, and freed.
Reap ==
    /\ At(Idle, "run") /\ q.defunct # <<>>
    /\ LET u == Head(q.defunct) IN
          /\ q' = Unlinked(q, u)
          /\ freed' = IF u \in Static THEN freed ELSE freed \union {u}
    /\ sw' = Rescheduled(q', sw)
    /\ UNCHANGED <<lock, armed, rem, pc, arg, then, isr>>

-----------------------------------------------------------------------------
(* Interrupts                                                               *)

\* Mutation of Tick: the slice is reloaded and nobody yields.
TickKeeps ==
    /\ isr = "none"
    /\ LET t == sw.current IN
          rem' = [rem EXCEPT ![t] = IF rem[t] = 1 THEN Slice[t] ELSE rem[t] - 1]
    /\ isr' = "timers"
    /\ UNCHANGED <<q, sw, lock, armed, pc, arg, then, freed>>

\* Mutation of Tick: a slice that ends in a critical section is begun again.
TickUnlessLocked ==
    /\ isr = "none"
    /\ LET t    == sw.current
           over == rem[t] = 1
       IN  /\ rem' = [rem EXCEPT ![t] = IF over THEN Slice[t] ELSE rem[t] - 1]
           /\ IF over /\ lock = 0 /\ q.stat[t] = "ready" /\ Shares(t)
              THEN q' = Rotated(q, t) /\ isr' = "schedule"
              ELSE isr' = "timers" /\ UNCHANGED q
    /\ UNCHANGED <<sw, lock, armed, pc, arg, then, freed>>

\* SysTick_Handler: rt_tick_increase charges the tick to rt_current_thread
\* and, when its slice is over, does the section of rt_thread_yield.
Tick ==
    /\ isr = "none"
    /\ LET t    == sw.current
           over == rem[t] = 1
       IN  /\ rem' = [rem EXCEPT ![t] = IF over THEN Slice[t] ELSE rem[t] - 1]
           /\ IF over /\ q.stat[t] = "ready" /\ Shares(t)
              THEN q' = Rotated(q, t) /\ isr' = "schedule"
              ELSE isr' = "timers" /\ UNCHANGED q
    /\ UNCHANGED <<sw, lock, armed, pc, arg, then, freed>>

\* The rt_schedule of that yield.
TickSchedule ==
    /\ isr = "schedule"
    /\ Schedule
    /\ isr' = "timers"
    /\ UNCHANGED <<q, lock, armed, rem, pc, arg, then, freed>>

\* rt_timer_check finds the timer of u expired and calls rt_thread_timeout,
\* with interrupts off; nothing looks at the status of u.
Timeout(u) ==
    /\ isr = "timers" /\ u \in armed
    /\ q' = InsertThread(Unlinked(q, u), u)
    /\ sw' = Rescheduled(q', sw)
    /\ armed' = armed \ {u}
    /\ UNCHANGED <<lock, rem, pc, arg, then, isr, freed>>

TickReturn ==
    /\ isr = "timers"
    /\ isr' = "none"
    /\ UNCHANGED <<q, sw, lock, armed, rem, pc, arg, then, freed>>

\* Another handler (EXTI15_10, USART2) releases the IPC object o.
IsrRelease(o) ==
    /\ isr \in {"none", "schedule"} /\ q.wait[o] # <<>>
    /\ LET u == Head(q.wait[o]) IN
          /\ q' = Resumed(q, u)
          /\ armed' = IF q.stat[u] = "suspend" THEN armed \ {u} ELSE armed
    /\ sw' = Rescheduled(q', sw)
    /\ UNCHANGED <<lock, rem, pc, arg, then, isr, freed>>

-----------------------------------------------------------------------------
(* The specification                                                        *)

\* rtthread_startup up to the first PendSV: rt_application_init and
\* rt_thread_idle_init started the main and the idle thread, and
\* rt_system_scheduler_start picks the first of them.
Started ==
    [stat    |-> [t \in Threads |-> IF t \in {Main, Idle} THEN "ready" ELSE "init"],
     prio    |-> InitPrio,
     ready   |-> [p \in Prios |-> CASE p = InitPrio[Main] -> <<Main>>
                                    [] p = MaxPrio -> <<Idle>>
                                    [] OTHER -> <<>>],
     group   |-> {InitPrio[Main], MaxPrio},
     wait    |-> [o \in Objects |-> <<>>],
     defunct |-> <<>>]

Init ==
    /\ q = Started
    /\ sw = [current |-> NextThread(q), cpu |-> NoThread,
             from |-> NoThread, to |-> NextThread(q), flag |-> TRUE]
    /\ lock = 0 /\ armed = {} /\ isr = "none" /\ freed = {}
    /\ rem = Slice
    /\ pc = [t \in Threads |-> "run"]
    /\ arg = [t \in Threads |-> NoThread]
    /\ then = [t \in Threads |-> "run"]

KernelStep(t) ==
    \/ CallSchedule(t) \/ SuspendSection(t) \/ ResumeUnlink(t) \/ ResumeInsert(t)
    \/ DeleteTimer(t) \/ DeleteClose(t)

KernelCall(t) ==
    \/ ScheduleCall(t) \/ EnterCritical(t) \/ ExitCritical(t)
    \/ Yield(t) \/ Sleep(t) \/ Exit(t)
    \/ \E o \in Objects : Release(t, o) \/ \E timed \in BOOLEAN : Block(t, o, timed)
    \/ \E u \in Threads :
          \/ SuspendCheck(t, u) \/ Resume(t, u) \/ Startup(t, u) \/ Create(t, u)
          \/ Delete(t, u) \/ \E p \in Prios : ChangePriority(t, u, p)

SysTick == Tick \/ TickSchedule \/ TickReturn \/ \E u \in Threads : Timeout(u)

Next ==
    \/ \E t \in Threads : KernelStep(t) \/ KernelCall(t)
    \/ Reap \/ PendSV \/ SysTick \/ \E o \in Objects : IsrRelease(o)

Spec == Init /\ [][Next]_vars

\* A tick is longer than its handler and the switch the handler pends: the
\* next tick finds PendSV taken.
TimelyTick == Tick /\ ~sw.flag

\* Interrupt handlers end, a pending PendSV is taken when they have, the tick
\* keeps coming, and a thread that has the processor executes: kernel code to
\* its end, and its own code at least until it leaves a section it locked the
\* scheduler for.
Fairness ==
    /\ WF_vars(TimelyTick) /\ WF_vars(TickSchedule) /\ WF_vars(TickReturn)
    /\ SF_vars(PendSV)
    /\ \A t \in Threads : SF_vars(KernelStep(t)) /\ SF_vars(lock > 0 /\ ExitCritical(t))

FairSpec == Init /\ [][Next /\ (Tick => TimelyTick)]_vars /\ Fairness
-----------------------------------------------------------------------------
(* Properties                                                               *)

\* The three words and the processor tell one story however interrupts and
\* threads interleave rt_schedule and PendSV: while a switch is pending it is
\* from the thread on the processor to the current one, A -> B -> A included;
\* otherwise the current thread is the one on the processor.
SwitchSound ==
    IF sw.flag THEN sw.from = sw.cpu /\ sw.to = sw.current ELSE sw.cpu = sw.current

\* Ready lists, statuses, priorities and bitmap agree between any two steps
\* (rt_schedule_insert_thread, rt_schedule_remove_thread and their callers).
ListsAgree == QueuesSound(q)

\* The same where threads act on each other: rt_thread_resume and
\* rt_thread_delete hold a thread between two sections, in which it may be
\* called ready without being linked and its bit may be left set (an interrupt
\* made it ready after the status check of rt_thread_resume).  Nothing else is
\* out of step, and nothing stays so.
Held == {arg[t] : t \in {x \in Threads : pc[x] \in {"insert", "detach", "close"}}}
ListsAgreeButHeld ==
    /\ TypeOK /\ ListsSound(q)
    /\ \A t \in Threads \ Held : q.stat[t] = "ready" => t \in Range(q.ready[q.prio[t]])
    /\ \A p \in Prios : /\ q.ready[p] # <<>> => p \in q.group
                        /\ p \in q.group => \/ q.ready[p] # <<>>
                                            \/ \E t \in Held : q.prio[t] = p

\* rt_schedule always finds a thread in the list its bitmap search picks.
SomeoneRuns == NextThread(q) # NoThread

\* With the scheduler unlocked, a thread that is executing its own code is the
\* first of the most urgent ready list: no wake-up forgot to reschedule.
HighestRuns ==
    \A t \in Threads : At(t, "run") /\ lock = 0 => NextThread(q) = t

\* The assertion at the head of rt_thread_timeout, compiled out in this build:
\* a thread timer is active only while its thread is suspended.
TimeoutFindsSuspended == \A t \in armed : q.stat[t] = "suspend"

\* A suspended thread can still be found by what will wake it: its timer, the
\* list it waits on, or the rt_thread_resume that holds it.
NoThreadLost ==
    \A t \in Threads : q.stat[t] = "suspend" =>
        \/ t \in armed
        \/ \E o \in Objects : t \in Range(q.wait[o])
        \/ \E u \in Threads : pc[u] \in {"unlink", "insert"} /\ arg[u] = t

\* The idle thread frees no stack the processor, a pending switch, a timer or
\* a list still uses (rt_thread_idle_excute against rt_thread_exit's switch).
FreedUnused ==
    \A t \in freed :
        /\ t \notin {sw.cpu, sw.current} \union armed
        /\ sw.flag => t \notin {sw.from, sw.to}
        /\ Unlinked(q, t) = q

\* A thread gives way to its equals by rt_thread_yield, or because the tick
\* that comes is the last one of its slice, wherever that tick finds it: in a
\* critical section, or current but not yet on the processor.
Yields(t) == Invokes(t, "yield") /\ pc'[t] = "schedule"
UsedUp(t) == sw.current = t /\ rem[t] = 1 /\ isr = "none" /\ isr' # "none"

\* Equal priorities are served in order.  Of two threads of one ready list the
\* one ahead falls behind the other, both staying on it, only when it is the
\* current one and yields or used its slice up - no wake-up, time-out or
\* interrupt moves it - and having used its slice up it always does, however
\* often it was preempted in between (rt_tick_increase, rt_thread_yield).
Before(l, t, u) == \E i, j \in DOMAIN l : i < j /\ l[i] = t /\ l[j] = u
FifoAmongEquals ==
    [][\A p \in Prios : \A t, u \in Threads : Before(q.ready[p], t, u) =>
          /\ Before(q'.ready[p], u, t) => sw.current = t /\ (Yields(t) \/ UsedUp(t))
          /\ UsedUp(t) => Before(q'.ready[p], u, t)]_vars

\* rt_thread_delete removes a thread from the thread queues and leaves it to
\* the idle thread: once closed it is on no ready list.
DeletedLeavesQueues ==
    \A t \in Threads : q.stat[t] = "close" => \A p \in Prios : t \notin Range(q.ready[p])

\* Round robin: a thread that stays ready at the highest ready priority gets
\* the processor again and again, although nobody yields (rt_tick_increase).
TimeShared ==
    \A t \in Threads :
        <>[](q.stat[t] = "ready" /\ q.prio[t] = Highest(q)) => []<>OnCpu(t)
=============================================================================
