--------------------------- MODULE SchedulerProofs ---------------------------
(***************************************************************************)
(* Theorems about Scheduler.                                               *)
(***************************************************************************)
EXTENDS Scheduler, ThreadQueuesProofs

-----------------------------------------------------------------------------
(* The switching words.  This needs nothing about the thread lists and no   *)
(* assumption on the calls threads make: every path that switches goes      *)
(* through rt_schedule, and only PendSV changes the processor.              *)

\* sw is a record of the five words.
SwitchWords ==
    /\ sw = [current |-> sw.current, cpu |-> sw.cpu, from |-> sw.from,
             to |-> sw.to, flag |-> sw.flag]
    /\ sw.flag \in BOOLEAN

SwitchInv == SwitchWords /\ SwitchSound

\* rt_schedule keeps the words coherent, whether or not a switch is pending.
LEMMA RescheduleKeepsWords ==
    ASSUME SwitchInv, NEW r, sw' = Rescheduled(r, sw)
    PROVE  SwitchInv'
<1>1. CASE sw' = sw
  BY <1>1 DEF SwitchInv, SwitchWords, SwitchSound
<1>2. CASE sw' = SwitchTo(sw, NextThread(r))
  <2> DEFINE n == NextThread(r)
  <2> HIDE DEF n
  <2>1. sw' = [current |-> n, cpu |-> sw.cpu, to |-> n, flag |-> TRUE,
               from |-> IF sw.flag THEN sw.from ELSE sw.current]
    BY <1>2 DEF SwitchTo, SwitchInv, SwitchWords, n
  <2> QED BY <2>1 DEF SwitchInv, SwitchWords, SwitchSound
<1> QED BY <1>1, <1>2 DEF Rescheduled

\* The words tell one story in every reachable state: see SwitchSound.
THEOREM SwitchSafety == Spec => []SwitchSound
<1>1. Init => SwitchInv
  BY DEF Init, SwitchInv, SwitchWords, SwitchSound
<1>2. SwitchInv /\ [Next]_vars => SwitchInv'
  <2> SUFFICES ASSUME SwitchInv, [Next]_vars PROVE SwitchInv'
    OBVIOUS
  <2>1. CASE PendSV
    <3>1. sw' = [current |-> sw.current, cpu |-> sw.to, from |-> sw.from,
                 to |-> sw.to, flag |-> FALSE]
      BY <2>1 DEF PendSV, SwitchInv, SwitchWords
    <3> QED BY <3>1, <2>1 DEF PendSV, SwitchInv, SwitchWords, SwitchSound
  <2>2. CASE \/ \E t \in Threads : CallSchedule(t)
             \/ TickSchedule
    BY <2>2, RescheduleKeepsWords DEF CallSchedule, TickSchedule, Schedule
  <2>3. CASE \/ Reap
             \/ \E u \in Threads : Timeout(u)
             \/ \E o \in Objects : IsrRelease(o)
    BY <2>3, RescheduleKeepsWords DEF Reap, Timeout, IsrRelease
  <2>4. CASE sw' = sw
    BY <2>4 DEF SwitchInv, SwitchWords, SwitchSound
  <2>5. ASSUME NEW t \in Threads, KernelStep(t) PROVE SwitchInv'
    <3>1. CallSchedule(t) \/ sw' = sw
      BY <2>5 DEF KernelStep, SuspendSection, ResumeUnlink, ResumeInsert,
                  DeleteTimer, DeleteClose
    <3> QED BY <2>2, <2>4, <3>1
  <2>6. ASSUME NEW t \in Threads, KernelCall(t) PROVE SwitchInv'
    <3>1. sw' = sw
      BY <2>6, Zenon DEF KernelCall, ScheduleCall, EnterCritical, ExitCritical, Yield,
                         Sleep, Exit, Release, Block, SuspendCheck, Resume, Startup,
                         Create, Delete, ChangePriority
    <3> QED BY <2>4, <3>1
  <2>7. CASE SysTick
    BY <2>2, <2>3, <2>4, <2>7 DEF SysTick, Tick, TickReturn
  <2>8. CASE UNCHANGED vars
    BY <2>4, <2>8 DEF vars
  <2> QED BY <2>1, <2>3, <2>5, <2>6, <2>7, <2>8 DEF Next
<1>3. SwitchInv => SwitchSound
  BY DEF SwitchInv
<1> QED BY <1>1, <1>2, <1>3, PTL DEF Spec
-----------------------------------------------------------------------------
(* The thread lists, where nobody suspends, resumes, deletes or             *)
(* re-prioritises another thread: those calls test the status of their      *)
(* argument before they disable interrupts, and the lists may then be out   *)
(* of step for a while (ListsAgreeButHeld).                                 *)

EverydayUse ==
    \A t \in Threads : Calls[t] \intersect {"suspend", "resume", "delete", "control"} = {}

\* The idle thread never waits, so that a ready list is never missing.
IdleReady == q.stat[Idle] = "ready" /\ pc[Idle] = "run"

\* The thread a rt_thread_startup is about is in nobody else's hands.
Holds(t) == pc[t] \in {"unlink", "insert"}
HeldAlone ==
    \A t \in Threads :
        /\ pc[t] \notin {"suspend", "detach", "close"}
        /\ Holds(t) =>
              /\ q.stat[t] # "close"
              /\ arg[t] \in Threads \ {sw.current} /\ q.stat[arg[t]] = "suspend"
              /\ arg[t] \notin armed
              /\ \A o \in Objects : arg[t] \notin Range(q.wait[o])
              /\ then[t] = "schedule"
              /\ \A u \in Threads : Holds(u) /\ arg[u] = arg[t] => u = t

\* The current thread may run, unless it is about to call rt_schedule, or slept
\* with the scheduler locked.
CurrentSound ==
    /\ sw.current \in Threads /\ q.stat[sw.current] # "init"
    /\ q.stat[sw.current] # "ready" =>
          \/ lock = 0 /\ pc[sw.current] = "schedule"
          \/ lock > 0 /\ q.stat[sw.current] = "suspend"

\* Unless a call of rt_schedule is due, the last one chose the right thread.
Scheduled ==
    lock = 0 /\ isr # "schedule" /\ pc[sw.current] # "schedule"
        => NextThread(q) = sw.current

FreedSound ==
    \A t \in freed : /\ q.stat[t] = "close" /\ t \notin Range(q.defunct)
                     /\ t \notin {sw.cpu, sw.current}

QueuesInv ==
    /\ TypeOK /\ SwitchInv /\ QueuesSound(q) /\ IdleReady /\ TimeoutFindsSuspended
    /\ HeldAlone /\ CurrentSound /\ Scheduled /\ FreedSound /\ NoThreadLost

\* What TypeOK says of the thread lists, without the lists.
LEMMA StatusTypes ==
    ASSUME NEW r \in Queues
    PROVE  r.stat \in [Threads -> Stats] /\ r.prio \in [Threads -> Prios]
  BY DEF Queues

\* A thread that executes is the current one.
LEMMA Running ==
    ASSUME QueuesInv, NEW t \in Threads, OnCpu(t)
    PROVE  sw.current = t /\ sw.cpu = t /\ ~sw.flag /\ isr = "none"
  BY DEF QueuesInv, SwitchInv, SwitchSound, OnCpu

\* Outside the kernel with the scheduler unlocked, it is ready.
LEMMA RunningReady ==
    ASSUME QueuesInv, NEW t \in Threads, At(t, "run"), lock = 0
    PROVE  q.stat[t] = "ready"
  BY Running DEF QueuesInv, CurrentSound, At

\* rt_schedule on sound lists: with the scheduler unlocked, the current thread
\* is the one it picks, and that thread is ready.
LEMMA RescheduleLemma ==
    ASSUME QueuesInv, NEW r \in Queues, QueuesSound(r), r.stat[Idle] = "ready",
           sw' = Rescheduled(r, sw)
    PROVE  /\ SwitchInv' /\ sw' \in Switches /\ sw'.cpu = sw.cpu
           /\ IF lock = 0 THEN /\ sw'.current = NextThread(r)
                              /\ sw'.current \in Threads
                              /\ r.stat[sw'.current] = "ready"
                          ELSE sw' = sw
<1>1. SwitchInv'
  BY RescheduleKeepsWords DEF QueuesInv
<1> DEFINE n == NextThread(r)
<1>2. n \in Threads /\ r.stat[n] = "ready"
  BY NextLemma, SchedulerAssumption
<1> HIDE DEF n
<1>3. sw \in Switches
  BY DEF QueuesInv, TypeOK
<1>4. CASE sw' = sw /\ (lock = 0 => n = sw.current)
  BY <1>1, <1>2, <1>3, <1>4 DEF n
<1>5. CASE sw' = SwitchTo(sw, n) /\ lock = 0
  <2>1. sw' = [current |-> n, cpu |-> sw.cpu, to |-> n, flag |-> TRUE,
               from |-> IF sw.flag THEN sw.from ELSE sw.current]
    BY <1>3, <1>5 DEF SwitchTo, Switches
  <2>2. sw' \in Switches
    BY <1>2, <1>3, <2>1 DEF Switches, ThreadOrNone
  <2> QED BY <1>1, <1>2, <1>5, <2>1, <2>2 DEF n
<1> QED BY <1>4, <1>5 DEF Rescheduled, n

\* The section of rt_thread_yield on a ready thread.
LEMMA RotateLemma ==
    ASSUME NEW r \in Queues, QueuesSound(r), NEW t \in Threads, r.stat[t] = "ready",
           NEW s, s = Rotated(r, t)
    PROVE  /\ s \in Queues /\ QueuesSound(s)
           /\ s.stat = r.stat /\ s.prio = r.prio /\ s.wait = r.wait
           /\ s.defunct = r.defunct
<1>1. s = BackOfLine(r, t)
  BY DEF Rotated, BackOfLine
<1> QED BY <1>1, BackOfLineLemma
-----------------------------------------------------------------------------
(* Each action keeps the invariant.                                         *)

\* Steps that leave the thread lists, the switching words and the timers alone
\* and touch neither the current thread's place in a call of rt_schedule nor a
\* call in progress.
LEMMA ScheduleCallStep ==
    ASSUME QueuesInv, NEW t \in Threads, ScheduleCall(t)
    PROVE  QueuesInv'
<1>1. At(t, "run") /\ sw.current = t /\ t # Idle /\ pc' = [pc EXCEPT ![t] = "schedule"]
  BY Running, SchedulerAssumption DEF ScheduleCall, Invokes, At, Goto
<1>2. /\ q' = q /\ sw' = sw /\ lock' = lock /\ armed' = armed /\ rem' = rem
      /\ arg' = arg /\ then' = then /\ isr' = isr /\ freed' = freed
  BY DEF ScheduleCall
<1>3. TypeOK'
  BY <1>1, <1>2 DEF QueuesInv, TypeOK, Positions
<1>4. SwitchInv' /\ QueuesSound(q)'
  BY <1>2 DEF QueuesInv, SwitchInv, SwitchWords, SwitchSound
<1>5. IdleReady' /\ TimeoutFindsSuspended'
  BY <1>1, <1>2 DEF QueuesInv, TypeOK, IdleReady, TimeoutFindsSuspended
<1>6. HeldAlone'
  BY <1>1, <1>2 DEF QueuesInv, TypeOK, HeldAlone, Holds
<1>7. CurrentSound'
  BY <1>1, <1>2 DEF QueuesInv, TypeOK, CurrentSound, At
<1>8. Scheduled'
  BY <1>1, <1>2 DEF QueuesInv, TypeOK, Scheduled
<1>9. FreedSound' /\ NoThreadLost'
  BY <1>1, <1>2 DEF QueuesInv, TypeOK, FreedSound, NoThreadLost, At
<1> QED BY <1>3, <1>4, <1>5, <1>6, <1>7, <1>8, <1>9 DEF QueuesInv

\* CallSchedule: whoever becomes current is ready, and the call that was due is
\* done.
LEMMA CallScheduleStep ==
    ASSUME QueuesInv, NEW t \in Threads, CallSchedule(t)
    PROVE  QueuesInv'
<1>1. pc[t] = "schedule" /\ sw.current = t /\ t # Idle /\ pc' = [pc EXCEPT ![t] = "run"]
  BY Running DEF CallSchedule, At, Goto, QueuesInv, IdleReady
<1>2. /\ q' = q /\ lock' = lock /\ armed' = armed /\ rem' = rem
      /\ arg' = arg /\ then' = then /\ isr' = isr /\ freed' = freed
  BY DEF CallSchedule
<1>3. /\ SwitchInv' /\ sw' \in Switches /\ sw'.cpu = sw.cpu
      /\ IF lock = 0 THEN /\ sw'.current = NextThread(q)
                         /\ sw'.current \in Threads
                         /\ q.stat[sw'.current] = "ready"
                     ELSE sw' = sw
  BY RescheduleLemma DEF QueuesInv, TypeOK, IdleReady, CallSchedule, Schedule
<1>4. TypeOK'
  BY <1>1, <1>2, <1>3 DEF QueuesInv, TypeOK, Positions
<1>5. QueuesSound(q)' /\ IdleReady' /\ TimeoutFindsSuspended'
  BY <1>1, <1>2 DEF QueuesInv, TypeOK, IdleReady, TimeoutFindsSuspended
<1>6. HeldAlone'
  BY <1>1, <1>2, <1>3 DEF QueuesInv, TypeOK, HeldAlone, Holds
<1>7. CurrentSound'
  BY <1>1, <1>2, <1>3 DEF QueuesInv, TypeOK, CurrentSound
<1>8. Scheduled'
  BY <1>1, <1>2, <1>3 DEF QueuesInv, TypeOK, Scheduled
<1>9. FreedSound' /\ NoThreadLost'
  BY <1>1, <1>2, <1>3 DEF QueuesInv, TypeOK, FreedSound, NoThreadLost
<1> QED BY <1>3, <1>4, <1>5, <1>6, <1>7, <1>8, <1>9 DEF QueuesInv

\* rt_enter_critical and rt_exit_critical: leaving the last section is followed
\* by rt_schedule, and a thread that slept in it is still not ready.
LEMMA CriticalStep ==
    ASSUME QueuesInv, NEW t \in Threads, EnterCritical(t) \/ ExitCritical(t)
    PROVE  QueuesInv'
<1>1. pc[t] = "run" /\ sw.current = t /\ t # Idle
  BY Running, SchedulerAssumption DEF EnterCritical, ExitCritical, Invokes, At
<1>2. /\ q' = q /\ sw' = sw /\ armed' = armed /\ rem' = rem
      /\ arg' = arg /\ then' = then /\ isr' = isr /\ freed' = freed
  BY DEF EnterCritical, ExitCritical
<1>3. \/ lock < MaxNest /\ lock' = lock + 1 /\ pc' = pc
      \/ lock > 1 /\ lock' = lock - 1 /\ pc' = [pc EXCEPT ![t] = "run"]
      \/ lock =< 1 /\ lock' = 0 /\ pc' = [pc EXCEPT ![t] = "schedule"]
  BY DEF EnterCritical, ExitCritical, Goto, QueuesInv, TypeOK
<1>4. TypeOK'
  BY <1>1, <1>2, <1>3, SchedulerAssumption DEF QueuesInv, TypeOK, Positions
<1>5. SwitchInv' /\ QueuesSound(q)' /\ IdleReady' /\ TimeoutFindsSuspended'
  <2>1. SwitchInv' /\ QueuesSound(q)'
    BY <1>2 DEF QueuesInv, SwitchInv, SwitchWords, SwitchSound
  <2>4. pc \in [Threads -> Positions] /\ Idle \in Threads /\ pc[Idle] = "run"
    BY SchedulerAssumption DEF QueuesInv, TypeOK, IdleReady
  <2>2. pc'[Idle] = "run"
    BY <1>1, <1>3, <2>4
  <2>3. IdleReady' /\ TimeoutFindsSuspended'
    BY <1>2, <2>2 DEF QueuesInv, IdleReady, TimeoutFindsSuspended
  <2> QED BY <2>1, <2>3
<1>6. HeldAlone'
  BY <1>1, <1>2, <1>3 DEF QueuesInv, TypeOK, HeldAlone, Holds
<1>7. CurrentSound'
  BY <1>1, <1>2, <1>3, SchedulerAssumption DEF QueuesInv, TypeOK, CurrentSound
<1>8. Scheduled'
  BY <1>1, <1>2, <1>3, SchedulerAssumption DEF QueuesInv, TypeOK, Scheduled
<1>9. FreedSound' /\ NoThreadLost'
  BY <1>1, <1>2, <1>3 DEF QueuesInv, TypeOK, FreedSound, NoThreadLost
<1> QED BY <1>4, <1>5, <1>6, <1>7, <1>8, <1>9 DEF QueuesInv

\* rt_thread_yield
LEMMA YieldStep ==
    ASSUME QueuesInv, NEW t \in Threads, Yield(t)
    PROVE  QueuesInv'
<1>1. /\ pc[t] = "run" /\ sw.current = t /\ t # Idle
      /\ pc' = [pc EXCEPT ![t] = "schedule"] /\ q.stat[t] = "ready"
  BY Running, SchedulerAssumption DEF Yield, Invokes, At, Goto
<1>2. /\ sw' = sw /\ lock' = lock /\ armed' = armed /\ rem' = rem
      /\ arg' = arg /\ then' = then /\ isr' = isr /\ freed' = freed
  BY DEF Yield
<1>3. /\ q' \in Queues /\ QueuesSound(q') /\ q'.stat = q.stat /\ q'.prio = q.prio
      /\ q'.wait = q.wait /\ q'.defunct = q.defunct
  BY <1>1, RotateLemma DEF Yield, QueuesInv, TypeOK
<1>4. TypeOK'
  BY <1>1, <1>2, <1>3 DEF QueuesInv, TypeOK, Positions
<1>5. SwitchInv' /\ IdleReady' /\ TimeoutFindsSuspended'
  BY <1>1, <1>2, <1>3 DEF QueuesInv, TypeOK, IdleReady, TimeoutFindsSuspended,
                          SwitchInv, SwitchWords, SwitchSound
<1>6. HeldAlone'
  BY <1>1, <1>2, <1>3 DEF QueuesInv, TypeOK, HeldAlone, Holds
<1>7. CurrentSound' /\ Scheduled'
  BY <1>1, <1>2, <1>3 DEF QueuesInv, TypeOK, CurrentSound, Scheduled
<1>8. FreedSound' /\ NoThreadLost'
  BY <1>1, <1>2, <1>3 DEF QueuesInv, TypeOK, FreedSound, NoThreadLost
<1> QED BY <1>3, <1>4, <1>5, <1>6, <1>7, <1>8 DEF QueuesInv

\* rt_thread_sleep, ready or (with the scheduler locked) already suspended.
LEMMA SleepStep ==
    ASSUME QueuesInv, NEW t \in Threads, Sleep(t)
    PROVE  QueuesInv'
<1>1. /\ pc[t] = "run" /\ sw.current = t /\ t # Idle
      /\ pc' = [pc EXCEPT ![t] = "schedule"] /\ armed' = armed \union {t}
  BY Running, SchedulerAssumption DEF Sleep, Invokes, At, Goto
<1>2. /\ sw' = sw /\ lock' = lock /\ rem' = rem
      /\ arg' = arg /\ then' = then /\ isr' = isr /\ freed' = freed
  BY DEF Sleep
<1>3. q.stat \in [Threads -> Stats] /\ q \in Queues /\ QueuesSound(q)
  BY StatusTypes DEF QueuesInv, TypeOK
<1>4. /\ q' \in Queues /\ QueuesSound(q')
      /\ q'.stat = [q.stat EXCEPT ![t] = "suspend"] /\ q'.prio = q.prio
      /\ \A o \in Objects : Range(q'.wait[o]) = Range(q.wait[o])
      /\ Range(q'.defunct) = Range(q.defunct)
  <2>1. CASE q.stat[t] = "ready"
    BY <1>3, <2>1, SuspendLemma DEF Sleep
  <2>2. CASE q.stat[t] # "ready"
    <3>1. q.stat[t] = "suspend"
      BY <1>1, <2>2 DEF QueuesInv, CurrentSound
    <3> QED BY <1>3, <2>2, <3>1 DEF Sleep
  <2> QED BY <2>1, <2>2
<1>5. TypeOK'
  BY <1>1, <1>2, <1>4 DEF QueuesInv, TypeOK, Positions
<1>6. SwitchInv' /\ IdleReady' /\ TimeoutFindsSuspended'
  BY <1>1, <1>2, <1>3, <1>4 DEF QueuesInv, TypeOK, IdleReady, TimeoutFindsSuspended,
                          SwitchInv, SwitchWords, SwitchSound
<1>7. HeldAlone'
  BY <1>1, <1>2, <1>3, <1>4 DEF QueuesInv, TypeOK, HeldAlone, Holds
<1>8. CurrentSound' /\ Scheduled'
  BY <1>1, <1>2, <1>3, <1>4 DEF QueuesInv, TypeOK, CurrentSound, Scheduled
<1>9. FreedSound' /\ NoThreadLost'
  BY <1>1, <1>2, <1>3, <1>4 DEF QueuesInv, TypeOK, FreedSound, NoThreadLost
<1> QED BY <1>4, <1>5, <1>6, <1>7, <1>8, <1>9 DEF QueuesInv

\* An IPC call that waits.
LEMMA BlockStep ==
    ASSUME QueuesInv, NEW t \in Threads, NEW o \in Objects, NEW timed \in BOOLEAN,
           Block(t, o, timed)
    PROVE  QueuesInv'
<1>1. /\ pc[t] = "run" /\ sw.current = t /\ t # Idle /\ q.stat[t] = "ready"
      /\ pc' = [pc EXCEPT ![t] = "schedule"]
      /\ armed' \subseteq armed \union {t} /\ armed \ {t} \subseteq armed'
  <2>1. At(t, "run") /\ t # Idle /\ lock = 0
    BY SchedulerAssumption DEF Block, Invokes
  <2>2. armed' = armed \union {t} \/ armed' = Stopped(q, t)
    BY DEF Block
  <2>3. sw.current = t /\ q.stat[t] = "ready"
    BY <2>1, Running, RunningReady DEF At
  <2> QED BY <2>1, <2>2, <2>3 DEF At, Block, Goto, Stopped
<1>2. /\ sw' = sw /\ lock' = lock /\ rem' = rem
      /\ arg' = arg /\ then' = then /\ isr' = isr /\ freed' = freed
  BY DEF Block
<1>3. q.stat \in [Threads -> Stats] /\ q \in Queues /\ QueuesSound(q)
  BY StatusTypes DEF QueuesInv, TypeOK
<1>4. /\ q' \in Queues /\ QueuesSound(q')
      /\ q'.stat = [q.stat EXCEPT ![t] = "suspend"] /\ q'.prio = q.prio
      /\ Range(q'.wait[o]) = Range(q.wait[o]) \union {t}
      /\ \A x \in Objects \ {o} : Range(q'.wait[x]) = Range(q.wait[x])
      /\ Range(q'.defunct) = Range(q.defunct)
  <2>1. q' = WaitFifo(q, o, t)
    BY DEF Block
  <2>2. q' \in Queues /\ QueuesSound(q') /\ Queued(q, q', o, t)
    BY <1>1, <1>3, <2>1, WaitFifoLemma
  <2> QED BY <2>2 DEF Queued
<1>5. TypeOK'
  BY <1>1, <1>2, <1>4 DEF QueuesInv, TypeOK, Positions
<1>6. SwitchInv' /\ IdleReady' /\ TimeoutFindsSuspended'
  BY <1>1, <1>2, <1>3, <1>4 DEF QueuesInv, TypeOK, IdleReady, TimeoutFindsSuspended,
                          SwitchInv, SwitchWords, SwitchSound
<1>7. HeldAlone'
  BY <1>1, <1>2, <1>3, <1>4 DEF QueuesInv, TypeOK, HeldAlone, Holds
<1>8. CurrentSound' /\ Scheduled'
  BY <1>1, <1>2, <1>3, <1>4, RunningReady DEF QueuesInv, TypeOK, CurrentSound, Scheduled,
                                              Block
<1>9. FreedSound' /\ NoThreadLost'
  BY <1>1, <1>2, <1>3, <1>4 DEF QueuesInv, TypeOK, FreedSound, NoThreadLost
<1> QED BY <1>4, <1>5, <1>6, <1>7, <1>8, <1>9 DEF QueuesInv

\* rt_thread_resume on a waiter of o.
LEMMA WakeWaiter ==
    ASSUME QueuesInv, NEW o \in Objects, NEW u \in Range(q.wait[o]),
           NEW r, r = Resumed(q, u)
    PROVE  /\ u \in Threads /\ q.stat[u] = "suspend" /\ u # Idle
           /\ \A t \in Threads : Holds(t) => arg[t] # u
           /\ r \in Queues /\ QueuesSound(r)
           /\ r.stat = [q.stat EXCEPT ![u] = "ready"] /\ r.prio = q.prio
           /\ \A x \in Objects : Range(r.wait[x]) = Range(q.wait[x]) \ {u}
           /\ Range(r.defunct) = Range(q.defunct)
<1>1. q \in Queues /\ QueuesSound(q) /\ q.wait[o] \in Seq(Threads)
  BY DEF QueuesInv, TypeOK, Queues
<1>2. u \in Threads
  BY <1>1, EmptyLemma
<1>3. q.stat[u] = "suspend"
  BY <1>1, <1>2 DEF QueuesSound, ListsSound
<1>4. u # Idle
  BY <1>3 DEF QueuesInv, IdleReady
<1>5. \A t \in Threads : Holds(t) => arg[t] # u
  BY <1>2 DEF QueuesInv, HeldAlone
<1>6. r = InsertThread(Unlinked(q, u), u)
  BY <1>3 DEF Resumed
<1>7. /\ r \in Queues /\ QueuesSound(r)
      /\ r.stat = [q.stat EXCEPT ![u] = "ready"] /\ r.prio = q.prio
      /\ \A x \in Objects : Range(r.wait[x]) = Range(q.wait[x]) \ {u}
      /\ Range(r.defunct) = Range(q.defunct)
  <2>1. r \in Queues /\ QueuesSound(r) /\ WokenUp(q, r, u)
    BY <1>1, <1>2, <1>3, <1>6, WakeLemma
  <2> QED BY <2>1 DEF WokenUp
<1> QED BY <1>2, <1>3, <1>4, <1>5, <1>7

LEMMA ReleaseStep ==
    ASSUME QueuesInv, NEW t \in Threads, NEW o \in Objects, Release(t, o)
    PROVE  QueuesInv'
<1> DEFINE u == Head(q.wait[o])
<1>1. /\ pc[t] = "run" /\ sw.current = t /\ t # Idle
      /\ pc' = [pc EXCEPT ![t] = "schedule"]
  BY Running, SchedulerAssumption DEF Release, Invokes, At, Goto
<1>2. /\ sw' = sw /\ lock' = lock /\ rem' = rem
      /\ arg' = arg /\ then' = then /\ isr' = isr /\ freed' = freed
  BY DEF Release
<1>3. q.stat \in [Threads -> Stats]
  BY StatusTypes DEF QueuesInv, TypeOK
<1>4. /\ u \in Threads /\ q.stat[u] = "suspend" /\ u # Idle
      /\ \A x \in Threads : Holds(x) => arg[x] # u
      /\ q' \in Queues /\ QueuesSound(q')
      /\ q'.stat = [q.stat EXCEPT ![u] = "ready"] /\ q'.prio = q.prio
      /\ \A x \in Objects : Range(q'.wait[x]) = Range(q.wait[x]) \ {u}
      /\ Range(q'.defunct) = Range(q.defunct)
  <2>1. u \in Range(q.wait[o]) /\ q' = Resumed(q, u)
    BY EmptyLemma DEF Release, QueuesInv, TypeOK, Queues
  <2> HIDE DEF u
  <2> QED BY <2>1, WakeWaiter
<1>5. armed' = armed \ {u}
  BY <1>4 DEF Release
<1> HIDE DEF u
<1>6. TypeOK'
  BY <1>1, <1>2, <1>4, <1>5 DEF QueuesInv, TypeOK, Positions
<1>7. SwitchInv' /\ IdleReady' /\ TimeoutFindsSuspended'
  BY <1>1, <1>2, <1>3, <1>4, <1>5 DEF QueuesInv, TypeOK, IdleReady, TimeoutFindsSuspended,
                          SwitchInv, SwitchWords, SwitchSound
<1>8. HeldAlone'
  BY <1>1, <1>2, <1>3, <1>4, <1>5 DEF QueuesInv, TypeOK, HeldAlone, Holds
<1>9. CurrentSound' /\ Scheduled'
  BY <1>1, <1>2, <1>3, <1>4 DEF QueuesInv, TypeOK, CurrentSound, Scheduled
<1>11. NoThreadLost'
  BY <1>1, <1>2, <1>3, <1>4, <1>5 DEF QueuesInv, TypeOK, NoThreadLost, Holds
<1>12. FreedSound'
  BY <1>2, <1>3, <1>4 DEF QueuesInv, TypeOK, FreedSound
<1> QED BY <1>4, <1>6, <1>7, <1>8, <1>9, <1>11, <1>12 DEF QueuesInv

\* rt_thread_exit, which only the current thread reaches.
LEMMA ExitStep ==
    ASSUME QueuesInv, NEW t \in Threads, Exit(t)
    PROVE  QueuesInv'
<1>1. /\ pc[t] = "run" /\ sw.current = t /\ t # Idle /\ q.stat[t] = "ready" /\ lock = 0
      /\ pc' = [pc EXCEPT ![t] = "schedule"] /\ armed' = armed \ {t}
  BY Running, RunningReady, SchedulerAssumption DEF Exit, Invokes, At, Goto
<1>2. /\ sw' = sw /\ lock' = lock /\ rem' = rem
      /\ arg' = arg /\ then' = then /\ isr' = isr /\ freed' = freed
  BY DEF Exit
<1>3. q.stat \in [Threads -> Stats] /\ q \in Queues /\ QueuesSound(q)
  BY StatusTypes DEF QueuesInv, TypeOK
<1>4. /\ q' \in Queues /\ QueuesSound(q')
      /\ q'.stat = [q.stat EXCEPT ![t] = "close"] /\ q'.prio = q.prio
      /\ \A x \in Objects : Range(q'.wait[x]) = Range(q.wait[x])
      /\ Range(q'.defunct) \subseteq Range(q.defunct) \union {t}
  <2> DEFINE r == Labelled(RemoveThread(q, t), t, "close")
  <2>1. "close" \in Stats \ {"ready"}
    BY DEF Stats
  <2>2. /\ r \in Queues /\ QueuesSound(r) /\ Free(r, t)
        /\ r.stat = [q.stat EXCEPT ![t] = "close"] /\ r.prio = q.prio
        /\ \A x \in Objects : Range(r.wait[x]) = Range(q.wait[x])
        /\ Range(r.defunct) = Range(q.defunct)
    BY <1>1, <1>3, <2>1, RemoveLemma
  <2>3. q' = IF t \in Static THEN r ELSE Dying(r, <<t>> \o r.defunct)
    BY DEF Exit, Labelled, Dying
  <2> HIDE DEF r
  <2>4. CASE t \in Static
    BY <2>2, <2>3, <2>4
  <2>5. CASE t \notin Static
    <3>1. r.stat[t] = "close"
      BY <1>3, <2>2
    <3>2. q' = Dying(r, <<t>> \o r.defunct)
      BY <2>3, <2>5
    <3>3. q' \in Queues /\ QueuesSound(q') /\ Buried(r, q', t)
      BY <2>2, <3>1, <3>2, DefunctLemma
    <3> QED BY <2>2, <3>3 DEF Buried
  <2> QED BY <2>4, <2>5
<1>5. TypeOK'
  BY <1>1, <1>2, <1>4 DEF QueuesInv, TypeOK, Positions
<1>6. SwitchInv' /\ IdleReady' /\ TimeoutFindsSuspended'
  BY <1>1, <1>2, <1>3, <1>4 DEF QueuesInv, TypeOK, IdleReady, TimeoutFindsSuspended,
                          SwitchInv, SwitchWords, SwitchSound
<1>7. HeldAlone'
  BY <1>1, <1>2, <1>3, <1>4 DEF QueuesInv, TypeOK, HeldAlone, Holds
<1>8. CurrentSound' /\ Scheduled'
  BY <1>1, <1>2, <1>3, <1>4 DEF QueuesInv, TypeOK, CurrentSound, Scheduled
<1>9. FreedSound' /\ NoThreadLost'
  BY <1>1, <1>2, <1>3, <1>4 DEF QueuesInv, TypeOK, FreedSound, NoThreadLost
<1> QED BY <1>4, <1>5, <1>6, <1>7, <1>8, <1>9 DEF QueuesInv

\* rt_thread_startup takes a thread no list, timer or other call knows of.
LEMMA StartupStep ==
    ASSUME QueuesInv, NEW t \in Threads, NEW u \in Threads, Startup(t, u)
    PROVE  QueuesInv'
<1>1. /\ pc[t] = "run" /\ sw.current = t /\ t # Idle /\ q.stat[u] = "init" /\ u # t
      /\ pc' = [pc EXCEPT ![t] = "unlink"] /\ arg' = [arg EXCEPT ![t] = u]
      /\ then' = [then EXCEPT ![t] = "schedule"]
  BY Running, SchedulerAssumption DEF Startup, Invokes, At, Goto, QueuesInv, CurrentSound
<1>2. /\ sw' = sw /\ lock' = lock /\ rem' = rem /\ armed' = armed
      /\ isr' = isr /\ freed' = freed
  BY DEF Startup
<1>3. q.stat \in [Threads -> Stats] /\ q \in Queues /\ QueuesSound(q)
  BY StatusTypes DEF QueuesInv, TypeOK
<1>4. /\ q' \in Queues /\ QueuesSound(q')
      /\ q'.stat = [q.stat EXCEPT ![u] = "suspend"] /\ q'.ready = q.ready
      /\ q'.group = q.group /\ q'.wait = q.wait /\ q'.defunct = q.defunct
  <2> DEFINE s == "suspend"
             p == InitPrio[u]
  <2>1. q' = Relabelled(q, u, s, p)
    BY <1>3 DEF Startup, Relabelled, Queues
  <2>2. s \in Stats \ {"ready"} /\ p \in Prios
    BY SchedulerAssumption DEF Stats
  <2>3. Free(q, u)
    BY <1>1, <1>3, FreeByStatus
  <2>4. s = "suspend"
    OBVIOUS
  <2> HIDE DEF s, p
  <2>5. /\ q' \in Queues /\ QueuesSound(q')
        /\ q'.stat = [q.stat EXCEPT ![u] = s] /\ q'.ready = q.ready
        /\ q'.group = q.group /\ q'.wait = q.wait /\ q'.defunct = q.defunct
    BY <1>3, <2>1, <2>2, <2>3, RelabelLemma
  <2> QED BY <2>4, <2>5
<1>5. NextThread(q') = NextThread(q)
  BY <1>4, NextSame
<1>6. \A o \in Objects : u \notin Range(q.wait[o])
  BY <1>1, <1>3 DEF QueuesSound, ListsSound
<1>7. TypeOK'
  BY <1>1, <1>2, <1>4 DEF QueuesInv, TypeOK, Positions, ThreadOrNone
<1>8. SwitchInv' /\ IdleReady' /\ TimeoutFindsSuspended'
  BY <1>1, <1>2, <1>3, <1>4 DEF QueuesInv, TypeOK, IdleReady, TimeoutFindsSuspended,
                          SwitchInv, SwitchWords, SwitchSound
<1>9. HeldAlone'
  <2>1. \A x \in Threads \ {t} : /\ pc'[x] = pc[x] /\ arg'[x] = arg[x]
                                 /\ then'[x] = then[x]
    BY <1>1 DEF QueuesInv, TypeOK
  <2>2. pc'[t] = "unlink" /\ arg'[t] = u /\ then'[t] = "schedule"
    BY <1>1 DEF QueuesInv, TypeOK
  <2>3. \A x \in Threads : q'.stat[x] = IF x = u THEN "suspend" ELSE q.stat[x]
    BY <1>3, <1>4
  <2>4. q.stat[t] # "close" /\ u \notin armed
    BY <1>1 DEF QueuesInv, CurrentSound, TimeoutFindsSuspended
  <2>5. \A x \in Threads : Holds(x) => arg[x] # u
    BY <1>1 DEF QueuesInv, HeldAlone
  <2>6. ASSUME NEW x \in Threads
        PROVE  /\ pc'[x] \notin {"suspend", "detach", "close"}
               /\ Holds(x)' =>
                    /\ q'.stat[x] # "close"
                    /\ arg'[x] \in Threads \ {sw.current} /\ q'.stat[arg'[x]] = "suspend"
                    /\ arg'[x] \notin armed
                    /\ \A o \in Objects : arg'[x] \notin Range(q.wait[o])
                    /\ then'[x] = "schedule"
                    /\ \A y \in Threads : Holds(y)' /\ arg'[y] = arg'[x] => y = x
    <3>1. CASE x = t
      BY <1>1, <1>6, <2>1, <2>2, <2>3, <2>4, <2>5, <3>1 DEF Holds
    <3>2. CASE x # t
      BY <2>1, <2>2, <2>3, <2>5, <3>2 DEF QueuesInv, HeldAlone, Holds
    <3> QED BY <3>1, <3>2
  <2> QED BY <1>2, <1>4, <2>6 DEF HeldAlone
<1>10. CurrentSound' /\ Scheduled'
  BY <1>1, <1>2, <1>3, <1>4, <1>5 DEF QueuesInv, TypeOK, CurrentSound, Scheduled
<1>11. FreedSound' /\ NoThreadLost'
  BY <1>1, <1>2, <1>3, <1>4 DEF QueuesInv, TypeOK, FreedSound, NoThreadLost
<1> QED BY <1>4, <1>7, <1>8, <1>9, <1>10, <1>11 DEF QueuesInv

\* The section of rt_thread_resume finds the thread on no list.
LEMMA ResumeUnlinkStep ==
    ASSUME QueuesInv, NEW t \in Threads, ResumeUnlink(t)
    PROVE  QueuesInv'
<1>1. /\ pc[t] = "unlink" /\ sw.current = t /\ t # Idle
      /\ pc' = [pc EXCEPT ![t] = "insert"]
  BY Running DEF ResumeUnlink, At, Goto, QueuesInv, IdleReady
<1>2. /\ arg[t] \in Threads /\ q.stat[arg[t]] = "suspend" /\ arg[t] \notin armed
      /\ \A o \in Objects : arg[t] \notin Range(q.wait[o])
  BY <1>1 DEF QueuesInv, HeldAlone, Holds
<1>3. q' = q /\ armed' = armed
  <2>1. Free(q, arg[t])
    BY <1>2, FreeByStatus DEF QueuesInv, TypeOK
  <2>2. Unlinked(q, arg[t]) = q
    BY <1>2, <2>1, UnlinkedFree DEF QueuesInv, TypeOK
  <2> QED BY <1>2, <2>2 DEF ResumeUnlink
<1>4. /\ sw' = sw /\ lock' = lock /\ rem' = rem
      /\ arg' = arg /\ then' = then /\ isr' = isr /\ freed' = freed
  BY DEF ResumeUnlink
<1>5. TypeOK'
  BY <1>1, <1>3, <1>4 DEF QueuesInv, TypeOK, Positions
<1>6. SwitchInv' /\ QueuesSound(q)' /\ IdleReady' /\ TimeoutFindsSuspended'
  <2>1. SwitchInv' /\ QueuesSound(q)'
    BY <1>3, <1>4 DEF QueuesInv, SwitchInv, SwitchWords, SwitchSound
  <2>2. IdleReady' /\ TimeoutFindsSuspended'
    BY <1>1, <1>3, <1>4 DEF QueuesInv, TypeOK, IdleReady, TimeoutFindsSuspended
  <2> QED BY <2>1, <2>2
<1>7. HeldAlone'
  BY <1>1, <1>3, <1>4 DEF QueuesInv, TypeOK, HeldAlone, Holds
<1>8. CurrentSound' /\ Scheduled'
  BY <1>1, <1>3, <1>4 DEF QueuesInv, TypeOK, CurrentSound, Scheduled
<1>9. FreedSound' /\ NoThreadLost'
  BY <1>1, <1>3, <1>4 DEF QueuesInv, TypeOK, FreedSound, NoThreadLost
<1> QED BY <1>5, <1>6, <1>7, <1>8, <1>9 DEF QueuesInv

\* Its call of rt_schedule_insert_thread, after which rt_schedule is due.
LEMMA ResumeInsertStep ==
    ASSUME QueuesInv, NEW t \in Threads, ResumeInsert(t)
    PROVE  QueuesInv'
<1> DEFINE u == arg[t]
<1>1. /\ pc[t] = "insert" /\ sw.current = t /\ t # Idle /\ then[t] = "schedule"
      /\ pc' = [pc EXCEPT ![t] = "schedule"]
  BY Running DEF ResumeInsert, At, Goto, QueuesInv, IdleReady, HeldAlone, Holds
<1>2. /\ u \in Threads /\ q.stat[u] = "suspend" /\ u \notin armed
      /\ \A o \in Objects : u \notin Range(q.wait[o])
      /\ \A x \in Threads : Holds(x) /\ arg[x] = u => x = t
  BY <1>1 DEF QueuesInv, HeldAlone, Holds
<1>3. /\ sw' = sw /\ lock' = lock /\ rem' = rem /\ armed' = armed
      /\ arg' = arg /\ then' = then /\ isr' = isr /\ freed' = freed
  BY DEF ResumeInsert
<1>4. q.stat \in [Threads -> Stats] /\ q \in Queues /\ QueuesSound(q)
  BY StatusTypes DEF QueuesInv, TypeOK
<1>5. q' = InsertThread(q, u)
  BY DEF ResumeInsert
<1> HIDE DEF u
<1>6. /\ q' \in Queues /\ QueuesSound(q')
      /\ q'.stat = [q.stat EXCEPT ![u] = "ready"]
      /\ q'.prio = q.prio /\ q'.wait = q.wait /\ q'.defunct = q.defunct
  <2>1. Free(q, u)
    BY <1>2, <1>4, FreeByStatus
  <2> QED BY <1>2, <1>4, <1>5, <2>1, InsertLemma
<1>7. TypeOK'
  BY <1>1, <1>3, <1>6 DEF QueuesInv, TypeOK, Positions
<1>8. SwitchInv' /\ IdleReady' /\ TimeoutFindsSuspended'
  BY <1>1, <1>2, <1>3, <1>4, <1>6 DEF QueuesInv, TypeOK, IdleReady, TimeoutFindsSuspended,
                          SwitchInv, SwitchWords, SwitchSound
<1>9. HeldAlone'
  <2>1. \A x \in Threads : /\ Holds(x)' => Holds(x) /\ arg[x] # u
                           /\ pc'[x] \notin {"suspend", "detach", "close"}
    BY <1>1, <1>2 DEF QueuesInv, TypeOK, HeldAlone, Holds
  <2>2. \A x \in Threads : /\ x # u => q'.stat[x] = q.stat[x]
                           /\ q'.stat[x] = "close" => q.stat[x] = "close"
    BY <1>2, <1>4, <1>6
  <2> QED BY <1>3, <1>6, <2>1, <2>2 DEF QueuesInv, HeldAlone
<1>10. CurrentSound' /\ Scheduled'
  BY <1>1, <1>3, <1>4, <1>6 DEF QueuesInv, TypeOK, CurrentSound, Scheduled
<1>11. FreedSound' /\ NoThreadLost'
  BY <1>1, <1>2, <1>3, <1>4, <1>6 DEF QueuesInv, TypeOK, FreedSound, NoThreadLost, Holds
<1> QED BY <1>6, <1>7, <1>8, <1>9, <1>10, <1>11 DEF QueuesInv

\* A control block that was given back is on no list and is not current.
LEMMA CreateStep ==
    ASSUME QueuesInv, NEW t \in Threads, NEW u \in Threads, Create(t, u)
    PROVE  QueuesInv'
<1>1. /\ pc[t] = "run" /\ sw.current = t /\ q.stat[u] = "close"
      /\ pc' = [pc EXCEPT ![u] = "run"] /\ freed' = freed \ {u}
  BY Running DEF Create, Invokes, At, Goto
<1>2. u # t /\ u # Idle
  BY <1>1 DEF QueuesInv, CurrentSound, IdleReady
<1>3. /\ sw' = sw /\ lock' = lock /\ rem' = [rem EXCEPT ![u] = Slice[u]]
      /\ armed' = armed /\ arg' = arg /\ then' = then /\ isr' = isr
  BY DEF Create
<1>4. q.stat \in [Threads -> Stats] /\ q \in Queues /\ QueuesSound(q)
  BY StatusTypes DEF QueuesInv, TypeOK
<1>5. /\ q' \in Queues /\ QueuesSound(q')
      /\ q'.stat = [q.stat EXCEPT ![u] = "init"] /\ q'.ready = q.ready
      /\ q'.group = q.group /\ q'.wait = q.wait /\ q'.defunct = q.defunct
  <2> DEFINE s == "init"
             p == InitPrio[u]
  <2>1. q' = Relabelled(q, u, s, p)
    BY <1>4 DEF Create, Relabelled, Queues
  <2>2. s \in Stats \ {"ready"} /\ p \in Prios
    BY SchedulerAssumption DEF Stats
  <2>3. u \notin Range(q.defunct)
    BY DEF Create, QueuesInv, FreedSound
  <2>4. Free(q, u)
    BY <1>1, <1>4, <2>3, FreeByStatus
  <2>5. s = "init"
    OBVIOUS
  <2> HIDE DEF s, p
  <2>6. /\ q' \in Queues /\ QueuesSound(q')
        /\ q'.stat = [q.stat EXCEPT ![u] = s] /\ q'.ready = q.ready
        /\ q'.group = q.group /\ q'.wait = q.wait /\ q'.defunct = q.defunct
    BY <1>4, <2>1, <2>2, <2>4, RelabelLemma
  <2> QED BY <2>5, <2>6
<1>6. NextThread(q') = NextThread(q)
  BY <1>5, NextSame
<1>7. TypeOK'
  BY <1>1, <1>3, <1>5, SchedulerAssumption DEF QueuesInv, TypeOK, Positions
<1>8. SwitchInv' /\ IdleReady' /\ TimeoutFindsSuspended'
  BY <1>1, <1>2, <1>3, <1>4, <1>5 DEF QueuesInv, TypeOK, IdleReady, TimeoutFindsSuspended,
                          SwitchInv, SwitchWords, SwitchSound
<1>9. HeldAlone'
  BY <1>1, <1>2, <1>3, <1>4, <1>5 DEF QueuesInv, TypeOK, HeldAlone, Holds
<1>10. CurrentSound' /\ Scheduled'
  BY <1>1, <1>2, <1>3, <1>4, <1>5, <1>6 DEF QueuesInv, TypeOK, CurrentSound, Scheduled
<1>11. FreedSound'
  BY <1>1, <1>3, <1>4, <1>5 DEF QueuesInv, TypeOK, FreedSound
<1>12. ~Holds(u)
  BY <1>1 DEF QueuesInv, HeldAlone
<1>13. NoThreadLost'
  BY <1>1, <1>2, <1>3, <1>4, <1>5, <1>12 DEF QueuesInv, TypeOK, NoThreadLost, Holds
<1> QED BY <1>5, <1>7, <1>8, <1>9, <1>10, <1>11, <1>13 DEF QueuesInv

\* The idle thread frees the thread it takes off the defunct list: the
\* processor is its own, and no switch is pending.
LEMMA ReapStep ==
    ASSUME QueuesInv, Reap
    PROVE  QueuesInv'
<1> DEFINE u == Head(q.defunct)
<1>1. /\ pc[Idle] = "run" /\ sw.current = Idle /\ sw.cpu = Idle
      /\ freed' \subseteq freed \union {u}
  BY Running, SchedulerAssumption DEF Reap, At
<1>2. /\ lock' = lock /\ rem' = rem /\ armed' = armed /\ pc' = pc
      /\ arg' = arg /\ then' = then /\ isr' = isr
  BY DEF Reap
<1>3. q.stat \in [Threads -> Stats] /\ q \in Queues /\ QueuesSound(q)
  BY StatusTypes DEF QueuesInv, TypeOK
<1>4. u \in Range(q.defunct) /\ u \in Threads
  BY <1>3, EmptyLemma DEF Reap, Queues
<1>5. q.stat[u] = "close" /\ q.stat[u] # "ready" /\ u # Idle
  BY <1>3, <1>4 DEF QueuesSound, ListsSound, QueuesInv, IdleReady
<1>6. q' = Unlinked(q, u)
  BY DEF Reap
<1>15. sw' = Rescheduled(q', sw)
  BY DEF Reap
<1> HIDE DEF u
<1>7. /\ q' \in Queues /\ QueuesSound(q') /\ q'.stat = q.stat /\ q'.prio = q.prio
      /\ \A o \in Objects : Range(q'.wait[o]) = Range(q.wait[o]) \ {u}
      /\ Range(q'.defunct) = Range(q.defunct) \ {u}
  <2>1. q \in Queues /\ QueuesSound(q) /\ u \in Threads /\ q.stat[u] # "ready"
    BY <1>3, <1>4, <1>5
  <2>2. q' \in Queues /\ QueuesSound(q') /\ Without(q, q', u)
    BY <1>6, <2>1, UnlinkedSound
  <2> QED BY <2>2 DEF Without
<1>8. /\ SwitchInv' /\ sw' \in Switches /\ sw'.cpu = sw.cpu
      /\ IF lock = 0 THEN /\ sw'.current = NextThread(q')
                         /\ sw'.current \in Threads
                         /\ q'.stat[sw'.current] = "ready"
                     ELSE sw' = sw
  BY <1>7, <1>15, RescheduleLemma DEF QueuesInv, IdleReady
<1>9. TypeOK'
  BY <1>1, <1>2, <1>4, <1>7, <1>8 DEF QueuesInv, TypeOK
<1>10. IdleReady' /\ TimeoutFindsSuspended'
  BY <1>1, <1>2, <1>7 DEF QueuesInv, IdleReady, TimeoutFindsSuspended
<1>11. HeldAlone'
  BY <1>2, <1>7, <1>8 DEF QueuesInv, HeldAlone, Holds
<1>12. CurrentSound' /\ Scheduled'
  BY <1>2, <1>7, <1>8 DEF QueuesInv, CurrentSound, Scheduled
<1>13. FreedSound'
  BY <1>1, <1>4, <1>5, <1>7, <1>8 DEF QueuesInv, FreedSound
<1>14. NoThreadLost'
  BY <1>2, <1>5, <1>7 DEF QueuesInv, NoThreadLost
<1> QED BY <1>7, <1>8, <1>9, <1>10, <1>11, <1>12, <1>13, <1>14 DEF QueuesInv

\* A pending switch is taken.
LEMMA PendSVStep ==
    ASSUME QueuesInv, PendSV
    PROVE  QueuesInv'
<1>1. /\ q' = q /\ lock' = lock /\ armed' = armed /\ rem' = rem /\ pc' = pc
      /\ arg' = arg /\ then' = then /\ isr' = isr /\ freed' = freed
  BY DEF PendSV
<1>2. sw.flag /\ sw.to = sw.current /\ sw \in Switches
  BY DEF PendSV, QueuesInv, SwitchInv, SwitchSound, TypeOK
<1>3. sw' = [current |-> sw.current, cpu |-> sw.to, from |-> sw.from,
             to |-> sw.to, flag |-> FALSE]
  BY <1>2 DEF PendSV, Switches
<1>4. SwitchInv' /\ sw' \in Switches /\ sw'.current = sw.current /\ sw'.cpu = sw.current
  BY <1>2, <1>3 DEF SwitchInv, SwitchWords, SwitchSound, Switches
<1>5. TypeOK' /\ QueuesSound(q)' /\ IdleReady' /\ TimeoutFindsSuspended' /\ NoThreadLost'
  BY <1>1, <1>4 DEF QueuesInv, TypeOK, IdleReady, TimeoutFindsSuspended, NoThreadLost
<1>6. HeldAlone' /\ CurrentSound' /\ Scheduled' /\ FreedSound'
  BY <1>1, <1>4 DEF QueuesInv, HeldAlone, Holds, CurrentSound, Scheduled, FreedSound
<1> QED BY <1>4, <1>5, <1>6 DEF QueuesInv

\* The tick charges the current thread and may turn its list round; the
\* rt_schedule of that yield, and the end of the handler.
LEMMA TickStep ==
    ASSUME QueuesInv, Tick
    PROVE  QueuesInv'
<1>1. /\ lock' = lock /\ armed' = armed /\ pc' = pc /\ sw' = sw
      /\ arg' = arg /\ then' = then /\ freed' = freed
  BY DEF Tick
<1>2. isr = "none" /\ isr' \in {"schedule", "timers"} /\ (isr' = "timers" => q' = q)
  BY DEF Tick
<1>3. q \in Queues /\ QueuesSound(q) /\ sw.current \in Threads
  BY DEF QueuesInv, TypeOK, CurrentSound
<1>4. /\ q' \in Queues /\ QueuesSound(q') /\ q'.stat = q.stat /\ q'.prio = q.prio
      /\ q'.wait = q.wait /\ q'.defunct = q.defunct
  <2>1. CASE q' = q
    BY <1>3, <2>1
  <2>2. CASE q' = Rotated(q, sw.current) /\ q.stat[sw.current] = "ready"
    BY <1>3, <2>2, RotateLemma
  <2> QED BY <2>1, <2>2 DEF Tick
<1>5. rem' \in [Threads -> Nat \ {0}]
  <2> DEFINE t == sw.current
             n == IF rem[t] = 1 THEN Slice[t] ELSE rem[t] - 1
  <2>1. rem \in [Threads -> Nat \ {0}] /\ t \in Threads
    BY <1>3 DEF QueuesInv, TypeOK
  <2>2. n \in Nat \ {0}
    BY <2>1, SchedulerAssumption
  <2>3. rem' = [rem EXCEPT ![t] = n]
    BY DEF Tick
  <2> HIDE DEF n, t
  <2> QED BY <2>1, <2>2, <2>3
<1>6. TypeOK'
  BY <1>1, <1>2, <1>4, <1>5 DEF QueuesInv, TypeOK, IsrPositions
<1>7. SwitchInv' /\ IdleReady' /\ TimeoutFindsSuspended' /\ NoThreadLost'
  BY <1>1, <1>4 DEF QueuesInv, SwitchInv, SwitchWords, SwitchSound, IdleReady,
                    TimeoutFindsSuspended, NoThreadLost
<1>8. HeldAlone' /\ CurrentSound' /\ FreedSound'
  BY <1>1, <1>4 DEF QueuesInv, HeldAlone, Holds, CurrentSound, FreedSound
<1>9. Scheduled'
  BY <1>1, <1>2 DEF QueuesInv, Scheduled
<1> QED BY <1>4, <1>6, <1>7, <1>8, <1>9 DEF QueuesInv

LEMMA TickScheduleStep ==
    ASSUME QueuesInv, TickSchedule
    PROVE  QueuesInv'
<1>1. /\ q' = q /\ lock' = lock /\ armed' = armed /\ rem' = rem /\ pc' = pc
      /\ arg' = arg /\ then' = then /\ isr' = "timers" /\ freed' = freed
  BY DEF TickSchedule
<1>2. /\ SwitchInv' /\ sw' \in Switches /\ sw'.cpu = sw.cpu
      /\ IF lock = 0 THEN /\ sw'.current = NextThread(q)
                         /\ sw'.current \in Threads
                         /\ q.stat[sw'.current] = "ready"
                     ELSE sw' = sw
  BY RescheduleLemma DEF QueuesInv, TypeOK, IdleReady, TickSchedule, Schedule
<1>3. TypeOK' /\ QueuesSound(q)' /\ IdleReady' /\ TimeoutFindsSuspended' /\ NoThreadLost'
  BY <1>1, <1>2 DEF QueuesInv, TypeOK, IdleReady, TimeoutFindsSuspended, NoThreadLost,
                    IsrPositions
<1>4. HeldAlone' /\ CurrentSound'
  BY <1>1, <1>2 DEF QueuesInv, HeldAlone, Holds, CurrentSound
<1>5. Scheduled' /\ FreedSound'
  BY <1>1, <1>2 DEF QueuesInv, TypeOK, Scheduled, FreedSound
<1> QED BY <1>2, <1>3, <1>4, <1>5 DEF QueuesInv

LEMMA TickReturnStep ==
    ASSUME QueuesInv, TickReturn
    PROVE  QueuesInv'
<1>1. /\ q' = q /\ lock' = lock /\ armed' = armed /\ rem' = rem /\ pc' = pc /\ sw' = sw
      /\ arg' = arg /\ then' = then /\ freed' = freed
      /\ isr = "timers" /\ isr' = "none"
  BY DEF TickReturn
<1>2. TypeOK' /\ SwitchInv' /\ QueuesSound(q)' /\ IdleReady' /\ TimeoutFindsSuspended'
      /\ NoThreadLost'
  BY <1>1 DEF QueuesInv, TypeOK, IdleReady, TimeoutFindsSuspended, NoThreadLost,
              IsrPositions, SwitchInv, SwitchWords, SwitchSound
<1>3. HeldAlone' /\ CurrentSound' /\ Scheduled' /\ FreedSound'
  BY <1>1 DEF QueuesInv, HeldAlone, Holds, CurrentSound, Scheduled, FreedSound
<1> QED BY <1>2, <1>3 DEF QueuesInv

\* A handler makes u ready and calls rt_schedule: a thread's timer expired, or
\* it waits on an object another handler released.
LEMMA HandlerWakes ==
    ASSUME QueuesInv, NEW u \in Threads, q.stat[u] = "suspend",
           \A t \in Threads : Holds(t) => arg[t] # u,
           q' = InsertThread(Unlinked(q, u), u), armed' = armed \ {u},
           sw' = Rescheduled(q', sw),
           UNCHANGED <<lock, rem, pc, arg, then, isr, freed>>
    PROVE  QueuesInv'
<1>1. q.stat \in [Threads -> Stats] /\ q \in Queues /\ QueuesSound(q) /\ u # Idle
  BY StatusTypes DEF QueuesInv, TypeOK, IdleReady
<1>2. /\ q' \in Queues /\ QueuesSound(q')
      /\ q'.stat = [q.stat EXCEPT ![u] = "ready"] /\ q'.prio = q.prio
      /\ \A o \in Objects : Range(q'.wait[o]) = Range(q.wait[o]) \ {u}
      /\ Range(q'.defunct) = Range(q.defunct)
  <2>1. q' \in Queues /\ QueuesSound(q') /\ WokenUp(q, q', u)
    BY <1>1, WakeLemma
  <2> QED BY <2>1 DEF WokenUp
<1>3. q'.stat[Idle] = "ready"
  BY <1>1, <1>2, SchedulerAssumption DEF QueuesInv, IdleReady
<1>4. /\ SwitchInv' /\ sw' \in Switches /\ sw'.cpu = sw.cpu
      /\ IF lock = 0 THEN /\ sw'.current = NextThread(q')
                         /\ sw'.current \in Threads
                         /\ q'.stat[sw'.current] = "ready"
                     ELSE sw' = sw
  BY <1>2, <1>3, RescheduleLemma
<1>5. TypeOK'
  BY <1>2, <1>4 DEF QueuesInv, TypeOK
<1>6. IdleReady' /\ TimeoutFindsSuspended'
  BY <1>1, <1>2, <1>3 DEF QueuesInv, TypeOK, IdleReady, TimeoutFindsSuspended
<1>7. HeldAlone'
  BY <1>1, <1>2, <1>4 DEF QueuesInv, TypeOK, HeldAlone, Holds
<1>8. CurrentSound' /\ Scheduled'
  BY <1>1, <1>2, <1>4 DEF QueuesInv, TypeOK, CurrentSound, Scheduled
<1>9. FreedSound'
  BY <1>1, <1>2, <1>4 DEF QueuesInv, TypeOK, FreedSound
<1>10. NoThreadLost'
  BY <1>1, <1>2 DEF QueuesInv, TypeOK, NoThreadLost, Holds
<1> QED BY <1>2, <1>4, <1>5, <1>6, <1>7, <1>8, <1>9, <1>10 DEF QueuesInv

LEMMA HandlerStep ==
    ASSUME QueuesInv,
           (\E u \in Threads : Timeout(u)) \/ (\E o \in Objects : IsrRelease(o))
    PROVE  QueuesInv'
<1>1. ASSUME NEW u \in Threads, Timeout(u) PROVE QueuesInv'
  <2>1. q.stat[u] = "suspend" /\ \A t \in Threads : Holds(t) => arg[t] # u
    BY <1>1 DEF Timeout, QueuesInv, TimeoutFindsSuspended, HeldAlone
  <2> QED BY <1>1, <2>1, HandlerWakes DEF Timeout
<1>2. ASSUME NEW o \in Objects, IsrRelease(o) PROVE QueuesInv'
  <2> DEFINE u == Head(q.wait[o])
  <2>1. u \in Range(q.wait[o])
    BY <1>2, EmptyLemma DEF IsrRelease, QueuesInv, TypeOK, Queues
  <2>2. /\ q' = Resumed(q, u) /\ sw' = Rescheduled(q', sw)
        /\ armed' = IF q.stat[u] = "suspend" THEN armed \ {u} ELSE armed
        /\ UNCHANGED <<lock, rem, pc, arg, then, isr, freed>>
    BY <1>2 DEF IsrRelease
  <2> HIDE DEF u
  <2>3. /\ u \in Threads /\ q.stat[u] = "suspend"
        /\ \A t \in Threads : Holds(t) => arg[t] # u
    BY <2>1, WakeWaiter
  <2>4. q' = InsertThread(Unlinked(q, u), u) /\ armed' = armed \ {u}
    BY <2>2, <2>3 DEF Resumed
  <2> QED BY <2>2, <2>3, <2>4, HandlerWakes
<1> QED BY <1>1, <1>2

\* The lists rtthread_startup leaves.
LEMMA StartedSound ==
    /\ Started \in Queues /\ QueuesSound(Started)
    /\ NextThread(Started) \in Threads /\ Started.stat[NextThread(Started)] = "ready"
<1> DEFINE f == [p \in Prios |-> CASE p = InitPrio[Main] -> <<Main>>
                                   [] p = MaxPrio -> <<Idle>>
                                   [] OTHER -> <<>>]
           g == [t \in Threads |-> IF t \in {Main, Idle} THEN "ready" ELSE "init"]
           w == [o \in Objects |-> <<>>]
           e == <<>>
           h == {InitPrio[Main], MaxPrio}
<1>1. /\ InitPrio \in [Threads -> Prios] /\ InitPrio[Main] \in Prios /\ MaxPrio \in Prios
      /\ Main \in Threads /\ Idle \in Threads /\ Main # Idle /\ InitPrio[Main] # MaxPrio
      /\ InitPrio[Idle] = MaxPrio
  BY SchedulerAssumption, QueueAssumption DEF Prios
<1>2. \A p \in Prios : f[p] = IF p = InitPrio[Main] THEN <<Main>>
                             ELSE IF p = MaxPrio THEN <<Idle>> ELSE <<>>
  BY <1>1
<1>3. f \in [Prios -> Seq(Threads)]
  BY <1>1, <1>2
<1>4. Started = [stat |-> g, prio |-> InitPrio, ready |-> f, group |-> h, wait |-> w,
                 defunct |-> e]
  BY DEF Started
<1>5. /\ g \in [Threads -> Stats] /\ w \in [Objects -> Seq(Threads)]
      /\ e \in Seq(Threads) /\ h \in SUBSET Prios
  BY <1>1 DEF Stats
<1>6. Range(<<>>) = {} /\ \A t : Range(<<t>>) = {t}
  BY DEF Range
<1>7. Distinct(<<>>) /\ \A t : Distinct(<<t>>)
  BY DEF Distinct
<1>8. \A t \in Threads : g[t] = IF t \in {Main, Idle} THEN "ready" ELSE "init"
  OBVIOUS
<1>9. \A p \in Prios :
         /\ Distinct(f[p])
         /\ Range(f[p]) = IF p = InitPrio[Main] THEN {Main}
                          ELSE IF p = MaxPrio THEN {Idle} ELSE {}
         /\ f[p] # <<>> <=> p \in h
  BY <1>2, <1>6, <1>7
<1>10. \A o \in Objects : w[o] = <<>>
  OBVIOUS
<1>11. e = <<>>
  OBVIOUS
<1> HIDE DEF f, g, w, e
<1>12. Started \in Queues
  BY <1>1, <1>3, <1>4, <1>5, QueuesIntro
<1>13. ListsSound(Started)
  <2>1. \A p \in Prios : /\ Distinct(f[p])
                        /\ \A t \in Range(f[p]) : g[t] = "ready" /\ InitPrio[t] = p
    BY <1>1, <1>8, <1>9
  <2>2. /\ Started.stat = g /\ Started.prio = InitPrio /\ Started.ready = f
        /\ Started.wait = w /\ Started.defunct = e
    BY <1>4
  <2> QED BY <1>6, <1>7, <1>10, <1>11, <2>1, <2>2 DEF ListsSound
<1>14. ReadyLinked(Started)
  BY <1>1, <1>4, <1>8, <1>9 DEF ReadyLinked
<1>15. GroupExact(Started)
  BY <1>4, <1>9 DEF GroupExact
<1>16. Started.stat[Idle] = "ready"
  BY <1>1, <1>4, <1>8
<1> QED BY <1>1, <1>12, <1>13, <1>14, <1>15, <1>16, NextLemma DEF QueuesSound

\* The invariant holds in every reachable state of an application in which
\* nobody manages another thread.
THEOREM QueuesInvariant == ASSUME EverydayUse PROVE Spec => []QueuesInv
<1>1. Init => QueuesInv
  <2> SUFFICES ASSUME Init PROVE QueuesInv
    OBVIOUS
  <2>1. q = Started /\ Started \in Queues /\ QueuesSound(Started)
    BY StartedSound DEF Init
  <2>2. NextThread(Started) \in Threads /\ Started.stat[NextThread(Started)] = "ready"
    BY StartedSound
  <2> DEFINE n == NextThread(Started)
  <2> HIDE DEF n
  <2>3. /\ sw = [current |-> n, cpu |-> NoThread, from |-> NoThread, to |-> n, flag |-> TRUE]
        /\ lock = 0 /\ armed = {} /\ isr = "none" /\ freed = {} /\ rem = Slice
        /\ pc = [t \in Threads |-> "run"] /\ arg = [t \in Threads |-> NoThread]
        /\ then = [t \in Threads |-> "run"]
    BY <2>1 DEF Init, n
  <2>4. n \in Threads /\ q.stat[n] = "ready"
    BY <2>1, <2>2 DEF n
  <2>5. TypeOK
    BY <2>1, <2>3, <2>4, SchedulerAssumption
       DEF TypeOK, Switches, ThreadOrNone, Positions, IsrPositions
  <2>6. SwitchInv /\ CurrentSound /\ FreedSound /\ TimeoutFindsSuspended
    BY <2>3, <2>4, QueueAssumption DEF SwitchInv, SwitchWords, SwitchSound, CurrentSound,
                                       FreedSound, TimeoutFindsSuspended
  <2>7. HeldAlone /\ Scheduled
    BY <2>1, <2>3, <2>4 DEF HeldAlone, Holds, Scheduled, n
  <2>8. IdleReady /\ NoThreadLost
    BY <2>1, <2>3, SchedulerAssumption DEF IdleReady, NoThreadLost, Started
  <2> QED BY <2>1, <2>5, <2>6, <2>7, <2>8 DEF QueuesInv
<1>2. QueuesInv /\ [Next]_vars => QueuesInv'
  <2> SUFFICES ASSUME QueuesInv, [Next]_vars PROVE QueuesInv'
    OBVIOUS
  <2>1. ASSUME NEW t \in Threads, KernelStep(t) PROVE QueuesInv'
    <3>1. pc[t] \notin {"suspend", "detach", "close"}
      BY DEF QueuesInv, HeldAlone
    <3>2. CallSchedule(t) \/ ResumeUnlink(t) \/ ResumeInsert(t)
      BY <2>1, <3>1 DEF KernelStep, SuspendSection, DeleteTimer, DeleteClose, At
    <3> QED BY <3>2, CallScheduleStep, ResumeUnlinkStep, ResumeInsertStep
  <2>2. ASSUME NEW t \in Threads, KernelCall(t) PROVE QueuesInv'
    <3>1. \A u \in Threads : ~SuspendCheck(t, u) /\ ~Resume(t, u) /\ ~Delete(t, u)
      BY DEF EverydayUse, SuspendCheck, Resume, Delete, Invokes
    <3>2. \A u \in Threads : \A p \in Prios : ~ChangePriority(t, u, p)
      BY DEF EverydayUse, ChangePriority, Invokes
    <3>3. CASE \/ ScheduleCall(t) \/ EnterCritical(t) \/ ExitCritical(t)
               \/ Yield(t) \/ Sleep(t) \/ Exit(t)
      BY <3>3, ScheduleCallStep, CriticalStep, YieldStep, SleepStep, ExitStep
    <3>4. CASE \E o \in Objects : Release(t, o) \/ \E timed \in BOOLEAN : Block(t, o, timed)
      BY <3>4, ReleaseStep, BlockStep
    <3>5. CASE \E u \in Threads : Startup(t, u) \/ Create(t, u)
      BY <3>5, StartupStep, CreateStep
    <3> QED BY <2>2, <3>1, <3>2, <3>3, <3>4, <3>5 DEF KernelCall
  <2>3. CASE SysTick
    BY <2>3, TickStep, TickScheduleStep, TickReturnStep, HandlerStep DEF SysTick
  <2>4. CASE \E o \in Objects : IsrRelease(o)
    BY <2>4, HandlerStep
  <2>5. CASE UNCHANGED vars
    <3>1. TypeOK' /\ SwitchInv' /\ QueuesSound(q)' /\ IdleReady' /\ TimeoutFindsSuspended'
      BY <2>5 DEF vars, QueuesInv, TypeOK, SwitchInv, SwitchWords, SwitchSound, IdleReady,
                  TimeoutFindsSuspended
    <3>2. HeldAlone' /\ CurrentSound' /\ Scheduled' /\ FreedSound' /\ NoThreadLost'
      BY <2>5 DEF vars, QueuesInv, HeldAlone, Holds, CurrentSound, Scheduled, FreedSound,
                  NoThreadLost
    <3> QED BY <3>1, <3>2 DEF QueuesInv
  <2> QED BY <2>1, <2>2, <2>3, <2>4, <2>5, ReapStep, PendSVStep DEF Next
<1> QED BY <1>1, <1>2, PTL DEF Spec

\* In such an application the ready lists, the statuses, the priorities and
\* the bitmap of rt_schedule agree in every reachable state: see ListsAgree.
THEOREM ListsSafety == ASSUME EverydayUse PROVE Spec => []ListsAgree
<1>1. QueuesInv => ListsAgree
  BY DEF QueuesInv, ListsAgree
<1> QED BY <1>1, QueuesInvariant, PTL

\* The thread that executes with the scheduler unlocked is the one rt_schedule
\* would pick, however it got there: see HighestRuns.
THEOREM PriorityRuns == ASSUME EverydayUse PROVE Spec => []HighestRuns
<1>1. QueuesInv => HighestRuns
  <2> SUFFICES ASSUME QueuesInv, NEW t \in Threads, At(t, "run"), lock = 0
               PROVE  NextThread(q) = t
    BY DEF HighestRuns
  <2>1. sw.current = t /\ isr = "none" /\ pc[t] = "run"
    BY Running DEF At
  <2> QED BY <2>1 DEF QueuesInv, Scheduled
<1> QED BY <1>1, QueuesInvariant, PTL

\* rt_thread_timeout finds its thread suspended, as the assertion at its head
\* demands: see TimeoutFindsSuspended.
THEOREM TimeoutSafety == ASSUME EverydayUse PROVE Spec => []TimeoutFindsSuspended
<1>1. QueuesInv => TimeoutFindsSuspended
  BY DEF QueuesInv
<1> QED BY <1>1, QueuesInvariant, PTL

\* Every suspended thread can still be woken: see NoThreadLost.
THEOREM WakeUpSafety == ASSUME EverydayUse PROVE Spec => []NoThreadLost
<1>1. QueuesInv => NoThreadLost
  BY DEF QueuesInv
<1> QED BY <1>1, QueuesInvariant, PTL

\* What the idle thread freed is on no list, has no timer and is on neither side
\* of a switch: see FreedUnused.
THEOREM ReapSafety == ASSUME EverydayUse PROVE Spec => []FreedUnused
<1>1. QueuesInv => FreedUnused
  <2> SUFFICES ASSUME QueuesInv, NEW t \in freed
               PROVE  /\ t \notin {sw.cpu, sw.current} \union armed
                      /\ sw.flag => t \notin {sw.from, sw.to}
                      /\ Unlinked(q, t) = q
    BY DEF FreedUnused
  <2>1. /\ t \in Threads /\ q.stat[t] = "close" /\ t \notin Range(q.defunct)
        /\ t # sw.cpu /\ t # sw.current
    BY DEF QueuesInv, FreedSound, TypeOK
  <2>2. t \notin armed
    BY <2>1 DEF QueuesInv, TimeoutFindsSuspended
  <2>3. sw.flag => sw.from = sw.cpu /\ sw.to = sw.current
    BY DEF QueuesInv, SwitchInv, SwitchSound
  <2>4. Unlinked(q, t) = q
    BY <2>1, FreeByStatus, UnlinkedFree DEF QueuesInv, TypeOK
  <2> QED BY <2>1, <2>2, <2>3, <2>4
<1> QED BY <1>1, QueuesInvariant, PTL

\* Types hold, and rt_schedule always finds a thread: see TypeOK and SomeoneRuns.
THEOREM TypeSafety == ASSUME EverydayUse PROVE Spec => [](TypeOK /\ SomeoneRuns)
<1>1. QueuesInv => TypeOK /\ SomeoneRuns
  <2> SUFFICES ASSUME QueuesInv PROVE TypeOK /\ SomeoneRuns
    OBVIOUS
  <2>1. NextThread(q) \in Threads
    BY NextLemma, SchedulerAssumption DEF QueuesInv, TypeOK, IdleReady
  <2> QED BY <2>1, QueueAssumption DEF QueuesInv, SomeoneRuns
<1> QED BY <1>1, QueuesInvariant, PTL
-----------------------------------------------------------------------------
(* The order on the ready lists.                                            *)

\* What a kernel routine does to a ready list l: nothing, x leaves it, or x is
\* put at its end.
Moved(l, r, x) == r \in {l, Unlink(l, x), Append(Unlink(l, x), x)}

\* rt_list_remove changes nobody's order.
LEMMA UnlinkKeepsOrder ==
    ASSUME NEW l \in Seq(Threads), NEW x, NEW t, NEW u, Before(Unlink(l, x), t, u)
    PROVE  Before(l, t, u)
<1>1. CASE x \notin Range(l)
  BY <1>1 DEF Unlink
<1>2. CASE x \in Range(l)
  <2> DEFINE k == IndexOf(l, x)
             r == Unlink(l, x)
  <2>1. /\ k \in 1..Len(l) /\ r \in Seq(Threads) /\ Len(r) = Len(l) - 1
        /\ \A i \in 1..Len(l) - 1 : r[i] = IF i < k THEN l[i] ELSE l[i+1]
    BY <1>2, UnlinkPlace
  <2>2. PICK i \in DOMAIN r, j \in DOMAIN r : i < j /\ r[i] = t /\ r[j] = u
    BY DEF Before
  <2> HIDE DEF k, r
  <2>3. i \in 1..Len(l) - 1 /\ j \in 1..Len(l) - 1
    BY <2>1, <2>2
  <2>4. PICK a \in DOMAIN l : r[i] = l[a] /\ a = IF i < k THEN i ELSE i + 1
    BY <2>1, <2>3
  <2>5. PICK b \in DOMAIN l : r[j] = l[b] /\ b = IF j < k THEN j ELSE j + 1
    BY <2>1, <2>3
  <2>6. a < b
    BY <2>1, <2>2, <2>3, <2>4, <2>5
  <2> QED BY <2>2, <2>4, <2>5, <2>6 DEF Before
<1> QED BY <1>1, <1>2

\* Two threads on one list are in one order only.
LEMMA OneOrder ==
    ASSUME NEW l \in Seq(Threads), Distinct(l), NEW t, NEW u, Before(l, t, u)
    PROVE  ~Before(l, u, t) /\ t \in Range(l) /\ u \in Range(l) /\ t # u
<1>1. PICK i \in 1..Len(l), j \in 1..Len(l) : i < j /\ l[i] = t /\ l[j] = u
  BY DEF Before
<1>2. \A a, b \in 1..Len(l) : l[a] = l[b] => a = b
  BY DEF Distinct
<1>3. ASSUME NEW a \in 1..Len(l), NEW b \in 1..Len(l), a < b, l[a] = u, l[b] = t
      PROVE  FALSE
  <2>1. a = j /\ b = i
    BY <1>1, <1>2, <1>3
  <2> QED BY <1>1, <1>3, <2>1
<1>4. ~Before(l, u, t)
  BY <1>3 DEF Before
<1>5. t \in Range(l) /\ u \in Range(l)
  BY <1>1 DEF Range
<1>6. t # u
  BY <1>1, <1>2
<1> QED BY <1>4, <1>5, <1>6

\* Only x itself falls behind somebody.
LEMMA MovedFallsBehind ==
    ASSUME NEW l \in Seq(Threads), Distinct(l), NEW x \in Threads, NEW r, Moved(l, r, x),
           NEW t, NEW u, Before(l, t, u), Before(r, u, t)
    PROVE  t = x /\ t \in Range(l)
<1> DEFINE k == Unlink(l, x)
<1>1. k \in Seq(Threads) /\ Distinct(k)
  BY UnlinkLemma
<1>2. ~Before(l, u, t) /\ t \in Range(l)
  BY OneOrder
<1>3. ~Before(k, u, t)
  BY <1>2, UnlinkKeepsOrder
<1>4. r = Append(k, x)
  BY <1>2, <1>3 DEF Moved
<1> HIDE DEF k
<1>5. /\ Len(r) = Len(k) + 1 /\ DOMAIN r = 1..Len(k) + 1 /\ r[Len(k) + 1] = x
      /\ \A i \in 1..Len(k) : r[i] = k[i]
  BY <1>1, <1>4
<1>6. PICK i \in DOMAIN r, j \in DOMAIN r : i < j /\ r[i] = u /\ r[j] = t
  BY DEF Before
<1>7. CASE j \in 1..Len(k)
  <2>1. i \in 1..Len(k) /\ k[i] = u /\ k[j] = t
    BY <1>1, <1>5, <1>6, <1>7
  <2> QED BY <1>1, <1>3, <1>6, <1>7, <2>1 DEF Before
<1>8. CASE j = Len(k) + 1
  BY <1>2, <1>5, <1>6, <1>8
<1> QED BY <1>1, <1>5, <1>6, <1>7, <1>8

\* The routines of the thread lists, seen from the ready lists.
LEMMA RoutinesMove ==
    ASSUME NEW r \in Queues, NEW x \in Threads, NEW p \in Prios
    PROVE  /\ Moved(r.ready[p], Unlinked(r, x).ready[p], x)
           /\ Moved(r.ready[p], RemoveThread(r, x).ready[p], x)
           /\ Moved(r.ready[p], Suspended(r, x).ready[p], x)
           /\ \A o \in Objects : Moved(r.ready[p], WaitFifo(r, o, x).ready[p], x)
           /\ Moved(r.ready[p], InsertThread(Unlinked(r, x), x).ready[p], x)
           /\ Moved(r.ready[p], Rotated(r, x).ready[p], x)
<1> DEFINE l == r.ready[p]
           f == [y \in Prios |-> Unlink(r.ready[y], x)]
<1>1. \A s : Unlinked([r EXCEPT !.stat[x] = s], x).ready = f
  BY DEF Unlinked, Queues
<1>2. f[p] = Unlink(l, x) /\ r.ready \in [Prios -> Seq(Threads)]
  BY DEF Queues
<1>3. Unlinked(r, x).ready = f /\ RemoveThread(r, x).ready = f
  BY DEF Unlinked, RemoveThread, Queues
<1>4. Suspended(r, x).ready = f
  <2> DEFINE m == [r EXCEPT !.stat[x] = "suspend"]
  <2>1. RemoveThread(m, x).ready = Unlinked(m, x).ready
    BY DEF RemoveThread, Unlinked, Queues
  <2> QED BY <1>1, <2>1 DEF Suspended
<1>5. ASSUME NEW o \in Objects PROVE WaitFifo(r, o, x).ready \in {f, r.ready}
  <2>1. \A s, w : [s EXCEPT !.wait[o] = w].ready = s.ready
    OBVIOUS
  <2> QED BY <1>4, <2>1 DEF WaitFifo
<1>6. InsertThread(Unlinked(r, x), x).ready = [f EXCEPT ![r.prio[x]] = Append(f[r.prio[x]], x)]
  BY DEF InsertThread, Unlinked, Queues
<1>7. Rotated(r, x).ready = [r.ready EXCEPT ![r.prio[x]] = Append(f[r.prio[x]], x)]
  BY DEF Rotated, Queues
<1> DEFINE g == r.prio[x]
<1>8. g \in Prios /\ DOMAIN f = Prios
  BY DEF Queues
<1> HIDE DEF f, g
<1>9. /\ InsertThread(Unlinked(r, x), x).ready[p] = IF p = g THEN Append(f[p], x) ELSE f[p]
      /\ Rotated(r, x).ready[p] = IF p = g THEN Append(f[p], x) ELSE l
  BY <1>2, <1>6, <1>7, <1>8 DEF g
<1> QED BY <1>2, <1>3, <1>4, <1>5, <1>9 DEF Moved

\* A step moves at most one thread: one that comes from no ready list, or goes
\* to none, or gives way.
Moves(x) ==
    /\ \/ q.stat[x] # "ready" \/ q'.stat[x] # "ready"
       \/ sw.current = x /\ (Yields(x) \/ UsedUp(x))
    /\ \A p \in Prios : Moved(q.ready[p], q'.ready[p], x)
OneMoves == q'.ready = q.ready \/ \E x \in Threads : Moves(x)

\* What a thread does moves that thread, or one it wakes.
LEMMA CallMoves ==
    ASSUME QueuesInv, NEW t \in Threads, EverydayUse, KernelCall(t) PROVE OneMoves
<1>1. sw.current = t /\ q \in Queues
  BY Running DEF QueuesInv, TypeOK, KernelCall, ScheduleCall, EnterCritical,
                 ExitCritical, Yield, Sleep, Exit, Release, Block, SuspendCheck, Resume,
                 Startup, Create, Delete, ChangePriority, Invokes, At
<1>2. /\ \A u \in Threads : ~SuspendCheck(t, u) /\ ~Resume(t, u) /\ ~Delete(t, u)
      /\ \A u \in Threads : \A p \in Prios : ~ChangePriority(t, u, p)
  BY DEF EverydayUse, SuspendCheck, Resume, Delete, ChangePriority, Invokes
<1>3. CASE \/ ScheduleCall(t) \/ EnterCritical(t) \/ ExitCritical(t)
           \/ \E u \in Threads : Startup(t, u) \/ Create(t, u)
  <2>1. q'.ready = q.ready
    BY <1>1, <1>3 DEF ScheduleCall, EnterCritical, ExitCritical, Startup, Create, Queues
  <2> QED BY <2>1 DEF OneMoves
<1>4. CASE Yield(t)
  <2>1. q' = Rotated(q, t) /\ Invokes(t, "yield") /\ pc' = [pc EXCEPT ![t] = "schedule"]
    BY <1>4 DEF Yield, Goto
  <2>2. Yields(t)
    BY <2>1 DEF Yields, QueuesInv, TypeOK
  <2> QED BY <1>1, <2>1, <2>2, RoutinesMove DEF OneMoves, Moves
<1>5. CASE Sleep(t)
  <2>1. q' = Suspended(q, t) \/ q' = q
    BY <1>5 DEF Sleep
  <2>2. Suspended(q, t).stat[t] # "ready"
    BY <1>1 DEF Suspended, RemoveThread, Unlinked, Queues
  <2> QED BY <1>1, <2>1, <2>2, RoutinesMove DEF OneMoves, Moves
<1>6. CASE Exit(t)
  <2>1. q'.ready = RemoveThread(q, t).ready /\ q'.stat[t] = "close"
    BY <1>1, <1>6 DEF Exit, RemoveThread, Unlinked, Queues
  <2> QED BY <1>1, <2>1, RoutinesMove DEF OneMoves, Moves
<1>7. ASSUME NEW o \in Objects, NEW timed \in BOOLEAN, Block(t, o, timed) PROVE OneMoves
  <2>1. q' = WaitFifo(q, o, t)
    BY <1>7 DEF Block
  <2>2. q.stat[t] = "ready" => WaitFifo(q, o, t).stat[t] # "ready"
    BY <1>1 DEF WaitFifo, Suspended, RemoveThread, Unlinked, Queues
  <2> QED BY <1>1, <1>7, <2>1, <2>2, RoutinesMove DEF OneMoves, Moves
<1>8. ASSUME NEW o \in Objects, Release(t, o) PROVE OneMoves
  <2> DEFINE u == Head(q.wait[o])
  <2>1. u \in Range(q.wait[o]) /\ q' = Resumed(q, u)
    BY <1>8, EmptyLemma DEF Release, QueuesInv, TypeOK, Queues
  <2> HIDE DEF u
  <2>2. u \in Threads /\ q.stat[u] = "suspend"
    BY <2>1, WakeWaiter
  <2>3. q' = InsertThread(Unlinked(q, u), u)
    BY <2>1, <2>2 DEF Resumed
  <2> QED BY <1>1, <2>2, <2>3, RoutinesMove DEF OneMoves, Moves
<1> QED BY <1>2, <1>3, <1>4, <1>5, <1>6, <1>7, <1>8 DEF KernelCall

\* The same of the kernel's own steps: the end of a start-up, and the reaping
\* of a dead thread.
LEMMA StepMoves ==
    ASSUME QueuesInv, (\E t \in Threads : KernelStep(t)) \/ Reap PROVE OneMoves
<1>1. q \in Queues /\ QueuesSound(q)
  BY DEF QueuesInv, TypeOK
<1>2. CASE Reap
  <2> DEFINE u == Head(q.defunct)
  <2>1. u \in Range(q.defunct) /\ u \in Threads /\ q' = Unlinked(q, u)
    BY <1>1, <1>2, EmptyLemma DEF Reap, Queues
  <2> HIDE DEF u
  <2>2. q.stat[u] = "close"
    BY <1>1, <2>1 DEF QueuesSound, ListsSound
  <2> QED BY <1>1, <2>1, <2>2, RoutinesMove DEF OneMoves, Moves
<1>3. ASSUME NEW t \in Threads, KernelStep(t) PROVE OneMoves
  <2>1. pc[t] \notin {"suspend", "detach", "close"}
    BY DEF QueuesInv, HeldAlone
  <2>2. CallSchedule(t) \/ ResumeUnlink(t) \/ ResumeInsert(t)
    BY <1>3, <2>1 DEF KernelStep, SuspendSection, DeleteTimer, DeleteClose, At
  <2>3. CASE CallSchedule(t)
    BY <2>3 DEF CallSchedule, OneMoves
  <2>4. ASSUME Holds(t)
        PROVE  /\ arg[t] \in Threads /\ q.stat[arg[t]] = "suspend"
               /\ Free(q, arg[t])
    <3>1. /\ arg[t] \in Threads /\ q.stat[arg[t]] = "suspend"
          /\ \A o \in Objects : arg[t] \notin Range(q.wait[o])
      BY <2>4 DEF QueuesInv, HeldAlone
    <3> QED BY <1>1, <3>1, FreeByStatus
  <2>5. CASE ResumeUnlink(t)
    <3>1. Holds(t) /\ q' = Unlinked(q, arg[t])
      BY <2>5 DEF ResumeUnlink, At, Holds
    <3> QED BY <1>1, <2>4, <3>1, RoutinesMove DEF OneMoves, Moves
  <2>6. CASE ResumeInsert(t)
    <3>1. Holds(t) /\ q' = InsertThread(q, arg[t])
      BY <2>6 DEF ResumeInsert, At, Holds
    <3>2. q' = InsertThread(Unlinked(q, arg[t]), arg[t])
      BY <1>1, <2>4, <3>1, UnlinkedFree
    <3> QED BY <1>1, <2>4, <3>1, <3>2, RoutinesMove DEF OneMoves, Moves
  <2> QED BY <2>2, <2>3, <2>5, <2>6
<1> QED BY <1>2, <1>3

\* The same of the handlers.
LEMMA HandlerMoves ==
    ASSUME QueuesInv, SysTick \/ PendSV \/ \E o \in Objects : IsrRelease(o) PROVE OneMoves
<1>1. q \in Queues /\ QueuesSound(q) /\ sw.current \in Threads
  BY DEF QueuesInv, TypeOK, CurrentSound
<1>2. CASE PendSV \/ TickSchedule \/ TickReturn
  BY <1>2 DEF PendSV, TickSchedule, TickReturn, OneMoves
<1>3. CASE Tick
  <2>1. q' = q \/ (q' = Rotated(q, sw.current) /\ UsedUp(sw.current))
    BY <1>3 DEF Tick, UsedUp
  <2> QED BY <1>1, <2>1, RoutinesMove DEF OneMoves, Moves
<1>4. ASSUME NEW u \in Threads, q.stat[u] = "suspend",
             q' = InsertThread(Unlinked(q, u), u)
      PROVE  OneMoves
  BY <1>1, <1>4, RoutinesMove DEF OneMoves, Moves
<1>5. ASSUME NEW u \in Threads, Timeout(u) PROVE OneMoves
  BY <1>4, <1>5 DEF Timeout, QueuesInv, TimeoutFindsSuspended
<1>6. ASSUME NEW o \in Objects, IsrRelease(o) PROVE OneMoves
  <2> DEFINE u == Head(q.wait[o])
  <2>1. u \in Range(q.wait[o]) /\ q' = Resumed(q, u)
    BY <1>6, EmptyLemma DEF IsrRelease, QueuesInv, TypeOK, Queues
  <2> HIDE DEF u
  <2>2. u \in Threads /\ q.stat[u] = "suspend"
    BY <2>1, WakeWaiter
  <2> QED BY <1>4, <2>1, <2>2 DEF Resumed
<1> QED BY <1>2, <1>3, <1>5, <1>6 DEF SysTick

\* The tick that ends the slice of a thread puts it behind its equals.
LEMMA UsedUpFallsBehind ==
    ASSUME QueuesInv, Next, NEW p \in Prios, NEW t \in Threads, NEW u \in Threads,
           Before(q.ready[p], t, u), UsedUp(t)
    PROVE  Before(q'.ready[p], u, t)
<1> DEFINE l == q.ready[p]
           m == Unlink(l, t)
<1>1. q \in Queues /\ QueuesSound(q) /\ l \in Seq(Threads) /\ Distinct(l)
  BY DEF QueuesInv, TypeOK, Queues, QueuesSound, ListsSound
<1>2. t \in Range(l) /\ u \in Range(l) /\ t # u
  BY <1>1, OneOrder
<1>3. q.stat[t] = "ready" /\ q.prio[t] = p
  BY <1>1, <1>2 DEF QueuesSound, ListsSound
<1>4. Tick
  <2>1. isr = "none" /\ isr' # isr
    BY DEF UsedUp
  <2>2. \A x \in Threads : ~KernelStep(x)
    BY <2>1 DEF KernelStep, CallSchedule, SuspendSection, ResumeUnlink, ResumeInsert,
                DeleteTimer, DeleteClose
  <2>3. \A x \in Threads : ~KernelCall(x)
    BY <2>1 DEF KernelCall, ScheduleCall, EnterCritical, ExitCritical, Yield, Sleep, Exit,
                Release, Block, SuspendCheck, Resume, Startup, Create, Delete, ChangePriority
  <2>4. ~Reap /\ ~PendSV /\ ~TickSchedule /\ ~TickReturn
    BY <2>1 DEF Reap, PendSV, TickSchedule, TickReturn
  <2>5. /\ \A x \in Threads : ~Timeout(x)
        /\ \A o \in Objects : ~IsrRelease(o)
    BY <2>1 DEF Timeout, IsrRelease
  <2> QED BY <2>2, <2>3, <2>4, <2>5 DEF Next, SysTick
<1>5. Shares(t)
  <2>1. PICK i \in 1..Len(l), j \in 1..Len(l) : i < j
    BY <1>1 DEF Before
  <2> HIDE DEF l
  <2>2. Len(l) \in Nat /\ Len(l) > 1
    BY <1>1, <2>1
  <2> QED BY <1>3, <2>2 DEF Shares, l
<1>6. q' = Rotated(q, t)
  BY <1>3, <1>4, <1>5 DEF Tick, UsedUp
<1>7. q'.ready[p] = Append(m, t)
  BY <1>1, <1>3, <1>6 DEF Rotated, Queues
<1>8. m \in Seq(Threads) /\ u \in Range(m)
  BY <1>1, <1>2, UnlinkLemma
<1> HIDE DEF m
<1>9. PICK i \in 1..Len(m) : m[i] = u
  BY <1>8 DEF Range
<1>10. /\ Len(m) \in Nat /\ DOMAIN Append(m, t) = 1..Len(m) + 1
       /\ Append(m, t)[i] = u /\ Append(m, t)[Len(m) + 1] = t
  BY <1>8, <1>9
<1>11. i < Len(m) + 1 /\ i \in 1..Len(m) + 1 /\ Len(m) + 1 \in 1..Len(m) + 1
  BY <1>9, <1>10
<1> QED BY <1>7, <1>10, <1>11 DEF Before

\* Threads of one priority keep their order, but for the current one when it
\* yields or used its slice up, and then it goes behind them: see FifoAmongEquals.
THEOREM FifoOrder == ASSUME EverydayUse PROVE Spec => FifoAmongEquals
<1> DEFINE A == \A p \in Prios : \A t, u \in Threads : Before(q.ready[p], t, u) =>
          /\ Before(q'.ready[p], u, t) => sw.current = t /\ (Yields(t) \/ UsedUp(t))
          /\ UsedUp(t) => Before(q'.ready[p], u, t)
<1>1. QueuesInv /\ QueuesInv' /\ [Next]_vars => [A]_vars
  <2> SUFFICES ASSUME QueuesInv, QueuesInv', Next,
                      NEW p \in Prios, NEW t \in Threads, NEW u \in Threads,
                      Before(q.ready[p], t, u)
               PROVE  /\ Before(q'.ready[p], u, t) =>
                              sw.current = t /\ (Yields(t) \/ UsedUp(t))
                      /\ UsedUp(t) => Before(q'.ready[p], u, t)
    OBVIOUS
  <2>1. ASSUME Before(q'.ready[p], u, t)
        PROVE  sw.current = t /\ (Yields(t) \/ UsedUp(t))
    <3>1. q.ready[p] \in Seq(Threads) /\ Distinct(q.ready[p])
      BY DEF QueuesInv, TypeOK, Queues, QueuesSound, ListsSound
    <3>2. q'.ready # q.ready
      BY <2>1, <3>1, OneOrder
    <3>3. OneMoves
      BY CallMoves, StepMoves, HandlerMoves DEF Next
    <3>4. PICK x \in Threads : Moves(x)
      BY <3>2, <3>3 DEF OneMoves
    <3>5. t = x /\ t \in Range(q.ready[p])
      BY <2>1, <3>1, <3>4, MovedFallsBehind DEF Moves
    <3>6. q'.ready[p] \in Seq(Threads) /\ t \in Range(q'.ready[p])
      <4>1. q'.ready[p] \in Seq(Threads) /\ Distinct(q'.ready[p])
        BY DEF QueuesInv, TypeOK, Queues, QueuesSound, ListsSound
      <4> QED BY <2>1, <4>1, OneOrder
    <3>7. q.stat[t] = "ready" /\ q'.stat[t] = "ready"
      BY <3>5, <3>6 DEF QueuesInv, QueuesSound, ListsSound
    <3> QED BY <3>4, <3>5, <3>7 DEF Moves
  <2> QED BY <2>1, UsedUpFallsBehind
<1>2. Spec => []QueuesInv
  BY QueuesInvariant
<1> QED BY <1>1, <1>2, PTL DEF Spec, FifoAmongEquals
-----------------------------------------------------------------------------
(* The thread lists while one thread is in hand: rt_thread_resume and       *)
(* rt_thread_delete take it off its list in one section and put it back, or *)
(* close it, in another.                                                    *)

\* r is g but for the status of h, and for bits S the bitmap of r may have set
\* although their lists are empty.
Alike(r, g, h, S) ==
    /\ r.prio = g.prio /\ r.ready = g.ready /\ r.wait = g.wait /\ r.defunct = g.defunct
    /\ \A t \in Threads \ {h} : r.stat[t] = g.stat[t]
    /\ g.group \subseteq r.group /\ r.group \subseteq g.group \union S

\* The lists r are sound but for thread h, which is on none of them whatever its
\* status, and for the bits S.
Whole(r, h, S) ==
    /\ r \in Queues
    /\ \E g \in Queues : /\ QueuesSound(g) /\ Alike(r, g, h, S)
                         /\ h \in Threads => g.stat[h] = "init"

\* With nobody in hand nothing is excepted.
LEMMA WholeExact ==
    ASSUME NEW r
    PROVE  Whole(r, NoThread, {}) <=> r \in Queues /\ QueuesSound(r)
<1>1. ASSUME r \in Queues, QueuesSound(r) PROVE Whole(r, NoThread, {})
  BY <1>1, QueueAssumption DEF Whole, Alike
<1>2. ASSUME Whole(r, NoThread, {}) PROVE r \in Queues /\ QueuesSound(r)
  <2>1. r \in Queues
    BY <1>2 DEF Whole
  <2>2. PICK g \in Queues : QueuesSound(g) /\ Alike(r, g, NoThread, {})
    BY <1>2 DEF Whole
  <2>3. r.stat = g.stat
    <3>1. r.stat \in [Threads -> Stats] /\ g.stat \in [Threads -> Stats]
      BY <2>1 DEF Queues
    <3>2. \A t \in Threads : r.stat[t] = g.stat[t]
      BY <2>2, QueueAssumption DEF Alike
    <3> QED BY <3>1, <3>2
  <2>4. r.group = g.group
    BY <2>2 DEF Alike
  <2>5. r = g
    <3>1. /\ r = [stat |-> r.stat, prio |-> r.prio, ready |-> r.ready, group |-> r.group,
                  wait |-> r.wait, defunct |-> r.defunct]
          /\ g = [stat |-> g.stat, prio |-> g.prio, ready |-> g.ready, group |-> g.group,
                  wait |-> g.wait, defunct |-> g.defunct]
      BY <2>1 DEF Queues
    <3>2. r.prio = g.prio /\ r.ready = g.ready /\ r.wait = g.wait /\ r.defunct = g.defunct
      BY <2>2 DEF Alike
    <3> QED BY <2>3, <2>4, <3>1, <3>2
  <2> QED BY <2>1, <2>2, <2>5
<1> QED BY <1>1, <1>2

\* The routines do to one what they do to the other.
LEMMA UnlinkFields ==
    ASSUME NEW r \in Queues, NEW t, NEW s, s = Unlinked(r, t)
    PROVE  s =
             [stat |-> r.stat, prio |-> r.prio, group |-> r.group,
              ready |-> [p \in Prios |-> Unlink(r.ready[p], t)],
              wait |-> [o \in Objects |-> Unlink(r.wait[o], t)],
              defunct |-> Unlink(r.defunct, t)]
  BY DEF Unlinked, Queues

LEMMA InsertFields ==
    ASSUME NEW r \in Queues, NEW t \in Threads, NEW s, s = InsertThread(r, t)
    PROVE  s =
             [stat |-> [r.stat EXCEPT ![t] = "ready"], prio |-> r.prio,
              group |-> r.group \union {r.prio[t]},
              ready |-> [r.ready EXCEPT ![r.prio[t]] = Append(r.ready[r.prio[t]], t)],
              wait |-> r.wait, defunct |-> r.defunct]
  BY DEF InsertThread, Queues

LEMMA RemoveFields ==
    ASSUME NEW r \in Queues, NEW t \in Threads, NEW s, s = RemoveThread(r, t)
    PROVE  s =
             [Unlinked(r, t) EXCEPT
                !.group = IF Unlink(r.ready[r.prio[t]], t) = <<>>
                          THEN r.group \ {r.prio[t]} ELSE r.group]
<1>1. Unlinked(r, t).ready = [p \in Prios |-> Unlink(r.ready[p], t)] /\ r.prio[t] \in Prios
  <2>1. Unlinked(r, t) =
             [stat |-> r.stat, prio |-> r.prio, group |-> r.group,
              ready |-> [p \in Prios |-> Unlink(r.ready[p], t)],
              wait |-> [o \in Objects |-> Unlink(r.wait[o], t)],
              defunct |-> Unlink(r.defunct, t)]
    BY UnlinkFields
  <2> QED BY <2>1 DEF Queues
<1>2. Unlinked(r, t).ready[r.prio[t]] = Unlink(r.ready[r.prio[t]], t)
  BY <1>1
<1> QED BY <1>2 DEF RemoveThread

LEMMA AlikeUnlink ==
    ASSUME NEW r \in Queues, NEW g \in Queues, NEW h, NEW S, Alike(r, g, h, S), NEW t
    PROVE  /\ Alike(Unlinked(r, t), Unlinked(g, t), h, S)
           /\ Unlinked(r, t) \in Queues /\ Unlinked(g, t) \in Queues
<1>1. Unlinked(r, t) \in Queues /\ Unlinked(g, t) \in Queues
  BY UnlinkedOnly
<1>2. /\ r.prio = g.prio /\ r.ready = g.ready /\ r.wait = g.wait /\ r.defunct = g.defunct
      /\ \A u \in Threads \ {h} : r.stat[u] = g.stat[u]
      /\ g.group \subseteq r.group /\ r.group \subseteq g.group \union S
  BY DEF Alike
<1>3. /\ Unlinked(r, t).prio = Unlinked(g, t).prio
      /\ Unlinked(r, t).ready = Unlinked(g, t).ready
      /\ Unlinked(r, t).wait = Unlinked(g, t).wait
      /\ Unlinked(r, t).defunct = Unlinked(g, t).defunct
      /\ Unlinked(r, t).stat = r.stat /\ Unlinked(g, t).stat = g.stat
      /\ Unlinked(r, t).group = r.group /\ Unlinked(g, t).group = g.group
  BY <1>2, UnlinkFields
<1> QED BY <1>1, <1>2, <1>3 DEF Alike

LEMMA AlikeInsert ==
    ASSUME NEW r \in Queues, NEW g \in Queues, NEW h, NEW S, Alike(r, g, h, S),
           NEW t \in Threads
    PROVE  /\ Alike(InsertThread(r, t), InsertThread(g, t), h, S)
           /\ InsertThread(r, t) \in Queues /\ InsertThread(g, t) \in Queues
           /\ InsertThread(r, t).stat = [r.stat EXCEPT ![t] = "ready"]
           /\ InsertThread(r, t).prio = r.prio
<1>1. InsertThread(r, t) \in Queues /\ InsertThread(g, t) \in Queues
  BY InsertOnly
<1>2. /\ r.prio = g.prio /\ r.ready = g.ready /\ r.wait = g.wait /\ r.defunct = g.defunct
      /\ \A u \in Threads \ {h} : r.stat[u] = g.stat[u]
      /\ g.group \subseteq r.group /\ r.group \subseteq g.group \union S
  BY DEF Alike
<1> DEFINE ri == InsertThread(r, t)
           gi == InsertThread(g, t)
<1>0. /\ ri = [stat |-> [r.stat EXCEPT ![t] = "ready"], prio |-> r.prio,
              group |-> r.group \union {r.prio[t]},
              ready |-> [r.ready EXCEPT ![r.prio[t]] = Append(r.ready[r.prio[t]], t)],
              wait |-> r.wait, defunct |-> r.defunct]
      /\ gi = [stat |-> [g.stat EXCEPT ![t] = "ready"], prio |-> g.prio,
              group |-> g.group \union {g.prio[t]},
              ready |-> [g.ready EXCEPT ![g.prio[t]] = Append(g.ready[g.prio[t]], t)],
              wait |-> g.wait, defunct |-> g.defunct]
  BY InsertFields
<1> HIDE DEF ri, gi
<1>3. /\ ri.prio = gi.prio /\ ri.ready = gi.ready /\ ri.wait = gi.wait
      /\ ri.defunct = gi.defunct /\ ri.prio = r.prio
      /\ ri.stat = [r.stat EXCEPT ![t] = "ready"]
      /\ gi.stat = [g.stat EXCEPT ![t] = "ready"]
      /\ ri.group = r.group \union {g.prio[t]}
      /\ gi.group = g.group \union {g.prio[t]}
  BY <1>0, <1>2
<1>4. r.stat \in [Threads -> Stats] /\ g.stat \in [Threads -> Stats]
  BY DEF Queues
<1>5. \A u \in Threads \ {h} : ri.stat[u] = gi.stat[u]
  BY <1>2, <1>3, <1>4
<1>6. gi.group \subseteq ri.group /\ ri.group \subseteq gi.group \union S
  BY <1>2, <1>3
<1> QED BY <1>1, <1>3, <1>5, <1>6 DEF Alike, ri, gi

LEMMA AlikeRemove ==
    ASSUME NEW r \in Queues, NEW g \in Queues, NEW h, NEW S, Alike(r, g, h, S),
           NEW t \in Threads
    PROVE  /\ Alike(RemoveThread(r, t), RemoveThread(g, t), h, S)
           /\ RemoveThread(r, t) \in Queues /\ RemoveThread(g, t) \in Queues
           /\ RemoveThread(r, t).stat = r.stat /\ RemoveThread(r, t).prio = r.prio
<1>1. RemoveThread(r, t) \in Queues /\ RemoveThread(g, t) \in Queues
  BY RemoveOnly
<1> DEFINE ur == Unlinked(r, t)
           ug == Unlinked(g, t)
           p == g.prio[t]
           e == Unlink(g.ready[p], t) = <<>>
<1>2. /\ ur \in Queues /\ ug \in Queues /\ Alike(ur, ug, h, S) /\ ur.stat = r.stat
      /\ ur.prio = r.prio /\ ur.group = r.group /\ ug.group = g.group
  BY AlikeUnlink, UnlinkedOnly
<1>3. /\ RemoveThread(r, t) = [ur EXCEPT !.group = IF e THEN r.group \ {p} ELSE r.group]
      /\ RemoveThread(g, t) = [ug EXCEPT !.group = IF e THEN g.group \ {p} ELSE g.group]
  BY RemoveFields DEF Alike
<1> HIDE DEF ur, ug, e, p
<1>4. /\ RemoveThread(r, t).stat = ur.stat /\ RemoveThread(g, t).stat = ug.stat
      /\ RemoveThread(r, t).prio = ur.prio /\ RemoveThread(g, t).prio = ug.prio
      /\ RemoveThread(r, t).ready = ur.ready /\ RemoveThread(g, t).ready = ug.ready
      /\ RemoveThread(r, t).wait = ur.wait /\ RemoveThread(g, t).wait = ug.wait
      /\ RemoveThread(r, t).defunct = ur.defunct /\ RemoveThread(g, t).defunct = ug.defunct
      /\ RemoveThread(r, t).group = IF e THEN r.group \ {p} ELSE r.group
      /\ RemoveThread(g, t).group = IF e THEN g.group \ {p} ELSE g.group
  BY <1>2, <1>3 DEF Queues
<1>5. g.group \subseteq r.group /\ r.group \subseteq g.group \union S
  BY DEF Alike
<1> QED BY <1>1, <1>2, <1>4, <1>5 DEF Alike

LEMMA AlikeLabel ==
    ASSUME NEW r \in Queues, NEW g \in Queues, NEW h, NEW S, Alike(r, g, h, S),
           NEW t \in Threads, NEW s \in Stats
    PROVE  /\ Alike(Labelled(r, t, s), Labelled(g, t, s), h, S)
           /\ Labelled(r, t, s) \in Queues /\ Labelled(g, t, s) \in Queues
           /\ Labelled(r, t, s).stat = [r.stat EXCEPT ![t] = s]
           /\ Labelled(r, t, s).prio = r.prio /\ Labelled(r, t, s).defunct = r.defunct
<1>1. /\ Labelled(r, t, s) = [stat |-> [r.stat EXCEPT ![t] = s], prio |-> r.prio,
            ready |-> r.ready, group |-> r.group, wait |-> r.wait, defunct |-> r.defunct]
      /\ Labelled(g, t, s) = [stat |-> [g.stat EXCEPT ![t] = s], prio |-> g.prio,
            ready |-> g.ready, group |-> g.group, wait |-> g.wait, defunct |-> g.defunct]
  BY LabelledFields
<1>2. r.stat \in [Threads -> Stats] /\ g.stat \in [Threads -> Stats]
  BY DEF Queues
<1>3. /\ [r.stat EXCEPT ![t] = s] \in [Threads -> Stats]
      /\ [g.stat EXCEPT ![t] = s] \in [Threads -> Stats]
      /\ \A u \in Threads \ {h} : r.stat[u] = g.stat[u]
            => [r.stat EXCEPT ![t] = s][u] = [g.stat EXCEPT ![t] = s][u]
  BY <1>2
<1>4. Labelled(r, t, s) \in Queues /\ Labelled(g, t, s) \in Queues
  BY <1>1, <1>3, QueuesIntro DEF Queues
<1> QED BY <1>1, <1>3, <1>4 DEF Alike

LEMMA AlikeSuspend ==
    ASSUME NEW r \in Queues, NEW g \in Queues, NEW h, NEW S, Alike(r, g, h, S),
           NEW t \in Threads
    PROVE  /\ Alike(Suspended(r, t), Suspended(g, t), h, S)
           /\ Suspended(r, t) \in Queues /\ Suspended(g, t) \in Queues
           /\ Suspended(r, t).stat = [r.stat EXCEPT ![t] = "suspend"]
           /\ Suspended(r, t).prio = r.prio
<1>1. /\ Suspended(r, t) = RemoveThread(Labelled(r, t, "suspend"), t)
      /\ Suspended(g, t) = RemoveThread(Labelled(g, t, "suspend"), t)
  BY DEF Suspended, Labelled
<1>2. "suspend" \in Stats
  BY DEF Stats
<1>3. /\ Alike(Labelled(r, t, "suspend"), Labelled(g, t, "suspend"), h, S)
      /\ Labelled(r, t, "suspend") \in Queues /\ Labelled(g, t, "suspend") \in Queues
      /\ Labelled(r, t, "suspend").stat = [r.stat EXCEPT ![t] = "suspend"]
      /\ Labelled(r, t, "suspend").prio = r.prio
  BY <1>2, AlikeLabel
<1> QED BY <1>1, <1>3, AlikeRemove

LEMMA RotateFields ==
    ASSUME NEW r \in Queues, NEW t \in Threads, NEW s, s = Rotated(r, t)
    PROVE  s = [stat |-> r.stat, prio |-> r.prio,
                ready |-> [r.ready EXCEPT ![r.prio[t]] = Append(Unlink(r.ready[r.prio[t]], t), t)],
                group |-> r.group, wait |-> r.wait, defunct |-> r.defunct]
  BY DEF Rotated, Queues

LEMMA AlikeRotate ==
    ASSUME NEW r \in Queues, NEW g \in Queues, NEW h, NEW S, Alike(r, g, h, S),
           NEW t \in Threads
    PROVE  /\ Alike(Rotated(r, t), Rotated(g, t), h, S) /\ Rotated(r, t) \in Queues
           /\ Rotated(r, t).stat = r.stat /\ Rotated(r, t).prio = r.prio
           /\ Rotated(r, t).defunct = r.defunct
<1> DEFINE p == g.prio[t]
           f == [g.ready EXCEPT ![p] = Append(Unlink(g.ready[p], t), t)]
<1>1. p \in Prios /\ g.ready \in [Prios -> Seq(Threads)]
  BY DEF Queues
<1>2. Append(Unlink(g.ready[p], t), t) \in Seq(Threads)
  BY <1>1, UnlinkOnly
<1>3. f \in [Prios -> Seq(Threads)]
  BY <1>1, <1>2
<1>4. /\ Rotated(r, t) = [stat |-> r.stat, prio |-> r.prio, ready |-> f, group |-> r.group,
                          wait |-> r.wait, defunct |-> r.defunct]
      /\ Rotated(g, t) = [stat |-> g.stat, prio |-> g.prio, ready |-> f, group |-> g.group,
                          wait |-> g.wait, defunct |-> g.defunct]
  <2>1. r.prio = g.prio /\ r.ready = g.ready
    BY DEF Alike
  <2> QED BY <2>1, RotateFields
<1> HIDE DEF f
<1>5. Rotated(r, t) \in Queues
  BY <1>3, <1>4, QueuesIntro DEF Queues
<1> QED BY <1>4, <1>5 DEF Alike

\* What one has and the other is Whole by.
LEMMA WholeFields ==
    ASSUME NEW r, NEW h, NEW S, Whole(r, h, S)
    PROVE  \E g \in Queues :
              /\ QueuesSound(g) /\ Alike(r, g, h, S) /\ r \in Queues
              /\ g.prio = r.prio /\ g.ready = r.ready /\ g.wait = r.wait
              /\ g.defunct = r.defunct
              /\ \A t \in Threads \ {h} : g.stat[t] = r.stat[t]
              /\ h \in Threads => g.stat[h] = "init" /\ Free(g, h)
<1>1. PICK g \in Queues : QueuesSound(g) /\ Alike(r, g, h, S)
                          /\ (h \in Threads => g.stat[h] = "init")
  BY DEF Whole
<1>2. h \in Threads => Free(g, h)
  BY <1>1, FreeByStatus
<1>3. r \in Queues
  BY DEF Whole
<1>4. /\ g.prio = r.prio /\ g.ready = r.ready /\ g.wait = r.wait /\ g.defunct = r.defunct
      /\ \A t \in Threads \ {h} : g.stat[t] = r.stat[t]
  BY <1>1 DEF Alike
<1> QED BY <1>1, <1>2, <1>3, <1>4

\* Their lists are sound.
LEMMA WholeSound ==
    ASSUME NEW r, NEW h, NEW S, Whole(r, h, S)
    PROVE  /\ ListsSound(r)
           /\ \A t \in Threads \ {h} : r.stat[t] = "ready" => t \in Range(r.ready[r.prio[t]])
           /\ \A p \in Prios : /\ r.ready[p] # <<>> => p \in r.group
                               /\ p \in r.group => r.ready[p] # <<>> \/ p \in S
<1>1. PICK g \in Queues :
              /\ QueuesSound(g) /\ Alike(r, g, h, S) /\ r \in Queues
              /\ g.prio = r.prio /\ g.ready = r.ready /\ g.wait = r.wait
              /\ g.defunct = r.defunct
              /\ \A t \in Threads \ {h} : g.stat[t] = r.stat[t]
              /\ h \in Threads => g.stat[h] = "init" /\ Free(g, h)
  BY WholeFields
<1>2. /\ \A p \in Prios : Range(g.ready[p]) \subseteq Threads /\ h \notin Range(g.ready[p])
      /\ \A o \in Objects : Range(g.wait[o]) \subseteq Threads /\ h \notin Range(g.wait[o])
      /\ Range(g.defunct) \subseteq Threads /\ h \notin Range(g.defunct)
  <2>1. /\ \A p \in Prios : Range(g.ready[p]) \subseteq Threads
        /\ \A o \in Objects : Range(g.wait[o]) \subseteq Threads
        /\ Range(g.defunct) \subseteq Threads
    BY EmptyLemma DEF Queues
  <2> QED BY <1>1, <2>1 DEF Free
<1>3. ListsSound(g)
  BY <1>1 DEF QueuesSound
<1>4. ListsSound(r)
  BY <1>1, <1>2, <1>3 DEF ListsSound
<1>5. \A t \in Threads \ {h} : r.stat[t] = "ready" => t \in Range(r.ready[r.prio[t]])
  BY <1>1 DEF QueuesSound, ReadyLinked
<1>6. \A p \in Prios : /\ r.ready[p] # <<>> => p \in r.group
                       /\ p \in r.group => r.ready[p] # <<>> \/ p \in S
  BY <1>1 DEF QueuesSound, GroupExact, Alike
<1> QED BY <1>4, <1>5, <1>6

\* A waiter is suspended, and not the thread in hand; a dead thread is closed.
LEMMA WholeMembers ==
    ASSUME NEW r, NEW h, NEW S, Whole(r, h, S)
    PROVE  /\ \A o \in Objects : r.wait[o] # <<>> =>
                 /\ Head(r.wait[o]) \in Threads \ {h}
                 /\ r.stat[Head(r.wait[o])] = "suspend"
           /\ r.defunct # <<>> =>
                 Head(r.defunct) \in Threads \ {h} /\ r.stat[Head(r.defunct)] = "close"
<1>1. PICK g \in Queues :
              /\ QueuesSound(g) /\ Alike(r, g, h, S) /\ r \in Queues
              /\ g.prio = r.prio /\ g.ready = r.ready /\ g.wait = r.wait
              /\ g.defunct = r.defunct
              /\ \A t \in Threads \ {h} : g.stat[t] = r.stat[t]
              /\ h \in Threads => g.stat[h] = "init" /\ Free(g, h)
  BY WholeFields
<1>2. ASSUME NEW o \in Objects, r.wait[o] # <<>>
      PROVE  Head(r.wait[o]) \in Threads \ {h} /\ r.stat[Head(r.wait[o])] = "suspend"
  <2>1. g.wait[o] \in Seq(Threads) /\ g.wait[o] # <<>>
    BY <1>1, <1>2 DEF Queues
  <2>2. Head(g.wait[o]) \in Range(g.wait[o]) /\ Range(g.wait[o]) \subseteq Threads
    BY <2>1, EmptyLemma
  <2>3. \A t \in Range(g.wait[o]) : g.stat[t] = "suspend" /\ t # h
    BY <1>1, <2>2 DEF QueuesSound, ListsSound, Free
  <2> QED BY <1>1, <2>2, <2>3
<1>3. ASSUME r.defunct # <<>>
      PROVE  Head(r.defunct) \in Threads \ {h} /\ r.stat[Head(r.defunct)] = "close"
  <2>1. g.defunct \in Seq(Threads) /\ g.defunct # <<>>
    BY <1>1, <1>3 DEF Queues
  <2>2. Head(g.defunct) \in Range(g.defunct) /\ Range(g.defunct) \subseteq Threads
    BY <2>1, EmptyLemma
  <2>3. \A t \in Range(g.defunct) : g.stat[t] = "close" /\ t # h
    BY <1>1, <2>2 DEF QueuesSound, ListsSound, Free
  <2> QED BY <1>1, <2>2, <2>3
<1> QED BY <1>2, <1>3

\* rt_schedule finds a ready thread that is not in hand, and no ready thread is
\* more urgent, if some thread t that is ready is as urgent as every bit that may
\* be left set.
LEMMA WholeNext ==
    ASSUME NEW r, NEW h, NEW S, Whole(r, h, S), NEW t \in Threads \ {h},
           r.stat[t] = "ready", \A s \in S : r.prio[t] =< s
    PROVE  /\ NextThread(r) \in Threads \ {h} /\ r.stat[NextThread(r)] = "ready"
           /\ \A u \in Threads \ {h} :
                 r.stat[u] = "ready" => r.prio[NextThread(r)] =< r.prio[u]
<1>1. PICK g \in Queues :
              /\ QueuesSound(g) /\ Alike(r, g, h, S) /\ r \in Queues
              /\ g.prio = r.prio /\ g.ready = r.ready /\ g.wait = r.wait
              /\ g.defunct = r.defunct
              /\ \A u \in Threads \ {h} : g.stat[u] = r.stat[u]
              /\ h \in Threads => g.stat[h] = "init" /\ Free(g, h)
  BY WholeFields
<1>2. g.prio[t] \in g.group /\ g.prio[t] \in Prios
  <2>1. g.prio[t] \in Prios /\ t \in Range(g.ready[g.prio[t]])
    BY <1>1 DEF QueuesSound, ReadyLinked, Queues
  <2>2. g.ready[g.prio[t]] # <<>>
    BY <2>1, EmptyLemma DEF Queues
  <2> QED BY <1>1, <2>1, <2>2 DEF QueuesSound, GroupExact
<1>3. g.group \subseteq r.group /\ r.group \subseteq g.group \union S /\ r.group \subseteq Prios
  BY <1>1 DEF Alike, Queues
<1>4. Highest(r) = Highest(g) /\ r.group # {} /\ g.group # {}
  <2>1. Highest(g) \in g.group /\ \A p \in g.group : Highest(g) =< p
    BY <1>2, HighestLemma
  <2>2. Highest(r) \in r.group /\ \A p \in r.group : Highest(r) =< p
    BY <1>1, <1>2, <1>3, HighestLemma
  <2> DEFINE a == Highest(g)
             b == Highest(r)
  <2> HIDE DEF a, b
  <2>3. a \in Nat /\ b \in Nat /\ b =< a
    BY <1>3, <2>1, <2>2, QueueAssumption DEF Prios, a, b
  <2>4. a =< b
    <3>1. CASE b \in g.group
      BY <2>1, <3>1 DEF a, b
    <3>2. CASE b \in S
      <4>1. g.prio[t] =< b
        BY <1>1, <3>2
      <4>2. a =< g.prio[t] /\ g.prio[t] \in Nat
        BY <1>2, <2>1, QueueAssumption DEF a, Prios
      <4> QED BY <2>3, <4>1, <4>2
    <3> QED BY <1>3, <2>2, <3>1, <3>2 DEF b
  <2> QED BY <1>2, <1>3, <2>3, <2>4 DEF a, b
<1>5. NextThread(r) = NextThread(g)
  BY <1>1, <1>4 DEF NextThread
<1>6. NextThread(g) \in Threads /\ g.stat[NextThread(g)] = "ready"
  BY <1>1, NextLemma
<1>7. NextThread(g) # h
  BY <1>1, <1>6
<1>8. ASSUME NEW u \in Threads \ {h}, r.stat[u] = "ready"
      PROVE  g.prio[NextThread(g)] =< g.prio[u]
  BY <1>1, <1>8, NextLemma
<1> DEFINE n == NextThread(g)
<1> HIDE DEF n
<1> QED BY <1>1, <1>5, <1>6, <1>7, <1>8 DEF n

\* What a routine did to the thread it is about, u, and to nobody else.
Became(r, s, u, x) ==
    /\ s.stat = [r.stat EXCEPT ![u] = x] /\ s.prio = r.prio
    /\ Range(s.defunct) = Range(r.defunct)

\* The section of rt_thread_resume or rt_thread_timeout on a suspended thread.
LEMMA WholeWake ==
    ASSUME NEW r, NEW h, NEW S, Whole(r, h, S), NEW u \in Threads \ {h},
           r.stat[u] = "suspend", NEW s, s = InsertThread(Unlinked(r, u), u)
    PROVE  Whole(s, h, S) /\ Became(r, s, u, "ready")
<1>1. PICK g \in Queues :
              /\ QueuesSound(g) /\ Alike(r, g, h, S) /\ r \in Queues
              /\ g.prio = r.prio /\ g.ready = r.ready /\ g.wait = r.wait
              /\ g.defunct = r.defunct
              /\ \A t \in Threads \ {h} : g.stat[t] = r.stat[t]
              /\ h \in Threads => g.stat[h] = "init" /\ Free(g, h)
  BY WholeFields
<1> DEFINE m == Unlinked(r, u)
           n == Unlinked(g, u)
           d == InsertThread(n, u)
<1>2. m \in Queues /\ n \in Queues /\ Alike(m, n, h, S)
  BY <1>1, AlikeUnlink
<1>3. m.stat = r.stat /\ m.prio = r.prio
  BY <1>1, UnlinkedOnly
<1>4. d \in Queues /\ QueuesSound(d) /\ WokenUp(g, d, u)
  BY <1>1, WakeLemma
<1> HIDE DEF m, n
<1>5. /\ Alike(s, d, h, S) /\ s \in Queues
      /\ s.stat = [m.stat EXCEPT ![u] = "ready"] /\ s.prio = m.prio
  BY <1>2, AlikeInsert DEF m
<1> HIDE DEF d
<1>6. d.stat = [g.stat EXCEPT ![u] = "ready"] /\ Range(d.defunct) = Range(g.defunct)
  BY <1>4 DEF WokenUp
<1>7. h \in Threads => d.stat[h] = "init"
  BY <1>1, <1>6 DEF Queues
<1>8. Whole(s, h, S)
  BY <1>4, <1>5, <1>7 DEF Whole
<1>9. s.defunct = d.defunct
  BY <1>5 DEF Alike
<1> QED BY <1>1, <1>3, <1>5, <1>6, <1>8, <1>9 DEF Became

\* The section of rt_thread_suspend on a ready thread.
LEMMA WholeSuspend ==
    ASSUME NEW r, NEW h, NEW S, Whole(r, h, S), NEW u \in Threads \ {h},
           r.stat[u] = "ready", NEW s, s = Suspended(r, u)
    PROVE  Whole(s, h, S) /\ Became(r, s, u, "suspend")
<1>1. PICK g \in Queues :
              /\ QueuesSound(g) /\ Alike(r, g, h, S) /\ r \in Queues
              /\ g.prio = r.prio /\ g.ready = r.ready /\ g.wait = r.wait
              /\ g.defunct = r.defunct
              /\ \A t \in Threads \ {h} : g.stat[t] = r.stat[t]
              /\ h \in Threads => g.stat[h] = "init" /\ Free(g, h)
  BY WholeFields
<1> DEFINE d == Suspended(g, u)
<1>2. /\ Alike(s, d, h, S) /\ s \in Queues
      /\ s.stat = [r.stat EXCEPT ![u] = "suspend"] /\ s.prio = r.prio
  BY <1>1, AlikeSuspend
<1>3. /\ d \in Queues /\ QueuesSound(d) /\ d.stat = [g.stat EXCEPT ![u] = "suspend"]
      /\ Range(d.defunct) = Range(g.defunct)
  BY <1>1, SuspendLemma
<1> HIDE DEF d
<1>4. h \in Threads => d.stat[h] = "init"
  BY <1>1, <1>3 DEF Queues
<1>5. Whole(s, h, S)
  BY <1>2, <1>3, <1>4 DEF Whole
<1>6. s.defunct = d.defunct
  BY <1>2 DEF Alike
<1> QED BY <1>1, <1>2, <1>3, <1>5, <1>6 DEF Became

\* The section of rt_ipc_list_suspend.
LEMMA WholeWait ==
    ASSUME NEW r, NEW h, NEW S, Whole(r, h, S), NEW u \in Threads \ {h},
           r.stat[u] = "ready", NEW o \in Objects, NEW s, s = WaitFifo(r, o, u)
    PROVE  Whole(s, h, S) /\ Became(r, s, u, "suspend")
<1>1. PICK g \in Queues :
              /\ QueuesSound(g) /\ Alike(r, g, h, S) /\ r \in Queues
              /\ g.prio = r.prio /\ g.ready = r.ready /\ g.wait = r.wait
              /\ g.defunct = r.defunct
              /\ \A t \in Threads \ {h} : g.stat[t] = r.stat[t]
              /\ h \in Threads => g.stat[h] = "init" /\ Free(g, h)
  BY WholeFields
<1> DEFINE m == Suspended(r, u)
           n == Suspended(g, u)
           d == WaitFifo(g, o, u)
           l == Append(n.wait[o], u)
<1>2. /\ Alike(m, n, h, S) /\ m \in Queues /\ n \in Queues
      /\ m.stat = [r.stat EXCEPT ![u] = "suspend"] /\ m.prio = r.prio
  BY <1>1, AlikeSuspend
<1>3. d \in Queues /\ QueuesSound(d) /\ Queued(g, d, o, u)
  BY <1>1, WaitFifoLemma
<1>4. /\ s = [m EXCEPT !.wait[o] = Append(m.wait[o], u)]
      /\ d = [n EXCEPT !.wait[o] = Append(n.wait[o], u)]
  BY <1>1 DEF WaitFifo
<1>5. /\ m.prio = n.prio /\ m.ready = n.ready /\ m.wait = n.wait /\ m.defunct = n.defunct
      /\ \A t \in Threads \ {h} : m.stat[t] = n.stat[t]
      /\ n.group \subseteq m.group /\ m.group \subseteq n.group \union S
  BY <1>2 DEF Alike
<1> HIDE DEF m, n, d
<1>6. /\ s = [stat |-> m.stat, prio |-> m.prio, ready |-> m.ready, group |-> m.group,
              wait |-> [m.wait EXCEPT ![o] = l], defunct |-> m.defunct]
      /\ d = [stat |-> n.stat, prio |-> n.prio, ready |-> n.ready, group |-> n.group,
              wait |-> [n.wait EXCEPT ![o] = l], defunct |-> n.defunct]
  BY <1>2, <1>4, <1>5 DEF Queues
<1>7. [m.wait EXCEPT ![o] = l] \in [Objects -> Seq(Threads)]
  <2>1. m.wait \in [Objects -> Seq(Threads)]
    BY <1>2 DEF Queues
  <2>2. l \in Seq(Threads)
    BY <1>5, <2>1
  <2> HIDE DEF l
  <2> QED BY <2>1, <2>2
<1> HIDE DEF l
<1>8. s \in Queues
  <2>1. m \in Queues
    BY <1>2
  <2> QED BY <1>6, <1>7, <2>1, QueuesIntro DEF Queues
<1>9. Alike(s, d, h, S)
  BY <1>5, <1>6 DEF Alike
<1>10. d.stat = [g.stat EXCEPT ![u] = "suspend"] /\ Range(d.defunct) = Range(g.defunct)
  BY <1>3 DEF Queued
<1>11. h \in Threads => d.stat[h] = "init"
  BY <1>1, <1>10 DEF Queues
<1>12. Whole(s, h, S)
  BY <1>3, <1>8, <1>9, <1>11 DEF Whole
<1>13. s.defunct = d.defunct /\ s.stat = [r.stat EXCEPT ![u] = "suspend"] /\ s.prio = r.prio
  BY <1>2, <1>5, <1>6
<1> QED BY <1>1, <1>10, <1>12, <1>13 DEF Became

\* The section of rt_thread_yield on a ready thread.
LEMMA WholeRotate ==
    ASSUME NEW r, NEW h, NEW S, Whole(r, h, S), NEW u \in Threads \ {h},
           r.stat[u] = "ready", NEW s, s = Rotated(r, u)
    PROVE  /\ Whole(s, h, S)
           /\ s.stat = r.stat /\ s.prio = r.prio /\ s.defunct = r.defunct
<1>1. PICK g \in Queues :
              /\ QueuesSound(g) /\ Alike(r, g, h, S) /\ r \in Queues
              /\ g.prio = r.prio /\ g.ready = r.ready /\ g.wait = r.wait
              /\ g.defunct = r.defunct
              /\ \A t \in Threads \ {h} : g.stat[t] = r.stat[t]
              /\ h \in Threads => g.stat[h] = "init" /\ Free(g, h)
  BY WholeFields
<1> DEFINE d == Rotated(g, u)
<1>2. /\ Alike(s, d, h, S) /\ s \in Queues
      /\ s.stat = r.stat /\ s.prio = r.prio /\ s.defunct = r.defunct
  BY <1>1, AlikeRotate
<1>3. d \in Queues /\ QueuesSound(d) /\ d.stat = g.stat
  BY <1>1, RotateLemma
<1> HIDE DEF d
<1> QED BY <1>1, <1>2, <1>3 DEF Whole

\* Taking the first dead thread off its list.
LEMMA WholeReap ==
    ASSUME NEW r, NEW h, NEW S, Whole(r, h, S), r.defunct # <<>>,
           NEW s, s = Unlinked(r, Head(r.defunct))
    PROVE  /\ Whole(s, h, S) /\ s.stat = r.stat /\ s.prio = r.prio
           /\ Range(s.defunct) = Range(r.defunct) \ {Head(r.defunct)}
<1> DEFINE u == Head(r.defunct)
<1>1. PICK g \in Queues :
              /\ QueuesSound(g) /\ Alike(r, g, h, S) /\ r \in Queues
              /\ g.prio = r.prio /\ g.ready = r.ready /\ g.wait = r.wait
              /\ g.defunct = r.defunct
              /\ \A t \in Threads \ {h} : g.stat[t] = r.stat[t]
              /\ h \in Threads => g.stat[h] = "init" /\ Free(g, h)
  BY WholeFields
<1>2. u \in Threads \ {h} /\ r.stat[u] = "close"
  BY WholeMembers
<1> DEFINE d == Unlinked(g, u)
<1> HIDE DEF u
<1>3. Alike(s, d, h, S) /\ s \in Queues
  BY <1>1, AlikeUnlink DEF u
<1>4. d \in Queues /\ QueuesSound(d) /\ Without(g, d, u)
  <2>1. g.stat[u] # "ready"
    BY <1>1, <1>2
  <2> QED BY <1>1, <1>2, <2>1, UnlinkedSound
<1>5. s.stat = r.stat /\ s.prio = r.prio
  BY <1>1, UnlinkedOnly DEF u
<1> HIDE DEF d
<1>6. d.stat = g.stat /\ Range(d.defunct) = Range(g.defunct) \ {u}
  BY <1>4 DEF Without
<1>7. Whole(s, h, S)
  BY <1>1, <1>3, <1>4, <1>6 DEF Whole
<1> QED BY <1>1, <1>3, <1>5, <1>6, <1>7 DEF Alike, u

\* A thread on no list may be in hand.
LEMMA WholeIntro ==
    ASSUME NEW m \in Queues, QueuesSound(m), NEW u \in Threads, Free(m, u),
           NEW s \in Queues, NEW S, Alike(s, m, u, S)
    PROVE  Whole(s, u, S)
<1> DEFINE g == Relabelled(m, u, "init", m.prio[u])
<1>1. "init" \in Stats \ {"ready"} /\ m.prio[u] \in Prios
  BY DEF Stats, Queues
<1>2. /\ g \in Queues /\ QueuesSound(g) /\ g.stat = [m.stat EXCEPT ![u] = "init"]
      /\ g.ready = m.ready /\ g.group = m.group /\ g.wait = m.wait /\ g.defunct = m.defunct
  BY <1>1, RelabelLemma
<1>3. g.prio = m.prio
  BY DEF Relabelled, Queues
<1> HIDE DEF g
<1>4. m.stat \in [Threads -> Stats]
  BY DEF Queues
<1>5. g.stat[u] = "init" /\ \A t \in Threads \ {u} : g.stat[t] = m.stat[t]
  BY <1>2, <1>4
<1>6. Alike(s, g, u, S)
  BY <1>2, <1>3, <1>5 DEF Alike
<1> QED BY <1>2, <1>5, <1>6 DEF Whole

\* rt_schedule_remove_thread finds the bitmap in order when the thread waits.
LEMMA RemoveWaiting ==
    ASSUME NEW r \in Queues, QueuesSound(r), NEW u \in Threads, r.stat[u] # "ready"
    PROVE  RemoveThread(r, u) = Unlinked(r, u)
<1> DEFINE p == r.prio[u]
           n == Unlinked(r, u)
<1>1. p \in Prios /\ u \notin Range(r.ready[p])
  BY DEF Queues, QueuesSound, ListsSound
<1>2. Unlink(r.ready[p], u) = r.ready[p]
  BY <1>1 DEF Unlink
<1>3. r.ready[p] = <<>> => p \notin r.group
  BY <1>1 DEF QueuesSound, GroupExact
<1>4. RemoveThread(r, u) = [n EXCEPT !.group = r.group]
  <2>1. (IF Unlink(r.ready[p], u) = <<>> THEN r.group \ {p} ELSE r.group) = r.group
    BY <1>2, <1>3
  <2> HIDE DEF p
  <2> QED BY <2>1, RemoveFields DEF p
<1>5. n \in Queues /\ n.group = r.group
  BY UnlinkedOnly
<1> HIDE DEF n
<1>6. [n EXCEPT !.group = r.group] = n
  BY <1>5 DEF Queues
<1> QED BY <1>4, <1>6 DEF n

\* What taking u off its lists leaves of the rest.
Took(r, s) == s.stat = r.stat /\ s.prio = r.prio /\ Range(s.defunct) = Range(r.defunct)

\* rt_schedule_remove_thread whatever the thread does: it may be in hand then.
LEMMA TakeRemove ==
    ASSUME NEW r \in Queues, QueuesSound(r), NEW u \in Threads,
           r.stat[u] \in {"ready", "suspend"}, NEW s, s = RemoveThread(r, u)
    PROVE  Whole(s, u, {}) /\ Took(r, s)
<1>1. s \in Queues /\ s.prio = r.prio
  BY RemoveOnly
<1>2. CASE r.stat[u] = "ready"
  <2> DEFINE m == Labelled(s, u, "suspend")
  <2>1. "suspend" \in Stats /\ "suspend" \in Stats \ {"ready"}
    BY DEF Stats
  <2>2. /\ m \in Queues /\ QueuesSound(m) /\ Free(m, u)
        /\ Range(m.defunct) = Range(r.defunct)
    <3> DEFINE x == "suspend"
    <3>1. x \in Stats \ {"ready"} /\ r \in Queues /\ QueuesSound(r) /\ u \in Threads
          /\ r.stat[u] = "ready"
      BY <1>2, <2>1
    <3>2. m = Labelled(RemoveThread(r, u), u, x)
      OBVIOUS
    <3> HIDE DEF x, m
    <3>3. /\ m \in Queues /\ QueuesSound(m) /\ Free(m, u)
          /\ m.stat = [r.stat EXCEPT ![u] = x] /\ m.prio = r.prio
          /\ \A o \in Objects : Range(m.wait[o]) = Range(r.wait[o])
          /\ Range(m.defunct) = Range(r.defunct)
      BY <3>1, <3>2, RemoveLemma
    <3> QED BY <3>3
  <2>3. m = [stat |-> [s.stat EXCEPT ![u] = "suspend"], prio |-> s.prio, ready |-> s.ready,
             group |-> s.group, wait |-> s.wait, defunct |-> s.defunct]
    BY <1>1, <2>1, LabelledFields
  <2> HIDE DEF m
  <2>4. s.stat \in [Threads -> Stats]
    BY <1>1 DEF Queues
  <2>5. Alike(s, m, u, {})
    BY <2>3, <2>4 DEF Alike
  <2>6. s.stat = r.stat
    <3>1. Unlinked(r, u) \in Queues /\ Unlinked(r, u).stat = r.stat
      BY UnlinkedOnly
    <3> DEFINE n == Unlinked(r, u)
               k == IF Unlink(r.ready[r.prio[u]], u) = <<>>
                    THEN r.group \ {r.prio[u]} ELSE r.group
    <3>2. s = [n EXCEPT !.group = k]
      BY RemoveFields
    <3> HIDE DEF n, k
    <3> QED BY <3>1, <3>2 DEF Queues, n
  <2> QED BY <1>1, <2>2, <2>3, <2>5, <2>6, WholeIntro DEF Took
<1>3. CASE r.stat[u] = "suspend"
  <2>1. s = Unlinked(r, u)
    BY <1>3, RemoveWaiting
  <2>2. s \in Queues /\ QueuesSound(s) /\ Free(s, u) /\ Without(r, s, u)
    BY <1>3, <2>1, UnlinkedSound
  <2>3. Alike(s, s, u, {})
    BY DEF Alike
  <2>4. u \notin Range(r.defunct)
    BY <1>3 DEF QueuesSound, ListsSound
  <2> QED BY <2>2, <2>3, <2>4, WholeIntro DEF Without, Took
<1> QED BY <1>2, <1>3

\* A thread that was not started may be in hand as it is.
LEMMA TakeNew ==
    ASSUME NEW r \in Queues, QueuesSound(r), NEW u \in Threads, r.stat[u] = "init"
    PROVE  Whole(r, u, {})
<1>1. Free(r, u) /\ Alike(r, r, u, {})
  BY FreeByStatus DEF Alike
<1> QED BY <1>1, WholeIntro

\* The section of rt_thread_resume: the bit of a thread that is ready by now
\* stays set.
LEMMA TakeUnlink ==
    ASSUME NEW r \in Queues, QueuesSound(r), NEW u \in Threads,
           r.stat[u] \in {"ready", "suspend"}, NEW s, s = Unlinked(r, u)
    PROVE  /\ Whole(s, u, IF r.stat[u] = "ready" THEN {r.prio[u]} ELSE {})
           /\ Took(r, s)
<1>1. s \in Queues /\ s.stat = r.stat /\ s.prio = r.prio /\ s.group = r.group
  BY UnlinkedOnly
<1>2. CASE r.stat[u] = "ready"
  <2> DEFINE d == RemoveThread(r, u)
             m == Labelled(d, u, "suspend")
             p == r.prio[u]
             k == IF Unlink(r.ready[p], u) = <<>> THEN r.group \ {p} ELSE r.group
  <2>1. "suspend" \in Stats /\ "suspend" \in Stats \ {"ready"}
    BY DEF Stats
  <2>2. d \in Queues
    BY RemoveOnly
  <2>3. d = [s EXCEPT !.group = k]
    BY RemoveFields
  <2> HIDE DEF k, p
  <2>4. /\ m \in Queues /\ QueuesSound(m) /\ Free(m, u)
        /\ Range(m.defunct) = Range(r.defunct)
    <3> DEFINE x == "suspend"
    <3>1. x \in Stats \ {"ready"} /\ r \in Queues /\ QueuesSound(r) /\ u \in Threads
          /\ r.stat[u] = "ready"
      BY <1>2, <2>1
    <3>2. m = Labelled(RemoveThread(r, u), u, x)
      OBVIOUS
    <3> HIDE DEF x, m
    <3>3. /\ m \in Queues /\ QueuesSound(m) /\ Free(m, u)
          /\ m.stat = [r.stat EXCEPT ![u] = x] /\ m.prio = r.prio
          /\ \A o \in Objects : Range(m.wait[o]) = Range(r.wait[o])
          /\ Range(m.defunct) = Range(r.defunct)
      BY <3>1, <3>2, RemoveLemma
    <3> QED BY <3>3
  <2>5. m = [stat |-> [d.stat EXCEPT ![u] = "suspend"], prio |-> d.prio, ready |-> d.ready,
             group |-> d.group, wait |-> d.wait, defunct |-> d.defunct]
    BY <2>1, <2>2, LabelledFields
  <2> HIDE DEF d, m
  <2>6. /\ d.stat = s.stat /\ d.prio = s.prio /\ d.ready = s.ready /\ d.group = k
        /\ d.wait = s.wait /\ d.defunct = s.defunct
    BY <1>1, <2>3 DEF Queues
  <2>7. s.stat \in [Threads -> Stats]
    BY <1>1 DEF Queues
  <2>8. k \subseteq r.group /\ r.group \subseteq k \union {p}
    BY DEF k
  <2>9. Alike(s, m, u, {p})
    BY <1>1, <2>5, <2>6, <2>7, <2>8 DEF Alike
  <2>10. Whole(s, u, {p})
    BY <1>1, <2>4, <2>9, WholeIntro
  <2> QED BY <1>1, <1>2, <2>4, <2>5, <2>6, <2>10 DEF Took, p
<1>3. CASE r.stat[u] = "suspend"
  <2>2. s \in Queues /\ QueuesSound(s) /\ Free(s, u) /\ Without(r, s, u)
    BY <1>3, UnlinkedSound
  <2>3. Alike(s, s, u, {})
    BY DEF Alike
  <2>4. u \notin Range(r.defunct)
    BY <1>3 DEF QueuesSound, ListsSound
  <2> QED BY <1>3, <2>2, <2>3, <2>4, WholeIntro DEF Without, Took
<1> QED BY <1>2, <1>3

\* The section of rt_thread_suspend, whatever became of the thread since its
\* status was looked at.
LEMMA SuspendLate ==
    ASSUME NEW r \in Queues, QueuesSound(r), NEW u \in Threads,
           r.stat[u] \in {"ready", "suspend"}, NEW s, s = Suspended(r, u)
    PROVE  s \in Queues /\ QueuesSound(s) /\ Became(r, s, u, "suspend")
<1>1. CASE r.stat[u] = "ready"
  BY <1>1, SuspendLemma DEF Became
<1>2. CASE r.stat[u] = "suspend"
  <2>1. r.stat \in [Threads -> Stats]
    BY DEF Queues
  <2>2. [r EXCEPT !.stat[u] = "suspend"] = r
    BY <1>2 DEF Queues
  <2>3. s = Unlinked(r, u)
    BY <1>2, <2>2, RemoveWaiting DEF Suspended
  <2>4. s \in Queues /\ QueuesSound(s) /\ Without(r, s, u)
    BY <1>2, <2>3, UnlinkedSound
  <2>5. u \notin Range(r.defunct)
    BY <1>2 DEF QueuesSound, ListsSound
  <2>6. [r.stat EXCEPT ![u] = "suspend"] = r.stat
    BY <1>2, <2>1
  <2> QED BY <2>4, <2>5, <2>6 DEF Without, Became
<1> QED BY <1>1, <1>2

\* rt_schedule_insert_thread on the thread in hand: it is back in its place, and
\* its bit is right again.
LEMMA GiveBack ==
    ASSUME NEW r, NEW h \in Threads, NEW S, Whole(r, h, S), S \subseteq {r.prio[h]},
           NEW s, s = InsertThread(r, h)
    PROVE  s \in Queues /\ QueuesSound(s) /\ Became(r, s, h, "ready")
<1>1. PICK g \in Queues :
              /\ QueuesSound(g) /\ Alike(r, g, h, S) /\ r \in Queues
              /\ g.prio = r.prio /\ g.ready = r.ready /\ g.wait = r.wait
              /\ g.defunct = r.defunct
              /\ \A t \in Threads \ {h} : g.stat[t] = r.stat[t]
              /\ h \in Threads => g.stat[h] = "init" /\ Free(g, h)
  BY WholeFields
<1> DEFINE d == InsertThread(g, h)
           p == r.prio[h]
<1>2. d \in Queues /\ QueuesSound(d)
  BY <1>1, InsertLemma
<1>3. /\ s = [stat |-> [r.stat EXCEPT ![h] = "ready"], prio |-> r.prio,
              group |-> r.group \union {r.prio[h]},
              ready |-> [r.ready EXCEPT ![r.prio[h]] = Append(r.ready[r.prio[h]], h)],
              wait |-> r.wait, defunct |-> r.defunct]
      /\ d = [stat |-> [g.stat EXCEPT ![h] = "ready"], prio |-> g.prio,
              group |-> g.group \union {g.prio[h]},
              ready |-> [g.ready EXCEPT ![g.prio[h]] = Append(g.ready[g.prio[h]], h)],
              wait |-> g.wait, defunct |-> g.defunct]
  BY <1>1, InsertFields
<1> HIDE DEF d
<1>4. r.stat \in [Threads -> Stats] /\ g.stat \in [Threads -> Stats]
  BY <1>1 DEF Queues
<1>5. \A t \in Threads : s.stat[t] = d.stat[t]
  BY <1>1, <1>3, <1>4
<1>6. s.group = d.group
  BY <1>1, <1>3 DEF Alike
<1>7. Alike(s, d, NoThread, {})
  BY <1>1, <1>3, <1>5, <1>6 DEF Alike
<1>8. s \in Queues
  BY <1>1, InsertOnly
<1>9. Whole(s, NoThread, {})
  BY <1>2, <1>7, <1>8, QueueAssumption DEF Whole
<1>10. QueuesSound(s)
  BY <1>9, WholeExact
<1> QED BY <1>3, <1>8, <1>10 DEF Became

\* The last section of rt_thread_delete and rt_thread_detach.
LEMMA CloseHeld ==
    ASSUME NEW r, NEW h \in Threads, Whole(r, h, {}),
           NEW m, m = Labelled(r, h, "close"),
           NEW s, s = m \/ s = Dying(m, <<h>> \o m.defunct)
    PROVE  /\ s \in Queues /\ QueuesSound(s)
           /\ s.stat = [r.stat EXCEPT ![h] = "close"] /\ s.prio = r.prio
           /\ Range(s.defunct) \subseteq Range(r.defunct) \union {h}
<1>1. PICK g \in Queues :
              /\ QueuesSound(g) /\ Alike(r, g, h, {}) /\ r \in Queues
              /\ g.prio = r.prio /\ g.ready = r.ready /\ g.wait = r.wait
              /\ g.defunct = r.defunct
              /\ \A t \in Threads \ {h} : g.stat[t] = r.stat[t]
              /\ h \in Threads => g.stat[h] = "init" /\ Free(g, h)
  BY WholeFields
<1> DEFINE d == Relabelled(g, h, "close", g.prio[h])
<1>2. "close" \in Stats \ {"ready"} /\ "close" \in Stats /\ g.prio[h] \in Prios
  BY DEF Stats, Queues
<1>3. /\ d \in Queues /\ QueuesSound(d) /\ d.stat = [g.stat EXCEPT ![h] = "close"]
      /\ d.ready = g.ready /\ d.group = g.group /\ d.wait = g.wait /\ d.defunct = g.defunct
  BY <1>1, <1>2, RelabelLemma
<1>4. d.prio = g.prio
  BY DEF Relabelled, Queues
<1> HIDE DEF d
<1>5. /\ m = [stat |-> [r.stat EXCEPT ![h] = "close"], prio |-> r.prio, ready |-> r.ready,
              group |-> r.group, wait |-> r.wait, defunct |-> r.defunct]
  BY <1>1, <1>2, LabelledFields
<1>6. r.stat \in [Threads -> Stats] /\ g.stat \in [Threads -> Stats]
  BY <1>1 DEF Queues
<1>7. \A t \in Threads : m.stat[t] = d.stat[t]
  BY <1>1, <1>3, <1>5, <1>6
<1>8. r.group = g.group
  BY <1>1 DEF Alike
<1>9. Alike(m, d, NoThread, {})
  BY <1>1, <1>3, <1>4, <1>5, <1>7, <1>8 DEF Alike
<1>10. m \in Queues
  BY <1>1, <1>2, AlikeLabel
<1>11. Whole(m, NoThread, {})
  BY <1>3, <1>9, <1>10, QueueAssumption DEF Whole
<1>12. QueuesSound(m)
  BY <1>11, WholeExact
<1>13. m.stat[h] = "close" /\ Free(m, h)
  <2>1. m.stat[h] = "close"
    BY <1>5, <1>6
  <2>2. m.ready = g.ready /\ m.wait = g.wait /\ m.defunct = g.defunct
    BY <1>1, <1>5
  <2> QED BY <1>1, <2>1, <2>2 DEF Free
<1>14. m.stat = [r.stat EXCEPT ![h] = "close"] /\ m.prio = r.prio /\ m.defunct = r.defunct
  BY <1>5
<1>15. CASE s = m
  BY <1>10, <1>12, <1>14, <1>15
<1>16. CASE s = Dying(m, <<h>> \o m.defunct)
  <2>1. s \in Queues /\ QueuesSound(s) /\ Buried(m, s, h)
    BY <1>10, <1>12, <1>13, <1>16, DefunctLemma
  <2> QED BY <1>14, <2>1 DEF Buried
<1> QED BY <1>15, <1>16

-----------------------------------------------------------------------------
(* The use of sched_manage, for every instance: the main thread alone       *)
(* manages others.                                                          *)

\* The main thread suspends, resumes, re-prioritises, deletes, starts and
\* creates threads, which start no timer and do not end by themselves; it
\* neither locks the scheduler nor is the argument of its own calls, suspending
\* itself apart.
ManagedUse ==
    /\ \A t \in Threads \ {Main} :
          Calls[t] \intersect {"suspend", "resume", "control", "delete", "startup",
                               "create"} = {}
    /\ \A t \in Threads : "exit" \notin Calls[t]
    /\ "critical" \notin Calls[Main] /\ Main \notin Targets[Main]
    /\ \A t \in Targets[Main] : Calls[t] \intersect {"sleep", "timed block"} = {}

\* The thread the main thread took off its lists, and the bit that may be left
\* set while it holds it: rt_thread_resume found the thread ready by then.
Hand == IF pc[Main] \in {"insert", "detach", "close"} THEN arg[Main] ELSE NoThread
Stale == IF pc[Main] = "insert" /\ q.stat[arg[Main]] = "ready"
         THEN {q.prio[arg[Main]]} ELSE {}
WholeNow == Whole(q, Hand, Stale)

\* The main thread is between two sections of a call about another thread.
Busy == pc[Main] \notin {"run", "schedule"}
Plain == \A t \in Threads \ {Main} : pc[t] \in {"run", "schedule"}

\* What became of that thread meanwhile; if it is ready, it did not preempt the
\* main thread, which is as urgent then.
InHand ==
    Busy =>
      /\ q.stat[Main] = "ready"
      /\ arg[Main] \in Targets[Main] \/ (pc[Main] = "suspend" /\ arg[Main] = Main)
      /\ pc[Main] \in {"suspend", "unlink", "insert"} =>
            q.stat[arg[Main]] \in {"ready", "suspend"}
      /\ q.stat[arg[Main]] # "close"
      /\ pc[Main] \in {"insert", "detach", "close"} => sw.current # arg[Main]
      /\ q.stat[arg[Main]] = "ready"
         /\ (pc[Main] = "insert" \/ (pc[Main] = "unlink" /\ sw.current = Main))
            => q.prio[Main] =< q.prio[arg[Main]]

Unlocked == lock > 0 => sw.current # Main
Unarmed == armed \intersect Targets[Main] = {}
FreedDefunct == \A t \in freed : q.stat[t] = "close" /\ t \notin Range(q.defunct)

ManagedInv ==
    /\ TypeOK /\ SwitchInv /\ WholeNow /\ IdleReady /\ TimeoutFindsSuspended
    /\ CurrentSound /\ Plain /\ InHand /\ Unlocked /\ Unarmed /\ FreedDefunct

\* The thread in hand is one the main thread may manage.
LEMMA HandTarget ==
    ASSUME ManagedUse, ManagedInv
    PROVE  /\ Main \in Threads \ {Hand} /\ Idle \in Threads \ {Hand} /\ NoThread \notin Threads
           /\ Hand \in Threads => Hand \in Targets[Main] /\ Hand # sw.current
<1>1. /\ Main \in Threads /\ Idle \in Threads /\ Targets[Main] \subseteq Threads \ {Idle}
      /\ NoThread \notin Threads
  BY SchedulerAssumption, QueueAssumption
<1>2. Main \notin Targets[Main]
  BY DEF ManagedUse
<1>3. CASE pc[Main] \in {"insert", "detach", "close"}
  BY <1>1, <1>2, <1>3 DEF ManagedInv, InHand, Busy, Hand
<1>4. CASE pc[Main] \notin {"insert", "detach", "close"}
  BY <1>1, <1>4 DEF Hand
<1> QED BY <1>3, <1>4

\* rt_schedule's bitmap search, while the main thread holds a thread.
LEMMA ManagedNext ==
    ASSUME ManagedUse, ManagedInv, NEW r, Whole(r, Hand, Stale), r.prio = q.prio,
           r.stat[Idle] = "ready", Busy => r.stat[Main] = "ready"
    PROVE  /\ NextThread(r) \in Threads \ {Hand} /\ r.stat[NextThread(r)] = "ready"
           /\ \A u \in Threads \ {Hand} :
                 r.stat[u] = "ready" => r.prio[NextThread(r)] =< r.prio[u]
<1>1. Main \in Threads \ {Hand} /\ Idle \in Threads \ {Hand}
  BY HandTarget
<1>2. CASE Stale = {}
  <2>1. \A s \in Stale : r.prio[Idle] =< s
    BY <1>2
  <2> QED BY <1>1, <2>1, WholeNext
<1>3. CASE Stale # {}
  <2>1. pc[Main] = "insert" /\ q.stat[arg[Main]] = "ready" /\ Stale = {q.prio[arg[Main]]}
    BY <1>3 DEF Stale
  <2>2. Busy /\ q.prio[Main] =< q.prio[arg[Main]]
    BY <2>1 DEF Busy, ManagedInv, InHand
  <2>3. r.stat[Main] = "ready" /\ \A s \in Stale : r.prio[Main] =< s
    BY <2>1, <2>2
  <2> QED BY <1>1, <2>3, WholeNext
<1> QED BY <1>2, <1>3

\* rt_schedule: whoever becomes current is ready, not in hand, and nobody else is
\* more urgent.
LEMMA ManagedReschedule ==
    ASSUME ManagedUse, ManagedInv, NEW r, Whole(r, Hand, Stale), r.prio = q.prio,
           r.stat[Idle] = "ready", Busy => r.stat[Main] = "ready",
           sw' = Rescheduled(r, sw)
    PROVE  /\ SwitchInv' /\ sw' \in Switches
           /\ IF lock = 0 THEN /\ sw'.current \in Threads \ {Hand}
                              /\ r.stat[sw'.current] = "ready"
                              /\ \A u \in Threads \ {Hand} :
                                    r.stat[u] = "ready" => r.prio[sw'.current] =< r.prio[u]
                          ELSE sw' = sw
<1>1. SwitchInv'
  BY RescheduleKeepsWords DEF ManagedInv
<1> DEFINE n == NextThread(r)
<1>2. /\ n \in Threads \ {Hand} /\ r.stat[n] = "ready"
      /\ \A u \in Threads \ {Hand} : r.stat[u] = "ready" => r.prio[n] =< r.prio[u]
  BY ManagedNext
<1> HIDE DEF n
<1>3. sw \in Switches
  BY DEF ManagedInv, TypeOK
<1>4. CASE sw' = sw /\ (lock = 0 => n = sw.current)
  BY <1>1, <1>2, <1>3, <1>4
<1>5. CASE sw' = SwitchTo(sw, n) /\ lock = 0
  <2>1. sw' = [current |-> n, cpu |-> sw.cpu, to |-> n, flag |-> TRUE,
               from |-> IF sw.flag THEN sw.from ELSE sw.current]
    BY <1>3, <1>5 DEF SwitchTo, Switches
  <2>2. sw' \in Switches
    BY <1>2, <1>3, <2>1 DEF Switches, ThreadOrNone
  <2> QED BY <1>1, <1>2, <1>5, <2>1, <2>2
<1> QED BY <1>4, <1>5 DEF Rescheduled, n

\* What the other threads, the interrupts and rt_schedule may do while the main
\* thread is in the middle of such a call.
Aside ==
    /\ arg' = arg /\ q'.prio = q.prio
    /\ pc'[Main] = pc[Main] \/ (~Busy /\ ~Busy')
    /\ \A t \in Threads : q'.stat[t] # q.stat[t] =>
          /\ t # Hand
          /\ {q.stat[t], q'.stat[t]} = {"suspend", "ready"}
          /\ Busy => t # Main
    /\ \/ sw'.current = sw.current /\ (Busy /\ sw.current = Main => q'.stat = q.stat)
       \/ /\ sw'.current # Hand
          /\ \A u \in Threads \ {Hand} :
                q'.stat[u] = "ready" => q'.prio[sw'.current] =< q'.prio[u]

LEMMA AsideKeeps ==
    ASSUME ManagedUse, ManagedInv, Aside
    PROVE  Hand' = Hand /\ Stale' = Stale /\ InHand' /\ (Busy' <=> Busy)
<1>1. /\ Main \in Threads \ {Hand} /\ Idle \in Threads \ {Hand} /\ NoThread \notin Threads
      /\ Hand \in Threads => Hand \in Targets[Main] /\ Hand # sw.current
      /\ Targets[Main] \subseteq Threads
  BY HandTarget, SchedulerAssumption
<1>2. CASE ~Busy
  <2>1. ~Busy'
    BY <1>2 DEF Aside, Busy
  <2> QED BY <1>2, <2>1 DEF Busy, Hand, Stale, InHand
<1>3. CASE Busy
  <2>1. pc'[Main] = pc[Main] /\ arg' = arg /\ q'.prio = q.prio
    BY <1>3 DEF Aside
  <2>2. Hand' = Hand /\ (Busy' <=> Busy)
    BY <2>1 DEF Hand, Busy
  <2>3. arg[Main] \in Threads /\ (Hand = arg[Main] \/ pc[Main] \in {"suspend", "unlink"})
    BY <1>1, <1>3 DEF ManagedInv, InHand, Hand, TypeOK, Positions, Busy
  <2>4. Hand \in Threads => q'.stat[Hand] = q.stat[Hand]
    BY DEF Aside
  <2>5. Stale' = Stale
    BY <2>1, <2>3, <2>4 DEF Stale
  <2>6. q'.stat[Main] = "ready"
    BY <1>1, <1>3 DEF ManagedInv, InHand, Aside
  <2>7. /\ q.stat[arg[Main]] \in {"ready", "suspend"} => q'.stat[arg[Main]] \in {"ready", "suspend"}
        /\ q.stat[arg[Main]] # "close" => q'.stat[arg[Main]] # "close"
    BY <2>3 DEF Aside
  <2>8. pc[Main] \in {"insert", "detach", "close"} => sw'.current # arg[Main]
    BY <1>1, <2>3 DEF Aside, Hand
  <2>9. q'.stat[arg[Main]] = "ready"
        /\ (pc[Main] = "insert" \/ (pc[Main] = "unlink" /\ sw'.current = Main))
           => q.prio[Main] =< q.prio[arg[Main]]
    <3>1. CASE pc[Main] = "insert"
      BY <1>3, <2>3, <2>4, <3>1 DEF ManagedInv, InHand
    <3>2. CASE pc[Main] = "unlink" /\ sw'.current = Main
      <4>1. Hand = NoThread
        BY <3>2 DEF Hand
      <4>2. CASE sw.current = Main /\ q'.stat = q.stat
        BY <1>3, <3>2, <4>2 DEF ManagedInv, InHand
      <4>3. CASE \A u \in Threads \ {Hand} :
                    q'.stat[u] = "ready" => q'.prio[sw'.current] =< q'.prio[u]
        BY <1>1, <2>1, <2>3, <3>2, <4>1, <4>3
      <4> QED BY <1>3, <3>2, <4>2, <4>3 DEF Aside
    <3> QED BY <3>1, <3>2
  <2>10. InHand'
    BY <1>3, <2>1, <2>6, <2>7, <2>8, <2>9 DEF ManagedInv, InHand
  <2> QED BY <2>2, <2>5, <2>10
<1> QED BY <1>2, <1>3

\* A thread that executes outside such a call is current, and not in hand.
LEMMA Outside ==
    ASSUME ManagedUse, ManagedInv, NEW t \in Threads, OnCpu(t),
           pc[t] \in {"run", "schedule"}
    PROVE  sw.current = t /\ t # Hand /\ (t = Main => ~Busy /\ lock = 0)
<1>1. sw.current = t
  BY DEF ManagedInv, SwitchInv, SwitchSound, OnCpu
<1>2. t # Hand
  BY <1>1, HandTarget
<1>3. t = Main => ~Busy /\ lock = 0
  BY <1>1 DEF Busy, ManagedInv, Unlocked, TypeOK
<1> QED BY <1>1, <1>2, <1>3

\* So is one that makes a call.
LEMMA Caller ==
    ASSUME ManagedUse, ManagedInv, NEW t \in Threads, NEW c, Invokes(t, c)
    PROVE  /\ t # Idle /\ pc[t] = "run" /\ c \in Calls[t]
           /\ sw.current = t /\ t # Hand /\ (t = Main => ~Busy /\ lock = 0)
           /\ lock = 0 => q.stat[t] = "ready"
           /\ q.stat[t] # "ready" => q.stat[t] = "suspend" /\ lock > 0
<1>1. OnCpu(t) /\ pc[t] = "run" /\ c \in Calls[t]
  BY DEF Invokes, At
<1>2. t # Idle
  BY <1>1, SchedulerAssumption
<1>3. sw.current = t /\ t # Hand /\ (t = Main => ~Busy /\ lock = 0)
  BY <1>1, Outside
<1>4. /\ lock = 0 => q.stat[t] = "ready"
      /\ q.stat[t] # "ready" => q.stat[t] = "suspend" /\ lock > 0
  BY <1>1, <1>3 DEF ManagedInv, CurrentSound, TypeOK
<1> QED BY <1>1, <1>2, <1>3, <1>4

\* Steps that leave the main thread's call alone.
LEMMA AsideStep ==
    ASSUME ManagedUse, ManagedInv, Aside, Whole(q', Hand, Stale),
           TypeOK', SwitchInv', IdleReady', TimeoutFindsSuspended', CurrentSound',
           Plain', Unlocked', Unarmed', FreedDefunct'
    PROVE  ManagedInv'
<1>1. Hand' = Hand /\ Stale' = Stale /\ InHand'
  BY AsideKeeps
<1>2. WholeNow'
  BY <1>1 DEF WholeNow
<1> QED BY <1>1, <1>2 DEF ManagedInv

\* A call of rt_schedule begins, or the nesting changes.
LEMMA ManagedCriticalStep ==
    ASSUME ManagedUse, ManagedInv, NEW t \in Threads,
           ScheduleCall(t) \/ EnterCritical(t) \/ ExitCritical(t)
    PROVE  ManagedInv'
<1>1. /\ t # Idle /\ pc[t] = "run" /\ sw.current = t /\ (t = Main => ~Busy /\ lock = 0)
      /\ lock = 0 => q.stat[t] = "ready"
      /\ q.stat[t] # "ready" => q.stat[t] = "suspend" /\ lock > 0
  BY Caller DEF ScheduleCall, EnterCritical, ExitCritical
<1>2. /\ q' = q /\ sw' = sw /\ armed' = armed /\ rem' = rem
      /\ arg' = arg /\ then' = then /\ isr' = isr /\ freed' = freed
  BY DEF ScheduleCall, EnterCritical, ExitCritical
<1>3. t = Main => ~EnterCritical(t) /\ ~ExitCritical(t)
  BY DEF EnterCritical, ExitCritical, Invokes, ManagedUse
<1>4. \/ lock' = lock /\ pc' = [pc EXCEPT ![t] = "schedule"]
      \/ lock < MaxNest /\ lock' = lock + 1 /\ pc' = pc /\ t # Main
      \/ lock > 1 /\ lock' = lock - 1 /\ pc' = [pc EXCEPT ![t] = "run"] /\ t # Main
      \/ lock =< 1 /\ lock' = 0 /\ pc' = [pc EXCEPT ![t] = "schedule"] /\ t # Main
  BY <1>3 DEF ScheduleCall, EnterCritical, ExitCritical, Goto, ManagedInv, TypeOK
<1>5. pc \in [Threads -> Positions] /\ lock \in 0..MaxNest /\ Main \in Threads /\ Idle \in Threads
      /\ MaxNest \in Nat
  BY SchedulerAssumption DEF ManagedInv, TypeOK
<1>6. \A x \in Threads \ {t} : pc'[x] = pc[x]
  BY <1>4, <1>5
<1>7. pc'[t] \in {"run", "schedule"}
  BY <1>1, <1>4, <1>5
<1>8. TypeOK'
  BY <1>2, <1>4, <1>5 DEF ManagedInv, TypeOK, Positions
<1>9. SwitchInv' /\ TimeoutFindsSuspended' /\ Unarmed' /\ FreedDefunct'
  BY <1>2 DEF ManagedInv, SwitchInv, SwitchWords, SwitchSound, TimeoutFindsSuspended,
              Unarmed, FreedDefunct
<1>10. IdleReady' /\ Plain'
  BY <1>1, <1>2, <1>5, <1>6, <1>7 DEF ManagedInv, IdleReady, Plain
<1>11. CurrentSound'
  BY <1>1, <1>2, <1>4, <1>5 DEF ManagedInv, CurrentSound
<1>12. Unlocked'
  BY <1>1, <1>2, <1>4, <1>5 DEF ManagedInv, Unlocked
<1>13. Aside
  <2>1. pc'[Main] = pc[Main] \/ (~Busy /\ ~Busy')
    BY <1>1, <1>5, <1>6, <1>7 DEF Busy
  <2> QED BY <1>2, <2>1 DEF Aside
<1>14. Whole(q', Hand, Stale)
  BY <1>2 DEF ManagedInv, WholeNow
<1> QED BY <1>8, <1>9, <1>10, <1>11, <1>12, <1>13, <1>14, AsideStep

\* rt_schedule called by a thread.
LEMMA ManagedScheduleStep ==
    ASSUME ManagedUse, ManagedInv, NEW t \in Threads, CallSchedule(t)
    PROVE  ManagedInv'
<1>1. /\ pc[t] = "schedule" /\ t # Idle /\ sw.current = t /\ (t = Main => ~Busy /\ lock = 0)
  BY Outside DEF CallSchedule, At, ManagedInv, IdleReady
<1>2. /\ q' = q /\ lock' = lock /\ armed' = armed /\ rem' = rem
      /\ arg' = arg /\ then' = then /\ isr' = isr /\ freed' = freed
      /\ pc' = [pc EXCEPT ![t] = "run"]
  BY DEF CallSchedule, Goto
<1>3. /\ SwitchInv' /\ sw' \in Switches
      /\ IF lock = 0 THEN /\ sw'.current \in Threads \ {Hand}
                         /\ q.stat[sw'.current] = "ready"
                         /\ \A u \in Threads \ {Hand} :
                               q.stat[u] = "ready" => q.prio[sw'.current] =< q.prio[u]
                     ELSE sw' = sw
  <2>1. Whole(q, Hand, Stale) /\ q.stat[Idle] = "ready" /\ (Busy => q.stat[Main] = "ready")
    BY DEF ManagedInv, WholeNow, IdleReady, InHand
  <2>2. sw' = Rescheduled(q, sw)
    BY DEF CallSchedule, Schedule
  <2> QED BY <2>1, <2>2, ManagedReschedule
<1>4. pc \in [Threads -> Positions] /\ lock \in Nat /\ Main \in Threads /\ Idle \in Threads
  BY SchedulerAssumption DEF ManagedInv, TypeOK
<1>5. pc'[t] = "run" /\ \A x \in Threads \ {t} : pc'[x] = pc[x]
  BY <1>2, <1>4
<1>6. TypeOK'
  BY <1>2, <1>3 DEF ManagedInv, TypeOK, Positions
<1>7. TimeoutFindsSuspended' /\ Unarmed' /\ FreedDefunct'
  BY <1>2 DEF ManagedInv, TimeoutFindsSuspended, Unarmed, FreedDefunct
<1>8. IdleReady' /\ Plain'
  BY <1>1, <1>2, <1>4, <1>5 DEF ManagedInv, IdleReady, Plain
<1>9. CurrentSound' /\ Unlocked'
  BY <1>1, <1>2, <1>3, <1>4, <1>5 DEF ManagedInv, CurrentSound, Unlocked
<1>10. Aside
  <2>1. pc'[Main] = pc[Main] \/ (~Busy /\ ~Busy')
    BY <1>1, <1>4, <1>5 DEF Busy
  <2>2. sw' = sw \/ /\ sw'.current # Hand
                    /\ \A u \in Threads \ {Hand} :
                          q.stat[u] = "ready" => q.prio[sw'.current] =< q.prio[u]
    BY <1>3
  <2> QED BY <1>2, <2>1, <2>2 DEF Aside
<1>11. Whole(q', Hand, Stale)
  BY <1>2 DEF ManagedInv, WholeNow
<1> QED BY <1>3, <1>6, <1>7, <1>8, <1>9, <1>10, <1>11, AsideStep

\* rt_thread_yield
LEMMA ManagedYieldStep ==
    ASSUME ManagedUse, ManagedInv, NEW t \in Threads, Yield(t)
    PROVE  ManagedInv'
<1>1. /\ t # Idle /\ pc[t] = "run" /\ sw.current = t /\ t # Hand
      /\ (t = Main => ~Busy /\ lock = 0) /\ q.stat[t] = "ready"
  BY Caller DEF Yield
<1>2. /\ sw' = sw /\ lock' = lock /\ armed' = armed /\ rem' = rem
      /\ arg' = arg /\ then' = then /\ isr' = isr /\ freed' = freed
      /\ pc' = [pc EXCEPT ![t] = "schedule"]
  BY DEF Yield, Goto
<1>3. /\ Whole(q', Hand, Stale) /\ q'.stat = q.stat /\ q'.prio = q.prio
      /\ q'.defunct = q.defunct
  <2>1. Whole(q, Hand, Stale) /\ q' = Rotated(q, t)
    BY DEF ManagedInv, WholeNow, Yield
  <2> QED BY <1>1, <2>1, WholeRotate
<1>4. pc \in [Threads -> Positions] /\ Main \in Threads /\ Idle \in Threads /\ q' \in Queues
  BY <1>3, SchedulerAssumption DEF ManagedInv, TypeOK, Whole
<1>5. pc'[t] = "schedule" /\ \A x \in Threads \ {t} : pc'[x] = pc[x]
  BY <1>2, <1>4
<1>6. TypeOK'
  BY <1>2, <1>4 DEF ManagedInv, TypeOK, Positions
<1>7. SwitchInv' /\ TimeoutFindsSuspended' /\ Unarmed' /\ FreedDefunct' /\ Unlocked'
  BY <1>2, <1>3 DEF ManagedInv, TimeoutFindsSuspended, Unarmed, FreedDefunct, Unlocked,
                    SwitchInv, SwitchWords, SwitchSound
<1>8. IdleReady' /\ Plain' /\ CurrentSound'
  BY <1>1, <1>2, <1>3, <1>4, <1>5 DEF ManagedInv, IdleReady, Plain, CurrentSound
<1>10. Aside
  <2>1. pc'[Main] = pc[Main] \/ (~Busy /\ ~Busy')
    BY <1>1, <1>4, <1>5 DEF Busy
  <2> QED BY <1>2, <1>3, <2>1 DEF Aside
<1> QED BY <1>3, <1>6, <1>7, <1>8, <1>10, AsideStep

\* A thread that waits: rt_thread_sleep, or an IPC call with or without a timeout.
LEMMA ManagedWaits ==
    ASSUME ManagedUse, ManagedInv, NEW t \in Threads, t # Idle, pc[t] = "run",
           sw.current = t, t # Hand, t = Main => ~Busy /\ lock = 0,
           q.stat[t] = "ready" \/ (q.stat[t] = "suspend" /\ lock > 0),
           Whole(q', Hand, Stale), Became(q, q', t, "suspend"),
           armed' \subseteq armed \union {t}, t \in Targets[Main] => t \notin armed',
           pc' = [pc EXCEPT ![t] = "schedule"],
           UNCHANGED <<sw, lock, rem, arg, then, isr, freed>>
    PROVE  ManagedInv'
<1>1. /\ sw' = sw /\ lock' = lock /\ rem' = rem
      /\ arg' = arg /\ then' = then /\ isr' = isr /\ freed' = freed
  OBVIOUS
<1>2. /\ q'.stat = [q.stat EXCEPT ![t] = "suspend"] /\ q'.prio = q.prio
      /\ Range(q'.defunct) = Range(q.defunct)
  BY DEF Became
<1>3. /\ pc \in [Threads -> Positions] /\ Main \in Threads /\ Idle \in Threads /\ q' \in Queues
      /\ q.stat \in [Threads -> Stats] /\ freed \subseteq Threads /\ armed \subseteq Threads
      /\ lock \in Nat
  BY StatusTypes, SchedulerAssumption DEF ManagedInv, TypeOK, Whole
<1>4. pc'[t] = "schedule" /\ \A x \in Threads \ {t} : pc'[x] = pc[x]
  BY <1>3
<1>5. q'.stat[t] = "suspend" /\ \A x \in Threads \ {t} : q'.stat[x] = q.stat[x]
  BY <1>2, <1>3
<1>6. TypeOK'
  BY <1>1, <1>3 DEF ManagedInv, TypeOK, Positions
<1>7. SwitchInv' /\ Unlocked'
  BY <1>1 DEF ManagedInv, Unlocked, SwitchInv, SwitchWords, SwitchSound
<1>8. TimeoutFindsSuspended'
  BY <1>3, <1>5 DEF ManagedInv, TimeoutFindsSuspended
<1>9. Unarmed'
  BY DEF ManagedInv, Unarmed
<1>10. FreedDefunct'
  BY <1>1, <1>2, <1>3, <1>5 DEF ManagedInv, FreedDefunct
<1>11. IdleReady' /\ Plain'
  BY <1>3, <1>4, <1>5 DEF ManagedInv, IdleReady, Plain
<1>12. CurrentSound'
  BY <1>1, <1>3, <1>4, <1>5 DEF ManagedInv, CurrentSound
<1>13. Aside
  <2>1. pc'[Main] = pc[Main] \/ (~Busy /\ ~Busy')
    BY <1>3, <1>4 DEF Busy
  <2>2. \A x \in Threads : q'.stat[x] # q.stat[x] =>
          x # Hand /\ {q.stat[x], q'.stat[x]} = {"suspend", "ready"} /\ (Busy => x # Main)
    BY <1>5
  <2>3. Busy /\ sw.current = Main => q'.stat = q.stat
    OBVIOUS
  <2> QED BY <1>1, <1>2, <2>1, <2>2, <2>3 DEF Aside
<1> QED BY <1>6, <1>7, <1>8, <1>9, <1>10, <1>11, <1>12, <1>13, AsideStep

LEMMA ManagedSleepStep ==
    ASSUME ManagedUse, ManagedInv, NEW t \in Threads, Sleep(t)
    PROVE  ManagedInv'
<1>1. /\ t # Idle /\ pc[t] = "run" /\ sw.current = t /\ t # Hand
      /\ (t = Main => ~Busy /\ lock = 0)
      /\ q.stat[t] # "ready" => q.stat[t] = "suspend" /\ lock > 0
  BY Caller DEF Sleep
<1>2. Whole(q, Hand, Stale) /\ q \in Queues
  BY DEF ManagedInv, WholeNow, TypeOK
<1>3. Whole(q', Hand, Stale) /\ Became(q, q', t, "suspend")
  <2>1. CASE q.stat[t] = "ready"
    <3>1. q' = Suspended(q, t)
      BY <2>1 DEF Sleep
    <3> QED BY <1>1, <1>2, <2>1, <3>1, WholeSuspend
  <2>2. CASE q.stat[t] # "ready"
    <3>1. q' = q /\ q.stat \in [Threads -> Stats]
      BY <1>2, <2>2, StatusTypes DEF Sleep
    <3>2. [q.stat EXCEPT ![t] = "suspend"] = q.stat
      BY <1>1, <2>2, <3>1
    <3> QED BY <1>2, <3>1, <3>2 DEF Became
  <2> QED BY <2>1, <2>2
<1>4. t \notin Targets[Main]
  BY DEF ManagedUse, Sleep, Invokes
<1>5. /\ armed' = armed \union {t} /\ pc' = [pc EXCEPT ![t] = "schedule"]
      /\ UNCHANGED <<sw, lock, rem, arg, then, isr, freed>>
  BY DEF Sleep, Goto
<1>6. q.stat[t] = "ready" \/ (q.stat[t] = "suspend" /\ lock > 0)
  BY <1>1
<1> QED BY <1>1, <1>3, <1>4, <1>5, <1>6, ManagedWaits

LEMMA ManagedBlockStep ==
    ASSUME ManagedUse, ManagedInv, NEW t \in Threads, NEW o \in Objects,
           NEW timed \in BOOLEAN, Block(t, o, timed)
    PROVE  ManagedInv'
<1>1. /\ t # Idle /\ pc[t] = "run" /\ sw.current = t /\ t # Hand
      /\ (t = Main => ~Busy /\ lock = 0) /\ q.stat[t] = "ready"
  BY Caller DEF Block
<1>2. Whole(q, Hand, Stale) /\ q' = WaitFifo(q, o, t)
  BY DEF ManagedInv, WholeNow, Block
<1>3. Whole(q', Hand, Stale) /\ Became(q, q', t, "suspend")
  BY <1>1, <1>2, WholeWait
<1>4. t \in Targets[Main] => t \notin armed'
  <2>1. CASE timed
    <3>1. "timed block" \in Calls[t]
      BY <2>1 DEF Block, Invokes
    <3>2. t \notin Targets[Main]
      BY <3>1 DEF ManagedUse
    <3> QED BY <3>2
  <2>2. CASE ~timed
    <3>1. armed' = armed \ {t}
      BY <1>1, <2>2 DEF Block, Stopped
    <3> QED BY <3>1
  <2> QED BY <2>1, <2>2
<1>5. /\ pc' = [pc EXCEPT ![t] = "schedule"]
      /\ UNCHANGED <<sw, lock, rem, arg, then, isr, freed>>
  BY DEF Block, Goto
<1>6. armed' \subseteq armed \union {t}
  BY DEF Block, Stopped
<1> QED BY <1>1, <1>3, <1>4, <1>5, <1>6, ManagedWaits

\* A suspended thread that is not in hand is made ready.
LEMMA ManagedWoken ==
    ASSUME ManagedUse, ManagedInv, NEW u \in Threads, u # Hand, q.stat[u] = "suspend",
           q' = InsertThread(Unlinked(q, u), u), armed' = armed \ {u}
    PROVE  /\ Whole(q', Hand, Stale) /\ q' \in Queues /\ q'.prio = q.prio
           /\ q'.stat[u] = "ready" /\ \A x \in Threads \ {u} : q'.stat[x] = q.stat[x]
           /\ q'.stat[Idle] = "ready" /\ (Busy => u # Main /\ q'.stat[Main] = "ready")
           /\ TimeoutFindsSuspended' /\ Unarmed' /\ (freed' = freed => FreedDefunct')
<1>1. Whole(q, Hand, Stale) /\ q.stat \in [Threads -> Stats]
  BY StatusTypes DEF ManagedInv, WholeNow, TypeOK
<1>2. Whole(q', Hand, Stale) /\ Became(q, q', u, "ready")
  BY <1>1, WholeWake
<1>3. q' \in Queues
  BY <1>2 DEF Whole
<1>4. /\ q'.prio = q.prio /\ Range(q'.defunct) = Range(q.defunct)
      /\ q'.stat = [q.stat EXCEPT ![u] = "ready"]
  BY <1>2 DEF Became
<1>5. q'.stat[u] = "ready" /\ \A x \in Threads \ {u} : q'.stat[x] = q.stat[x]
  BY <1>1, <1>4
<1>6. Idle \in Threads /\ Main \in Threads /\ u # Idle /\ (Busy => u # Main)
  BY SchedulerAssumption DEF ManagedInv, IdleReady, InHand
<1>7. q'.stat[Idle] = "ready" /\ (Busy => u # Main /\ q'.stat[Main] = "ready")
  BY <1>5, <1>6 DEF ManagedInv, IdleReady, InHand
<1>8. TimeoutFindsSuspended' /\ Unarmed'
  BY <1>5 DEF ManagedInv, TimeoutFindsSuspended, Unarmed, TypeOK
<1>9. freed' = freed => FreedDefunct'
  BY <1>4, <1>5 DEF ManagedInv, FreedDefunct, TypeOK
<1> QED BY <1>2, <1>3, <1>4, <1>5, <1>7, <1>8, <1>9

\* What a call or a handler finds at the head of a suspend list.
LEMMA ManagedWaiter ==
    ASSUME ManagedUse, ManagedInv, NEW o \in Objects, q.wait[o] # <<>>,
           NEW u, u = Head(q.wait[o])
    PROVE  u \in Threads /\ u # Hand /\ q.stat[u] = "suspend"
<1>1. Whole(q, Hand, Stale)
  BY DEF ManagedInv, WholeNow
<1> QED BY <1>1, WholeMembers

LEMMA ManagedReleaseStep ==
    ASSUME ManagedUse, ManagedInv, NEW t \in Threads, NEW o \in Objects, Release(t, o)
    PROVE  ManagedInv'
<1> DEFINE u == Head(q.wait[o])
<1>1. /\ t # Idle /\ pc[t] = "run" /\ sw.current = t /\ (t = Main => ~Busy /\ lock = 0)
  BY Caller DEF Release
<1>2. /\ sw' = sw /\ lock' = lock /\ rem' = rem
      /\ arg' = arg /\ then' = then /\ isr' = isr /\ freed' = freed
      /\ pc' = [pc EXCEPT ![t] = "schedule"]
  BY DEF Release, Goto
<1>3. u \in Threads /\ u # Hand /\ q.stat[u] = "suspend"
  BY ManagedWaiter DEF Release
<1>4. q' = InsertThread(Unlinked(q, u), u) /\ armed' = armed \ {u}
  BY <1>3 DEF Release, Resumed
<1> HIDE DEF u
<1>5. /\ Whole(q', Hand, Stale) /\ q' \in Queues /\ q'.prio = q.prio
      /\ q'.stat[u] = "ready" /\ (\A x \in Threads \ {u} : q'.stat[x] = q.stat[x])
      /\ q'.stat[Idle] = "ready" /\ (Busy => u # Main /\ q'.stat[Main] = "ready")
      /\ TimeoutFindsSuspended' /\ Unarmed' /\ FreedDefunct'
  BY <1>2, <1>3, <1>4, ManagedWoken
<1>6. pc \in [Threads -> Positions] /\ Main \in Threads /\ Idle \in Threads
  BY SchedulerAssumption DEF ManagedInv, TypeOK
<1>7. pc'[t] = "schedule" /\ \A x \in Threads \ {t} : pc'[x] = pc[x]
  BY <1>2, <1>6
<1>8. TypeOK'
  BY <1>2, <1>4, <1>5 DEF ManagedInv, TypeOK, Positions
<1>9. SwitchInv' /\ Unlocked'
  BY <1>2 DEF ManagedInv, Unlocked, SwitchInv, SwitchWords, SwitchSound
<1>10. IdleReady' /\ Plain'
  BY <1>1, <1>5, <1>6, <1>7 DEF ManagedInv, IdleReady, Plain
<1>11. CurrentSound'
  BY <1>1, <1>2, <1>3, <1>5, <1>7 DEF ManagedInv, CurrentSound
<1>12. Aside
  <2>1. pc'[Main] = pc[Main] \/ (~Busy /\ ~Busy')
    BY <1>1, <1>6, <1>7 DEF Busy
  <2>2. \A x \in Threads : q'.stat[x] # q.stat[x] =>
          x # Hand /\ {q.stat[x], q'.stat[x]} = {"suspend", "ready"} /\ (Busy => x # Main)
    BY <1>3, <1>5
  <2>3. Busy /\ sw.current = Main => q'.stat = q.stat
    BY <1>1
  <2> QED BY <1>2, <1>5, <2>1, <2>2, <2>3 DEF Aside
<1> QED BY <1>5, <1>8, <1>9, <1>10, <1>11, <1>12, AsideStep

\* A handler makes u ready and calls rt_schedule.
LEMMA ManagedHandlerWakes ==
    ASSUME ManagedUse, ManagedInv, NEW u \in Threads, u # Hand, q.stat[u] = "suspend",
           q' = InsertThread(Unlinked(q, u), u), armed' = armed \ {u},
           sw' = Rescheduled(q', sw),
           UNCHANGED <<lock, rem, pc, arg, then, isr, freed>>
    PROVE  ManagedInv'
<1>1. /\ Whole(q', Hand, Stale) /\ q' \in Queues /\ q'.prio = q.prio
      /\ q'.stat[u] = "ready" /\ (\A x \in Threads \ {u} : q'.stat[x] = q.stat[x])
      /\ q'.stat[Idle] = "ready" /\ (Busy => u # Main /\ q'.stat[Main] = "ready")
      /\ TimeoutFindsSuspended' /\ Unarmed' /\ FreedDefunct'
  BY ManagedWoken
<1>2. /\ SwitchInv' /\ sw' \in Switches
      /\ IF lock = 0 THEN /\ sw'.current \in Threads \ {Hand}
                         /\ q'.stat[sw'.current] = "ready"
                         /\ \A x \in Threads \ {Hand} :
                               q'.stat[x] = "ready" => q'.prio[sw'.current] =< q'.prio[x]
                     ELSE sw' = sw
  BY <1>1, ManagedReschedule
<1>3. TypeOK'
  BY <1>1, <1>2 DEF ManagedInv, TypeOK
<1>4. IdleReady' /\ Plain'
  BY <1>1 DEF ManagedInv, IdleReady, Plain
<1>5. CurrentSound' /\ Unlocked'
  BY <1>1, <1>2 DEF ManagedInv, CurrentSound, Unlocked, TypeOK
<1>6. Aside
  <2>1. \A x \in Threads : q'.stat[x] # q.stat[x] =>
          x # Hand /\ {q.stat[x], q'.stat[x]} = {"suspend", "ready"} /\ (Busy => x # Main)
    BY <1>1
  <2>2. \/ sw'.current = sw.current /\ (Busy /\ sw.current = Main => q'.stat = q.stat)
        \/ /\ sw'.current # Hand
           /\ \A x \in Threads \ {Hand} :
                 q'.stat[x] = "ready" => q'.prio[sw'.current] =< q'.prio[x]
    BY <1>2 DEF ManagedInv, Unlocked, TypeOK
  <2>3. arg' = arg /\ pc'[Main] = pc[Main]
    OBVIOUS
  <2> QED BY <1>1, <2>1, <2>2, <2>3 DEF Aside
<1> QED BY <1>1, <1>2, <1>3, <1>4, <1>5, <1>6, AsideStep

LEMMA ManagedHandlerStep ==
    ASSUME ManagedUse, ManagedInv,
           (\E u \in Threads : Timeout(u)) \/ (\E o \in Objects : IsrRelease(o))
    PROVE  ManagedInv'
<1>1. ASSUME NEW u \in Threads, Timeout(u) PROVE ManagedInv'
  <2>1. q.stat[u] = "suspend" /\ u \notin Targets[Main]
    BY <1>1 DEF Timeout, ManagedInv, TimeoutFindsSuspended, Unarmed
  <2>2. u # Hand
    BY <2>1, HandTarget
  <2> QED BY <1>1, <2>1, <2>2, ManagedHandlerWakes DEF Timeout
<1>2. ASSUME NEW o \in Objects, IsrRelease(o) PROVE ManagedInv'
  <2> DEFINE u == Head(q.wait[o])
  <2>1. u \in Threads /\ u # Hand /\ q.stat[u] = "suspend"
    BY <1>2, ManagedWaiter DEF IsrRelease
  <2>2. /\ q' = InsertThread(Unlinked(q, u), u) /\ armed' = armed \ {u}
        /\ sw' = Rescheduled(q', sw) /\ UNCHANGED <<lock, rem, pc, arg, then, isr, freed>>
    BY <1>2, <2>1 DEF IsrRelease, Resumed
  <2> HIDE DEF u
  <2> QED BY <2>1, <2>2, ManagedHandlerWakes
<1> QED BY <1>1, <1>2

\* The idle thread takes the first dead thread off its list.
LEMMA ManagedReapStep ==
    ASSUME ManagedUse, ManagedInv, Reap
    PROVE  ManagedInv'
<1> DEFINE u == Head(q.defunct)
<1>1. /\ lock' = lock /\ rem' = rem /\ armed' = armed /\ pc' = pc
      /\ arg' = arg /\ then' = then /\ isr' = isr /\ freed' \subseteq freed \union {u}
      /\ sw' = Rescheduled(q', sw) /\ q' = Unlinked(q, u) /\ q.defunct # <<>>
  BY DEF Reap
<1>2. Whole(q, Hand, Stale)
  BY DEF ManagedInv, WholeNow
<1>3. u \in Threads /\ q.stat[u] = "close"
  BY <1>1, <1>2, WholeMembers
<1>4. /\ Whole(q', Hand, Stale) /\ q'.stat = q.stat /\ q'.prio = q.prio
      /\ Range(q'.defunct) = Range(q.defunct) \ {u}
  BY <1>1, <1>2, WholeReap
<1> HIDE DEF u
<1>5. q' \in Queues /\ q'.stat[Idle] = "ready" /\ (Busy => q'.stat[Main] = "ready")
  BY <1>4 DEF ManagedInv, IdleReady, InHand, Whole
<1>6. /\ SwitchInv' /\ sw' \in Switches
      /\ IF lock = 0 THEN /\ sw'.current \in Threads \ {Hand}
                         /\ q'.stat[sw'.current] = "ready"
                         /\ \A x \in Threads \ {Hand} :
                               q'.stat[x] = "ready" => q'.prio[sw'.current] =< q'.prio[x]
                     ELSE sw' = sw
  BY <1>1, <1>4, <1>5, ManagedReschedule
<1>7. TypeOK'
  BY <1>1, <1>3, <1>5, <1>6 DEF ManagedInv, TypeOK
<1>8. TimeoutFindsSuspended' /\ Unarmed' /\ FreedDefunct'
  BY <1>1, <1>3, <1>4 DEF ManagedInv, TimeoutFindsSuspended, Unarmed, FreedDefunct
<1>9. IdleReady' /\ Plain'
  BY <1>1, <1>5 DEF ManagedInv, IdleReady, Plain
<1>10. CurrentSound' /\ Unlocked'
  BY <1>1, <1>4, <1>6 DEF ManagedInv, CurrentSound, Unlocked, TypeOK
<1>11. Aside
  BY <1>1, <1>4, <1>6 DEF Aside
<1> QED BY <1>4, <1>6, <1>7, <1>8, <1>9, <1>10, <1>11, AsideStep

\* A pending switch is taken.
LEMMA ManagedPendSVStep ==
    ASSUME ManagedUse, ManagedInv, PendSV
    PROVE  ManagedInv'
<1>1. /\ q' = q /\ lock' = lock /\ armed' = armed /\ rem' = rem /\ pc' = pc
      /\ arg' = arg /\ then' = then /\ isr' = isr /\ freed' = freed
  BY DEF PendSV
<1>2. sw.flag /\ sw.to = sw.current /\ sw \in Switches
  BY DEF PendSV, ManagedInv, SwitchInv, SwitchSound, TypeOK
<1>3. sw' = [current |-> sw.current, cpu |-> sw.to, from |-> sw.from,
             to |-> sw.to, flag |-> FALSE]
  BY <1>2 DEF PendSV, Switches
<1>4. SwitchInv' /\ sw' \in Switches /\ sw'.current = sw.current /\ sw'.cpu = sw.current
  BY <1>2, <1>3 DEF SwitchInv, SwitchWords, SwitchSound, Switches
<1>5. TypeOK' /\ IdleReady' /\ TimeoutFindsSuspended' /\ Plain' /\ Unarmed'
      /\ FreedDefunct'
  BY <1>1, <1>4 DEF ManagedInv, TypeOK, IdleReady, TimeoutFindsSuspended, Plain, Unarmed,
                    FreedDefunct
<1>6. CurrentSound' /\ Unlocked'
  BY <1>1, <1>4 DEF ManagedInv, CurrentSound, Unlocked
<1>7. Aside /\ Whole(q', Hand, Stale)
  BY <1>1, <1>4 DEF Aside, ManagedInv, WholeNow
<1> QED BY <1>4, <1>5, <1>6, <1>7, AsideStep

\* The tick handler, up to the timers and from them.
LEMMA ManagedTickStep ==
    ASSUME ManagedUse, ManagedInv, Tick \/ TickReturn
    PROVE  ManagedInv'
<1>1. /\ lock' = lock /\ armed' = armed /\ pc' = pc /\ sw' = sw
      /\ arg' = arg /\ then' = then /\ freed' = freed /\ isr' \in IsrPositions
  BY DEF Tick, TickReturn, IsrPositions
<1>2. Whole(q, Hand, Stale) /\ sw.current \in Threads
  BY DEF ManagedInv, WholeNow, CurrentSound
<1>3. sw.current # Hand
  BY <1>2, HandTarget
<1>4. /\ Whole(q', Hand, Stale) /\ q'.stat = q.stat /\ q'.prio = q.prio
      /\ q'.defunct = q.defunct
  <2>1. CASE q' = q
    BY <1>2, <2>1
  <2>2. CASE q' = Rotated(q, sw.current) /\ q.stat[sw.current] = "ready"
    BY <1>2, <1>3, <2>2, WholeRotate
  <2> QED BY <2>1, <2>2 DEF Tick, TickReturn
<1>5. rem' \in [Threads -> Nat \ {0}]
  <2>1. CASE rem' = rem
    BY <2>1 DEF ManagedInv, TypeOK
  <2>2. CASE Tick
    <3> DEFINE t == sw.current
               n == IF rem[t] = 1 THEN Slice[t] ELSE rem[t] - 1
    <3>1. rem \in [Threads -> Nat \ {0}] /\ t \in Threads
      BY <1>2 DEF ManagedInv, TypeOK
    <3>2. n \in Nat \ {0}
      BY <3>1, SchedulerAssumption
    <3>3. rem' = [rem EXCEPT ![t] = n]
      BY <2>2 DEF Tick
    <3> HIDE DEF n, t
    <3> QED BY <3>1, <3>2, <3>3
  <2> QED BY <2>1, <2>2 DEF TickReturn
<1>6. TypeOK'
  <2>1. q' \in Queues
    BY <1>4 DEF Whole
  <2> QED BY <1>1, <1>5, <2>1 DEF ManagedInv, TypeOK
<1>7. /\ SwitchInv' /\ IdleReady' /\ TimeoutFindsSuspended' /\ Plain' /\ Unarmed'
      /\ FreedDefunct'
  BY <1>1, <1>4 DEF ManagedInv, SwitchInv, SwitchWords, SwitchSound, IdleReady,
                    TimeoutFindsSuspended, Plain, Unarmed, FreedDefunct
<1>8. CurrentSound' /\ Unlocked'
  BY <1>1, <1>4 DEF ManagedInv, CurrentSound, Unlocked
<1>9. Aside
  BY <1>1, <1>4 DEF Aside
<1> QED BY <1>4, <1>6, <1>7, <1>8, <1>9, AsideStep

LEMMA ManagedTickScheduleStep ==
    ASSUME ManagedUse, ManagedInv, TickSchedule
    PROVE  ManagedInv'
<1>1. /\ q' = q /\ lock' = lock /\ armed' = armed /\ rem' = rem /\ pc' = pc
      /\ arg' = arg /\ then' = then /\ isr' = "timers" /\ freed' = freed
  BY DEF TickSchedule
<1>2. /\ SwitchInv' /\ sw' \in Switches
      /\ IF lock = 0 THEN /\ sw'.current \in Threads \ {Hand}
                         /\ q.stat[sw'.current] = "ready"
                         /\ \A u \in Threads \ {Hand} :
                               q.stat[u] = "ready" => q.prio[sw'.current] =< q.prio[u]
                     ELSE sw' = sw
  <2>1. Whole(q, Hand, Stale) /\ q.stat[Idle] = "ready" /\ (Busy => q.stat[Main] = "ready")
    BY DEF ManagedInv, WholeNow, IdleReady, InHand
  <2>2. sw' = Rescheduled(q, sw)
    BY DEF TickSchedule, Schedule
  <2> QED BY <2>1, <2>2, ManagedReschedule
<1>3. /\ TypeOK' /\ IdleReady' /\ TimeoutFindsSuspended' /\ Plain' /\ Unarmed'
      /\ FreedDefunct'
  BY <1>1, <1>2 DEF ManagedInv, TypeOK, IdleReady, TimeoutFindsSuspended, Plain, Unarmed,
                    FreedDefunct, IsrPositions
<1>4. CurrentSound' /\ Unlocked'
  BY <1>1, <1>2 DEF ManagedInv, CurrentSound, Unlocked, TypeOK
<1>5. Aside /\ Whole(q', Hand, Stale)
  BY <1>1, <1>2 DEF Aside, ManagedInv, WholeNow
<1> QED BY <1>2, <1>3, <1>4, <1>5, AsideStep

\* With nobody in hand the lists are sound.
LEMMA EmptyHands ==
    ASSUME ManagedInv, pc[Main] \notin {"insert", "detach", "close"}
    PROVE  Hand = NoThread /\ q \in Queues /\ QueuesSound(q)
<1>1. Hand = NoThread /\ Stale = {}
  BY DEF Hand, Stale
<1>2. Whole(q, NoThread, {})
  BY <1>1 DEF ManagedInv, WholeNow
<1> QED BY <1>1, <1>2, WholeExact

LEMMA HandsEmptied ==
    ASSUME pc'[Main] \notin {"insert", "detach", "close"}, q' \in Queues, QueuesSound(q')
    PROVE  WholeNow'
<1>1. Hand' = NoThread /\ Stale' = {}
  BY DEF Hand, Stale
<1>2. Whole(q', NoThread, {})
  BY WholeExact
<1> QED BY <1>1, <1>2 DEF WholeNow

\* The main thread, when it executes a call about another thread, is ready, and
\* the scheduler is not locked.
LEMMA MainCalls ==
    ASSUME ManagedUse, ManagedInv, OnCpu(Main), Busy \/ pc[Main] = "run"
    PROVE  sw.current = Main /\ lock = 0 /\ q.stat[Main] = "ready"
<1>1. sw.current = Main
  BY DEF ManagedInv, SwitchInv, SwitchSound, OnCpu
<1>2. lock = 0
  BY <1>1 DEF ManagedInv, Unlocked, TypeOK
<1>3. q.stat[Main] = "ready"
  BY <1>1, <1>2 DEF ManagedInv, CurrentSound, InHand
<1> QED BY <1>1, <1>2, <1>3

\* A section of such a call, about thread u.
LEMMA ManagedMainStep ==
    ASSUME ManagedUse, ManagedInv, OnCpu(Main), Busy \/ pc[Main] = "run",
           NEW u \in Threads, u # Idle, q' \in Queues,
           \A x \in Threads \ {u} : q'.stat[x] = q.stat[x],
           armed' \subseteq armed, u \in armed' => q'.stat[u] = "suspend",
           u = Main => \/ q'.stat[u] = "ready"
                       \/ q'.stat[u] = "suspend" /\ pc'[Main] = "schedule",
           pc' \in [Threads -> Positions], pc'[Idle] = "run",
           \A x \in Threads \ {Main} : pc'[x] \in {"run", "schedule"},
           arg' \in [Threads -> ThreadOrNone], then' \in [Threads -> {"run", "schedule"}],
           rem' \in [Threads -> Nat \ {0}], freed' \subseteq freed,
           u \in freed' => q'.stat[u] = "close" /\ u \notin Range(q'.defunct),
           Range(q'.defunct) \subseteq Range(q.defunct) \union {u},
           UNCHANGED <<sw, lock, isr>>, WholeNow', InHand'
    PROVE  ManagedInv'
<1>1. sw.current = Main /\ lock = 0 /\ q.stat[Main] = "ready" /\ Main \in Threads
      /\ Idle \in Threads
  BY MainCalls, SchedulerAssumption
<1>2. sw' = sw /\ lock' = lock /\ isr' = isr
  OBVIOUS
<1>3. TypeOK'
  BY <1>2 DEF ManagedInv, TypeOK
<1>4. SwitchInv' /\ Unlocked'
  BY <1>2 DEF ManagedInv, Unlocked, SwitchInv, SwitchWords, SwitchSound
<1>5. IdleReady' /\ Plain'
  BY <1>1 DEF ManagedInv, IdleReady, Plain
<1>6. TimeoutFindsSuspended' /\ Unarmed'
  BY DEF ManagedInv, TimeoutFindsSuspended, Unarmed, TypeOK
<1>7. CurrentSound'
  BY <1>1, <1>2 DEF CurrentSound
<1>8. FreedDefunct'
  BY DEF ManagedInv, FreedDefunct, TypeOK
<1> QED BY <1>3, <1>4, <1>5, <1>6, <1>7, <1>8 DEF ManagedInv

\* The status check at the head of rt_thread_suspend and rt_thread_resume.
LEMMA ManagedCheckStep ==
    ASSUME ManagedUse, ManagedInv, NEW u \in Threads,
           SuspendCheck(Main, u) \/ Resume(Main, u)
    PROVE  ManagedInv'
<1>1. OnCpu(Main) /\ pc[Main] = "run" /\ Main \in Threads /\ Idle \in Threads /\ Main # Idle
      /\ Targets[Main] \subseteq Threads \ {Idle} /\ Main \notin Targets[Main]
  BY SchedulerAssumption DEF SuspendCheck, Resume, Invokes, At, ManagedUse
<1>2. q \in Queues /\ QueuesSound(q)
  BY <1>1, EmptyHands
<1>3. q.stat[Main] = "ready" /\ sw.current = Main
  BY <1>1, MainCalls
<1>4. /\ q' = q /\ sw' = sw /\ lock' = lock /\ armed' = armed /\ rem' = rem
      /\ isr' = isr /\ freed' = freed /\ arg' = [arg EXCEPT ![Main] = u]
      /\ then' \in [Threads -> {"run", "schedule"}]
  BY DEF SuspendCheck, Resume, ManagedInv, TypeOK
<1>5. \/ /\ pc' = [pc EXCEPT ![Main] = "suspend"] /\ q.stat[u] = "ready"
         /\ u \in Targets[Main] \union {Main}
      \/ /\ pc' = [pc EXCEPT ![Main] = "unlink"] /\ q.stat[u] = "suspend"
         /\ u \in Targets[Main]
  BY DEF SuspendCheck, Resume, Goto
<1>6. pc \in [Threads -> Positions] /\ arg \in [Threads -> ThreadOrNone]
  BY DEF ManagedInv, TypeOK
<1>7. arg'[Main] = u /\ arg' \in [Threads -> ThreadOrNone]
  BY <1>1, <1>4, <1>6 DEF ThreadOrNone
<1>8. /\ pc' \in [Threads -> Positions] /\ \A x \in Threads \ {Main} : pc'[x] = pc[x]
      /\ pc'[Main] \in {"suspend", "unlink"}
  BY <1>1, <1>5, <1>6 DEF Positions
<1>9. WholeNow'
  BY <1>2, <1>4, <1>8, HandsEmptied
<1>10. InHand'
  <2>1. CASE pc'[Main] = "suspend" /\ q.stat[u] = "ready" /\ u \in Targets[Main] \union {Main}
    BY <1>3, <1>4, <1>7, <2>1 DEF InHand
  <2>2. CASE pc'[Main] = "unlink" /\ q.stat[u] = "suspend" /\ u \in Targets[Main]
    BY <1>3, <1>4, <1>7, <2>2 DEF InHand
  <2> QED BY <1>1, <1>5, <1>6, <2>1, <2>2
<1>11. /\ u # Idle /\ pc'[Idle] = "run"
       /\ \A x \in Threads \ {Main} : pc'[x] \in {"run", "schedule"}
  BY <1>1, <1>5, <1>8 DEF ManagedInv, IdleReady, Plain
<1>12. /\ u \in armed' => q'.stat[u] = "suspend"
       /\ u \in freed' => q'.stat[u] = "close" /\ u \notin Range(q'.defunct)
       /\ u = Main => q'.stat[u] = "ready"
       /\ rem' \in [Threads -> Nat \ {0}]
  BY <1>3, <1>4 DEF ManagedInv, TimeoutFindsSuspended, FreedDefunct, TypeOK
<1> QED BY <1>1, <1>2, <1>4, <1>7, <1>8, <1>9, <1>10, <1>11, <1>12, ManagedMainStep

\* The thread a section of the main thread is about.
LEMMA MainArgument ==
    ASSUME ManagedUse, ManagedInv, NEW l, At(Main, l), l \notin {"run", "schedule"}
    PROVE  /\ OnCpu(Main) /\ Busy /\ pc[Main] = l /\ Main \in Threads /\ Idle \in Threads
           /\ Main # Idle /\ arg[Main] \in Threads /\ arg[Main] # Idle
           /\ l # "suspend" => arg[Main] \in Targets[Main] /\ arg[Main] # Main
           /\ arg[Main] \notin freed
<1>1. OnCpu(Main) /\ pc[Main] = l /\ Busy
  BY DEF At, Busy
<1>2. /\ Targets[Main] \subseteq Threads \ {Idle} /\ Main \notin Targets[Main]
      /\ Main \in Threads /\ Idle \in Threads /\ Main # Idle
  BY SchedulerAssumption DEF ManagedUse
<1>3. /\ arg[Main] \in Targets[Main] \/ (pc[Main] = "suspend" /\ arg[Main] = Main)
      /\ q.stat[arg[Main]] # "close"
  BY <1>1 DEF ManagedInv, InHand
<1>4. arg[Main] \notin freed
  BY <1>3 DEF ManagedInv, FreedDefunct
<1> QED BY <1>1, <1>2, <1>3, <1>4

\* The section of rt_thread_suspend, the argument ready or not.
LEMMA ManagedSuspendStep ==
    ASSUME ManagedUse, ManagedInv, SuspendSection(Main)
    PROVE  ManagedInv'
<1> DEFINE u == arg[Main]
<1>1. At(Main, "suspend")
  BY DEF SuspendSection
<1>2. /\ OnCpu(Main) /\ Busy /\ pc[Main] = "suspend" /\ Main \in Threads /\ Idle \in Threads
      /\ Main # Idle /\ u \in Threads /\ u # Idle /\ u \notin freed
  BY <1>1, MainArgument
<1>3. /\ q' = Suspended(q, u) /\ armed' = armed \ {u}
      /\ pc' = [pc EXCEPT ![Main] = IF u = Main THEN "schedule" ELSE "run"]
      /\ sw' = sw /\ lock' = lock /\ rem' = rem /\ arg' = arg /\ then' = then
      /\ isr' = isr /\ freed' = freed
  BY DEF SuspendSection, Goto
<1>4. q.stat[u] \in {"ready", "suspend"}
  BY <1>2 DEF ManagedInv, InHand
<1> HIDE DEF u
<1>5. q \in Queues /\ QueuesSound(q) /\ q.stat \in [Threads -> Stats]
  BY <1>2, EmptyHands, StatusTypes
<1>6. q' \in Queues /\ QueuesSound(q') /\ Became(q, q', u, "suspend")
  BY <1>2, <1>3, <1>4, <1>5, SuspendLate
<1>7. /\ q'.stat[u] = "suspend" /\ \A x \in Threads \ {u} : q'.stat[x] = q.stat[x]
      /\ Range(q'.defunct) = Range(q.defunct)
  BY <1>2, <1>5, <1>6 DEF Became
<1>8. pc \in [Threads -> Positions] /\ rem' \in [Threads -> Nat \ {0}]
      /\ arg' \in [Threads -> ThreadOrNone] /\ then' \in [Threads -> {"run", "schedule"}]
  BY <1>3 DEF ManagedInv, TypeOK
<1>9. /\ pc' \in [Threads -> Positions] /\ \A x \in Threads \ {Main} : pc'[x] = pc[x]
      /\ pc'[Main] \in {"run", "schedule"} /\ (u = Main => pc'[Main] = "schedule")
  BY <1>2, <1>3, <1>8 DEF Positions
<1>10. WholeNow' /\ InHand'
  BY <1>6, <1>9, HandsEmptied DEF InHand, Busy
<1>11. pc'[Idle] = "run" /\ \A x \in Threads \ {Main} : pc'[x] \in {"run", "schedule"}
  BY <1>2, <1>9 DEF ManagedInv, IdleReady, Plain
<1> QED BY <1>2, <1>3, <1>6, <1>7, <1>8, <1>9, <1>10, <1>11, ManagedMainStep

\* The section of rt_thread_resume: the thread is in hand from here ...
LEMMA ManagedUnlinkStep ==
    ASSUME ManagedUse, ManagedInv, ResumeUnlink(Main)
    PROVE  ManagedInv'
<1> DEFINE u == arg[Main]
           S == IF q.stat[u] = "ready" THEN {q.prio[u]} ELSE {}
<1>1. At(Main, "unlink")
  BY DEF ResumeUnlink
<1>2. /\ OnCpu(Main) /\ Busy /\ pc[Main] = "unlink" /\ Main \in Threads /\ Idle \in Threads
      /\ Main # Idle /\ u \in Threads /\ u # Idle /\ u \notin freed
      /\ u \in Targets[Main] /\ u # Main
  BY <1>1, MainArgument
<1>3. /\ q' = Unlinked(q, u) /\ armed' = armed \ {u}
      /\ pc' = [pc EXCEPT ![Main] = "insert"]
      /\ sw' = sw /\ lock' = lock /\ rem' = rem /\ arg' = arg /\ then' = then
      /\ isr' = isr /\ freed' = freed
  BY DEF ResumeUnlink, Goto
<1>4. sw.current = Main /\ q.stat[Main] = "ready"
  BY <1>2, MainCalls
<1>5. /\ q.stat[u] \in {"ready", "suspend"}
      /\ q.stat[u] = "ready" => q.prio[Main] =< q.prio[u]
  BY <1>2, <1>4 DEF ManagedInv, InHand
<1>6. q \in Queues /\ QueuesSound(q)
  BY <1>2, EmptyHands
<1>7. pc \in [Threads -> Positions] /\ rem' \in [Threads -> Nat \ {0}]
      /\ arg' \in [Threads -> ThreadOrNone] /\ then' \in [Threads -> {"run", "schedule"}]
  BY <1>3 DEF ManagedInv, TypeOK
<1>8. /\ pc' \in [Threads -> Positions] /\ \A x \in Threads \ {Main} : pc'[x] = pc[x]
      /\ pc'[Main] = "insert"
  BY <1>2, <1>3, <1>7 DEF Positions
<1>9. Whole(q', u, S) /\ Took(q, q')
  <2> HIDE DEF u
  <2> QED BY <1>2, <1>3, <1>5, <1>6, TakeUnlink
<1>10. q'.stat = q.stat /\ q'.prio = q.prio /\ Range(q'.defunct) = Range(q.defunct)
       /\ q' \in Queues
  BY <1>9 DEF Took, Whole
<1>11. arg'[Main] = u
  BY <1>3
<1>12. WholeNow'
  <2>1. Hand' = u
    BY <1>8, <1>11 DEF Hand
  <2>2. Stale' = S
    BY <1>8, <1>10, <1>11 DEF Stale
  <2> HIDE DEF u, S
  <2> QED BY <1>9, <2>1, <2>2 DEF WholeNow
<1> HIDE DEF u, S
<1>13. InHand'
  BY <1>2, <1>3, <1>4, <1>5, <1>8, <1>10, <1>11 DEF InHand
<1>14. pc'[Idle] = "run" /\ \A x \in Threads \ {Main} : pc'[x] \in {"run", "schedule"}
  BY <1>2, <1>8 DEF ManagedInv, IdleReady, Plain
<1>15. \A x \in Threads \ {u} : q'.stat[x] = q.stat[x]
  BY <1>10
<1>16. Range(q'.defunct) \subseteq Range(q.defunct) \union {u} /\ armed' \subseteq armed
       /\ u \notin armed'
  BY <1>3, <1>10
<1> QED BY <1>2, <1>3, <1>7, <1>8, <1>10, <1>12, <1>13, <1>14, <1>15, <1>16, ManagedMainStep

\* ... to the call of rt_schedule_insert_thread.
LEMMA ManagedInsertStep ==
    ASSUME ManagedUse, ManagedInv, ResumeInsert(Main)
    PROVE  ManagedInv'
<1> DEFINE u == arg[Main]
           S == IF q.stat[u] = "ready" THEN {q.prio[u]} ELSE {}
<1>1. At(Main, "insert")
  BY DEF ResumeInsert
<1>2. /\ OnCpu(Main) /\ Busy /\ pc[Main] = "insert" /\ Main \in Threads /\ Idle \in Threads
      /\ Main # Idle /\ u \in Threads /\ u # Idle /\ u \notin freed
      /\ u \in Targets[Main] /\ u # Main
  BY <1>1, MainArgument
<1>3. /\ q' = InsertThread(q, u) /\ armed' = armed
      /\ pc' = [pc EXCEPT ![Main] = then[Main]]
      /\ sw' = sw /\ lock' = lock /\ rem' = rem /\ arg' = arg /\ then' = then
      /\ isr' = isr /\ freed' = freed
  BY DEF ResumeInsert, Goto
<1>4. Whole(q, u, S) /\ S \subseteq {q.prio[u]}
  <2>1. Hand = u /\ Stale = S
    BY <1>2 DEF Hand, Stale
  <2>2. S \subseteq {q.prio[u]}
    OBVIOUS
  <2> HIDE DEF u, S
  <2> QED BY <2>1, <2>2 DEF ManagedInv, WholeNow
<1> HIDE DEF u, S
<1>5. q' \in Queues /\ QueuesSound(q') /\ Became(q, q', u, "ready")
  BY <1>2, <1>3, <1>4, GiveBack
<1>6. q.stat \in [Threads -> Stats]
  BY StatusTypes DEF ManagedInv, TypeOK
<1>7. /\ q'.stat[u] = "ready" /\ \A x \in Threads \ {u} : q'.stat[x] = q.stat[x]
      /\ Range(q'.defunct) = Range(q.defunct)
  BY <1>2, <1>5, <1>6 DEF Became
<1>8. pc \in [Threads -> Positions] /\ rem' \in [Threads -> Nat \ {0}]
      /\ arg' \in [Threads -> ThreadOrNone] /\ then' \in [Threads -> {"run", "schedule"}]
      /\ then[Main] \in {"run", "schedule"}
  BY <1>2, <1>3 DEF ManagedInv, TypeOK
<1>9. /\ pc' \in [Threads -> Positions] /\ \A x \in Threads \ {Main} : pc'[x] = pc[x]
      /\ pc'[Main] \in {"run", "schedule"}
  BY <1>2, <1>3, <1>8 DEF Positions
<1>10. WholeNow' /\ InHand'
  BY <1>5, <1>9, HandsEmptied DEF InHand, Busy
<1>11. pc'[Idle] = "run" /\ \A x \in Threads \ {Main} : pc'[x] \in {"run", "schedule"}
  BY <1>2, <1>9 DEF ManagedInv, IdleReady, Plain
<1>12. u \notin armed'
  BY <1>2, <1>3 DEF ManagedInv, Unarmed
<1> QED BY <1>2, <1>3, <1>5, <1>7, <1>8, <1>9, <1>10, <1>11, <1>12, ManagedMainStep

\* rt_thread_startup, up to the rt_thread_resume in it.
LEMMA ManagedStartupStep ==
    ASSUME ManagedUse, ManagedInv, NEW u \in Threads, Startup(Main, u)
    PROVE  ManagedInv'
<1>1. /\ OnCpu(Main) /\ pc[Main] = "run" /\ Main \in Threads /\ Idle \in Threads /\ Main # Idle
      /\ u \in Targets[Main] /\ u # Main /\ u # Idle /\ q.stat[u] = "init"
  BY SchedulerAssumption DEF Startup, Invokes, At, ManagedUse
<1>2. q \in Queues /\ QueuesSound(q) /\ q.stat \in [Threads -> Stats]
  BY <1>1, EmptyHands, StatusTypes
<1>3. q.stat[Main] = "ready" /\ sw.current = Main
  BY <1>1, MainCalls
<1>4. /\ sw' = sw /\ lock' = lock /\ armed' = armed /\ rem' = rem
      /\ isr' = isr /\ freed' = freed /\ arg' = [arg EXCEPT ![Main] = u]
      /\ pc' = [pc EXCEPT ![Main] = "unlink"] /\ then' = [then EXCEPT ![Main] = "schedule"]
  BY DEF Startup, Goto
<1>5. /\ q' \in Queues /\ QueuesSound(q')
      /\ q'.stat = [q.stat EXCEPT ![u] = "suspend"] /\ q'.defunct = q.defunct
  <2> DEFINE s == "suspend"
             p == InitPrio[u]
  <2>1. q' = Relabelled(q, u, s, p)
    BY <1>2 DEF Startup, Relabelled, Queues
  <2>2. s \in Stats \ {"ready"} /\ p \in Prios
    BY SchedulerAssumption DEF Stats
  <2>3. Free(q, u)
    BY <1>1, <1>2, FreeByStatus
  <2>4. s = "suspend"
    OBVIOUS
  <2> HIDE DEF s, p
  <2>5. /\ q' \in Queues /\ QueuesSound(q')
        /\ q'.stat = [q.stat EXCEPT ![u] = s] /\ q'.ready = q.ready
        /\ q'.group = q.group /\ q'.wait = q.wait /\ q'.defunct = q.defunct
    BY <1>2, <2>1, <2>2, <2>3, RelabelLemma
  <2> QED BY <2>4, <2>5
<1>6. q'.stat[u] = "suspend" /\ \A x \in Threads \ {u} : q'.stat[x] = q.stat[x]
  BY <1>2, <1>5
<1>7. pc \in [Threads -> Positions] /\ rem' \in [Threads -> Nat \ {0}]
      /\ arg \in [Threads -> ThreadOrNone] /\ then' \in [Threads -> {"run", "schedule"}]
  BY <1>1, <1>4 DEF ManagedInv, TypeOK
<1>8. /\ pc' \in [Threads -> Positions] /\ \A x \in Threads \ {Main} : pc'[x] = pc[x]
      /\ pc'[Main] = "unlink" /\ arg'[Main] = u /\ arg' \in [Threads -> ThreadOrNone]
  BY <1>1, <1>4, <1>7 DEF Positions, ThreadOrNone
<1>9. WholeNow'
  BY <1>5, <1>8, HandsEmptied
<1>10. InHand'
  BY <1>1, <1>3, <1>6, <1>8 DEF InHand
<1>11. pc'[Idle] = "run" /\ \A x \in Threads \ {Main} : pc'[x] \in {"run", "schedule"}
  BY <1>1, <1>8 DEF ManagedInv, IdleReady, Plain
<1>12. u \notin armed' /\ u \notin freed'
  BY <1>1, <1>4 DEF ManagedInv, TimeoutFindsSuspended, FreedDefunct
<1> QED BY <1>1, <1>4, <1>5, <1>6, <1>7, <1>8, <1>9, <1>10, <1>11, <1>12, ManagedMainStep

\* The section of rt_thread_control leaves the dead where they are.
LEMMA ReprioritisedDefunct ==
    ASSUME NEW r \in Queues, QueuesSound(r), NEW u \in Threads, NEW p \in Prios,
           NEW s, s = Reprioritised(r, u, p)
    PROVE  s.defunct = r.defunct
<1>1. CASE r.stat[u] = "ready"
  <2> DEFINE d == RemoveThread(r, u)
             e == [d EXCEPT !.prio[u] = p]
             n == Unlinked(r, u)
             k == IF Unlink(r.ready[r.prio[u]], u) = <<>>
                  THEN r.group \ {r.prio[u]} ELSE r.group
  <2>1. Unlink(r.defunct, u) = r.defunct
    BY <1>1 DEF Unlink, QueuesSound, ListsSound
  <2>2. n \in Queues /\ n.defunct = r.defunct
    <3>1. n \in Queues
      BY UnlinkedOnly
    <3>2. n.defunct = Unlink(r.defunct, u)
      BY DEF Unlinked, Queues
    <3> HIDE DEF n
    <3> QED BY <2>1, <3>1, <3>2
  <2>3. d = [n EXCEPT !.group = k]
    BY RemoveFields
  <2>4. d \in Queues
    BY RemoveOnly
  <2>5. s = InsertThread(e, u)
    BY <1>1 DEF Reprioritised
  <2> HIDE DEF n, k
  <2>6. d.defunct = r.defunct
    BY <2>2, <2>3 DEF Queues
  <2> HIDE DEF d
  <2>7. e \in Queues /\ e.defunct = d.defunct
    BY <2>4 DEF Queues
  <2> HIDE DEF e
  <2> QED BY <2>5, <2>6, <2>7, InsertFields
<1>2. CASE r.stat[u] # "ready"
  BY <1>2 DEF Reprioritised, Queues
<1> QED BY <1>1, <1>2

\* rt_thread_control
LEMMA ManagedPriorityStep ==
    ASSUME ManagedUse, ManagedInv, NEW u \in Threads, NEW p \in Prios,
           ChangePriority(Main, u, p)
    PROVE  ManagedInv'
<1>1. /\ OnCpu(Main) /\ pc[Main] = "run" /\ Main \in Threads /\ Idle \in Threads /\ Main # Idle
      /\ u # Idle
  BY SchedulerAssumption DEF ChangePriority, Invokes, At, ManagedUse
<1>2. q \in Queues /\ QueuesSound(q)
  BY <1>1, EmptyHands
<1>3. q.stat[Main] = "ready"
  BY <1>1, MainCalls
<1>4. /\ sw' = sw /\ lock' = lock /\ armed' = armed /\ rem' = rem /\ pc' = pc
      /\ isr' = isr /\ freed' = freed /\ arg' = arg /\ then' = then
      /\ q' = Reprioritised(q, u, p)
  BY DEF ChangePriority
<1>5. q' \in Queues /\ QueuesSound(q') /\ q'.stat = q.stat
  <2>1. /\ q' \in Queues /\ QueuesSound(q')
        /\ q'.stat = q.stat /\ q'.prio = [q.prio EXCEPT ![u] = p]
        /\ q'.wait = q.wait
    BY <1>2, <1>4, ReprioritisedLemma
  <2> QED BY <2>1
<1>6. q'.defunct = q.defunct
  BY <1>2, <1>4, ReprioritisedDefunct
<1>7. pc' \in [Threads -> Positions] /\ rem' \in [Threads -> Nat \ {0}]
      /\ arg' \in [Threads -> ThreadOrNone] /\ then' \in [Threads -> {"run", "schedule"}]
  BY <1>4 DEF ManagedInv, TypeOK
<1>8. WholeNow' /\ InHand'
  <2>1. pc'[Main] = "run"
    BY <1>1, <1>4
  <2> QED BY <1>5, <2>1, HandsEmptied DEF InHand, Busy
<1>9. pc'[Idle] = "run" /\ \A x \in Threads \ {Main} : pc'[x] \in {"run", "schedule"}
  BY <1>1, <1>4 DEF ManagedInv, IdleReady, Plain
<1>10. /\ u \in armed' => q'.stat[u] = "suspend"
       /\ u \in freed' => q'.stat[u] = "close" /\ u \notin Range(q'.defunct)
       /\ u = Main => q'.stat[u] = "ready"
  BY <1>3, <1>4, <1>5, <1>6 DEF ManagedInv, TimeoutFindsSuspended, FreedDefunct
<1>11. /\ \A x \in Threads \ {u} : q'.stat[x] = q.stat[x]
       /\ Range(q'.defunct) \subseteq Range(q.defunct) \union {u}
       /\ armed' \subseteq armed /\ freed' \subseteq freed
  BY <1>4, <1>5, <1>6
<1> QED BY <1>1, <1>4, <1>5, <1>7, <1>8, <1>9, <1>10, <1>11, ManagedMainStep

\* rt_thread_create, rt_thread_init
LEMMA ManagedCreateStep ==
    ASSUME ManagedUse, ManagedInv, NEW u \in Threads, Create(Main, u)
    PROVE  ManagedInv'
<1>1. /\ OnCpu(Main) /\ pc[Main] = "run" /\ Main \in Threads /\ Idle \in Threads /\ Main # Idle
      /\ u # Main /\ u # Idle /\ q.stat[u] = "close"
  BY SchedulerAssumption DEF Create, Invokes, At, ManagedUse
<1>2. q \in Queues /\ QueuesSound(q) /\ q.stat \in [Threads -> Stats]
  BY <1>1, EmptyHands, StatusTypes
<1>3. /\ sw' = sw /\ lock' = lock /\ armed' = armed /\ rem' = [rem EXCEPT ![u] = Slice[u]]
      /\ isr' = isr /\ freed' = freed \ {u} /\ arg' = arg /\ then' = then
      /\ pc' = [pc EXCEPT ![u] = "run"]
  BY DEF Create, Goto
<1>4. u \notin Range(q.defunct)
  BY DEF Create, ManagedInv, FreedDefunct
<1>5. /\ q' \in Queues /\ QueuesSound(q')
      /\ q'.stat = [q.stat EXCEPT ![u] = "init"] /\ q'.defunct = q.defunct
  <2> DEFINE s == "init"
             p == InitPrio[u]
  <2>1. q' = Relabelled(q, u, s, p)
    BY <1>2 DEF Create, Relabelled, Queues
  <2>2. s \in Stats \ {"ready"} /\ p \in Prios
    BY SchedulerAssumption DEF Stats
  <2>3. Free(q, u)
    BY <1>1, <1>2, <1>4, FreeByStatus
  <2>4. s = "init"
    OBVIOUS
  <2> HIDE DEF s, p
  <2>5. /\ q' \in Queues /\ QueuesSound(q')
        /\ q'.stat = [q.stat EXCEPT ![u] = s] /\ q'.ready = q.ready
        /\ q'.group = q.group /\ q'.wait = q.wait /\ q'.defunct = q.defunct
    BY <1>2, <2>1, <2>2, <2>3, RelabelLemma
  <2> QED BY <2>4, <2>5
<1>6. \A x \in Threads \ {u} : q'.stat[x] = q.stat[x]
  BY <1>2, <1>5
<1>7. pc \in [Threads -> Positions] /\ rem' \in [Threads -> Nat \ {0}]
      /\ arg' \in [Threads -> ThreadOrNone] /\ then' \in [Threads -> {"run", "schedule"}]
  BY <1>3, SchedulerAssumption DEF ManagedInv, TypeOK
<1>8. /\ pc' \in [Threads -> Positions] /\ \A x \in Threads \ {u} : pc'[x] = pc[x]
      /\ pc'[u] = "run" /\ pc'[Main] = "run"
  BY <1>1, <1>3, <1>7 DEF Positions
<1>9. WholeNow' /\ InHand'
  BY <1>5, <1>8, HandsEmptied DEF InHand, Busy
<1>10. pc'[Idle] = "run" /\ \A x \in Threads \ {Main} : pc'[x] \in {"run", "schedule"}
  BY <1>1, <1>8 DEF ManagedInv, IdleReady, Plain
<1>11. u \notin armed' /\ u \notin freed'
  BY <1>1, <1>3 DEF ManagedInv, TimeoutFindsSuspended
<1> QED BY <1>1, <1>3, <1>5, <1>6, <1>7, <1>8, <1>9, <1>10, <1>11, ManagedMainStep

\* The first section of rt_thread_delete: the thread is in hand from here ...
LEMMA ManagedDeleteStep ==
    ASSUME ManagedUse, ManagedInv, NEW u \in Threads, Delete(Main, u)
    PROVE  ManagedInv'
<1>1. /\ OnCpu(Main) /\ pc[Main] = "run" /\ Main \in Threads /\ Idle \in Threads /\ Main # Idle
      /\ u \in Targets[Main] /\ u # Main /\ u # Idle /\ q.stat[u] # "close"
  BY SchedulerAssumption DEF Delete, Invokes, At, ManagedUse
<1>2. q \in Queues /\ QueuesSound(q) /\ q.stat \in [Threads -> Stats]
  BY <1>1, EmptyHands, StatusTypes
<1>3. /\ sw' = sw /\ lock' = lock /\ armed' = armed /\ rem' = rem
      /\ isr' = isr /\ freed' = freed /\ arg' = [arg EXCEPT ![Main] = u] /\ then' = then
      /\ pc' = [pc EXCEPT ![Main] = "detach"]
  BY DEF Delete, Goto
<1>4. q.stat[Main] = "ready" /\ sw.current = Main
  BY <1>1, MainCalls
<1>5. Whole(q', u, {}) /\ Took(q, q')
  <2>1. CASE q.stat[u] = "init"
    <3>1. q' = q
      BY <2>1 DEF Delete
    <3> QED BY <1>2, <2>1, <3>1, TakeNew DEF Took
  <2>2. CASE q.stat[u] # "init"
    <3>1. q' = RemoveThread(q, u) /\ q.stat[u] \in {"ready", "suspend"}
      BY <1>1, <1>2, <2>2 DEF Delete, Stats
    <3> QED BY <1>2, <3>1, TakeRemove
  <2> QED BY <2>1, <2>2
<1>6. q'.stat = q.stat /\ Range(q'.defunct) = Range(q.defunct) /\ q' \in Queues
  BY <1>5 DEF Took, Whole
<1>7. pc \in [Threads -> Positions] /\ rem' \in [Threads -> Nat \ {0}]
      /\ arg \in [Threads -> ThreadOrNone] /\ then' \in [Threads -> {"run", "schedule"}]
  BY <1>3 DEF ManagedInv, TypeOK
<1>8. /\ pc' \in [Threads -> Positions] /\ \A x \in Threads \ {Main} : pc'[x] = pc[x]
      /\ pc'[Main] = "detach" /\ arg'[Main] = u /\ arg' \in [Threads -> ThreadOrNone]
  BY <1>1, <1>3, <1>7 DEF Positions, ThreadOrNone
<1>9. WholeNow'
  <2>1. Hand' = u /\ Stale' = {}
    BY <1>8 DEF Hand, Stale
  <2> QED BY <1>5, <2>1 DEF WholeNow
<1>10. InHand'
  BY <1>1, <1>3, <1>4, <1>6, <1>8 DEF InHand
<1>11. pc'[Idle] = "run" /\ \A x \in Threads \ {Main} : pc'[x] \in {"run", "schedule"}
  BY <1>1, <1>8 DEF ManagedInv, IdleReady, Plain
<1>12. u \notin armed' /\ u \notin freed'
  BY <1>1, <1>3 DEF ManagedInv, Unarmed, FreedDefunct
<1>13. /\ \A x \in Threads \ {u} : q'.stat[x] = q.stat[x]
       /\ Range(q'.defunct) \subseteq Range(q.defunct) \union {u}
  BY <1>6
<1> QED BY <1>1, <1>3, <1>6, <1>7, <1>8, <1>9, <1>10, <1>11, <1>12, <1>13, ManagedMainStep

\* ... while its timer is stopped ...
LEMMA ManagedDetachStep ==
    ASSUME ManagedUse, ManagedInv, DeleteTimer(Main)
    PROVE  ManagedInv'
<1> DEFINE u == arg[Main]
<1>1. At(Main, "detach")
  BY DEF DeleteTimer
<1>2. /\ OnCpu(Main) /\ Busy /\ pc[Main] = "detach" /\ Main \in Threads /\ Idle \in Threads
      /\ Main # Idle /\ u \in Threads /\ u # Idle /\ u \notin freed /\ u # Main
  BY <1>1, MainArgument
<1>3. /\ q' = q /\ armed' = armed \ {u} /\ pc' = [pc EXCEPT ![Main] = "close"]
      /\ sw' = sw /\ lock' = lock /\ rem' = rem /\ arg' = arg /\ then' = then
      /\ isr' = isr /\ freed' = freed
  BY DEF DeleteTimer, Goto
<1>4. q' \in Queues /\ pc \in [Threads -> Positions] /\ rem' \in [Threads -> Nat \ {0}]
      /\ arg' \in [Threads -> ThreadOrNone] /\ then' \in [Threads -> {"run", "schedule"}]
  BY <1>3 DEF ManagedInv, TypeOK
<1>5. /\ pc' \in [Threads -> Positions] /\ \A x \in Threads \ {Main} : pc'[x] = pc[x]
      /\ pc'[Main] = "close"
  BY <1>2, <1>3, <1>4 DEF Positions
<1>6. WholeNow'
  <2>1. Hand' = Hand /\ Stale' = Stale
    BY <1>2, <1>3, <1>5 DEF Hand, Stale
  <2> QED BY <1>3, <2>1 DEF ManagedInv, WholeNow
<1>7. InHand'
  BY <1>2, <1>3, <1>5 DEF ManagedInv, InHand
<1> HIDE DEF u
<1>8. pc'[Idle] = "run" /\ \A x \in Threads \ {Main} : pc'[x] \in {"run", "schedule"}
  BY <1>2, <1>5 DEF ManagedInv, IdleReady, Plain
<1>9. armed' \subseteq armed /\ u \notin armed' /\ freed' \subseteq freed /\ u \notin freed'
  BY <1>2, <1>3
<1>10. /\ \A x \in Threads \ {u} : q'.stat[x] = q.stat[x]
       /\ Range(q'.defunct) \subseteq Range(q.defunct) \union {u}
  BY <1>3
<1> QED BY <1>2, <1>3, <1>4, <1>5, <1>6, <1>7, <1>8, <1>9, <1>10, ManagedMainStep

\* ... until it is closed.
LEMMA ManagedCloseStep ==
    ASSUME ManagedUse, ManagedInv, DeleteClose(Main)
    PROVE  ManagedInv'
<1> DEFINE u == arg[Main]
           m == Labelled(q, u, "close")
<1>1. At(Main, "close")
  BY DEF DeleteClose
<1>2. /\ OnCpu(Main) /\ Busy /\ pc[Main] = "close" /\ Main \in Threads /\ Idle \in Threads
      /\ Main # Idle /\ u \in Threads /\ u # Idle /\ u \notin freed /\ u # Main
      /\ u \in Targets[Main]
  BY <1>1, MainArgument
<1>3. /\ q' = m \/ q' = Dying(m, <<u>> \o m.defunct)
      /\ armed' = armed /\ pc' = [pc EXCEPT ![Main] = "run"]
      /\ sw' = sw /\ lock' = lock /\ rem' = rem /\ arg' = arg /\ then' = then
      /\ isr' = isr /\ freed' = freed
  BY DEF DeleteClose, Goto, Labelled, Dying
<1>4. Whole(q, u, {})
  <2>1. Hand = u /\ Stale = {}
    BY <1>2 DEF Hand, Stale
  <2> HIDE DEF u
  <2> QED BY <2>1 DEF ManagedInv, WholeNow
<1>5. /\ q' \in Queues /\ QueuesSound(q')
      /\ q'.stat = [q.stat EXCEPT ![u] = "close"] /\ q'.prio = q.prio
      /\ Range(q'.defunct) \subseteq Range(q.defunct) \union {u}
  <2> HIDE DEF u
  <2>1. m = Labelled(q, u, "close")
    OBVIOUS
  <2>2. u \in Threads /\ Whole(q, u, {}) /\ (q' = m \/ q' = Dying(m, <<u>> \o m.defunct))
    BY <1>2, <1>3, <1>4
  <2> HIDE DEF m
  <2> QED BY <2>1, <2>2, CloseHeld
<1> HIDE DEF u, m
<1>6. q.stat \in [Threads -> Stats] /\ pc \in [Threads -> Positions]
      /\ rem' \in [Threads -> Nat \ {0}]
      /\ arg' \in [Threads -> ThreadOrNone] /\ then' \in [Threads -> {"run", "schedule"}]
  BY <1>3, StatusTypes DEF ManagedInv, TypeOK
<1>7. /\ pc' \in [Threads -> Positions] /\ \A x \in Threads \ {Main} : pc'[x] = pc[x]
      /\ pc'[Main] = "run"
  BY <1>2, <1>3, <1>6 DEF Positions
<1>8. WholeNow' /\ InHand'
  BY <1>5, <1>7, HandsEmptied DEF InHand, Busy
<1>9. pc'[Idle] = "run" /\ \A x \in Threads \ {Main} : pc'[x] \in {"run", "schedule"}
  BY <1>2, <1>7 DEF ManagedInv, IdleReady, Plain
<1>10. u \notin armed' /\ u \notin freed'
  BY <1>2, <1>3 DEF ManagedInv, Unarmed
<1>11. \A x \in Threads \ {u} : q'.stat[x] = q.stat[x]
  BY <1>5, <1>6
<1> QED BY <1>2, <1>3, <1>5, <1>6, <1>7, <1>8, <1>9, <1>10, <1>11, ManagedMainStep

\* The invariant holds in every reachable state of an application whose main
\* thread manages the others.
THEOREM ManagedInvariant == ASSUME ManagedUse PROVE Spec => []ManagedInv
<1>1. Init => ManagedInv
  <2> SUFFICES ASSUME Init PROVE ManagedInv
    OBVIOUS
  <2>1. q = Started /\ Started \in Queues /\ QueuesSound(Started)
    BY StartedSound DEF Init
  <2>2. NextThread(Started) \in Threads /\ Started.stat[NextThread(Started)] = "ready"
    BY StartedSound
  <2> DEFINE n == NextThread(Started)
  <2> HIDE DEF n
  <2>3. /\ sw = [current |-> n, cpu |-> NoThread, from |-> NoThread, to |-> n, flag |-> TRUE]
        /\ lock = 0 /\ armed = {} /\ isr = "none" /\ freed = {} /\ rem = Slice
        /\ pc = [t \in Threads |-> "run"] /\ arg = [t \in Threads |-> NoThread]
        /\ then = [t \in Threads |-> "run"]
    BY <2>1 DEF Init, n
  <2>4. n \in Threads /\ q.stat[n] = "ready" /\ Main \in Threads /\ Idle \in Threads
    BY <2>1, <2>2, SchedulerAssumption DEF n
  <2>5. TypeOK
    BY <2>1, <2>3, <2>4, SchedulerAssumption
       DEF TypeOK, Switches, ThreadOrNone, Positions, IsrPositions
  <2>6. SwitchInv /\ CurrentSound /\ FreedDefunct /\ TimeoutFindsSuspended /\ Unarmed
        /\ Unlocked
    BY <2>3, <2>4, QueueAssumption DEF SwitchInv, SwitchWords, SwitchSound, CurrentSound,
                          FreedDefunct, TimeoutFindsSuspended, Unarmed, Unlocked
  <2>7. pc[Main] = "run"
    BY <2>3, <2>4
  <2>8. InHand /\ Plain
    BY <2>3, <2>7 DEF InHand, Busy, Plain
  <2>9. IdleReady
    BY <2>1, <2>3, SchedulerAssumption DEF IdleReady, Started
  <2>10. WholeNow
    <3>1. Hand = NoThread /\ Stale = {}
      BY <2>7 DEF Hand, Stale
    <3>2. Whole(q, NoThread, {})
      BY <2>1, WholeExact
    <3> QED BY <3>1, <3>2 DEF WholeNow
  <2> QED BY <2>5, <2>6, <2>8, <2>9, <2>10 DEF ManagedInv
<1>2. ManagedUse /\ ManagedInv /\ [Next]_vars => ManagedInv'
  <2> SUFFICES ASSUME ManagedUse, ManagedInv, [Next]_vars PROVE ManagedInv'
    OBVIOUS
  <2>1. ASSUME NEW t \in Threads, KernelStep(t) PROVE ManagedInv'
    <3>1. CASE t = Main
      BY <2>1, <3>1, ManagedScheduleStep, ManagedSuspendStep, ManagedUnlinkStep,
         ManagedInsertStep, ManagedDetachStep, ManagedCloseStep DEF KernelStep
    <3>2. CASE t # Main
      <4>1. pc[t] \in {"run", "schedule"}
        BY <2>1, <3>2 DEF ManagedInv, Plain
      <4>2. CallSchedule(t)
        BY <2>1, <4>1 DEF KernelStep, SuspendSection, ResumeUnlink, ResumeInsert,
                          DeleteTimer, DeleteClose, At
      <4> QED BY <4>2, ManagedScheduleStep
    <3> QED BY <3>1, <3>2
  <2>2. ASSUME NEW t \in Threads, KernelCall(t) PROVE ManagedInv'
    <3>1. CASE \/ ScheduleCall(t) \/ EnterCritical(t) \/ ExitCritical(t)
               \/ Yield(t) \/ Sleep(t)
      BY <3>1, ManagedCriticalStep, ManagedYieldStep, ManagedSleepStep
    <3>2. ~Exit(t)
      BY DEF Exit, Invokes, ManagedUse
    <3>3. CASE \E o \in Objects : Release(t, o) \/ \E timed \in BOOLEAN : Block(t, o, timed)
      BY <3>3, ManagedReleaseStep, ManagedBlockStep
    <3>4. ASSUME NEW u \in Threads,
                 \/ SuspendCheck(t, u) \/ Resume(t, u) \/ Startup(t, u) \/ Create(t, u)
                 \/ Delete(t, u) \/ \E p \in Prios : ChangePriority(t, u, p)
          PROVE  ManagedInv'
      <4>1. t = Main
        BY <3>4 DEF SuspendCheck, Resume, Startup, Create, Delete, ChangePriority, Invokes,
                    ManagedUse
      <4> QED BY <3>4, <4>1, ManagedCheckStep, ManagedStartupStep, ManagedCreateStep,
                 ManagedDeleteStep, ManagedPriorityStep
    <3> QED BY <2>2, <3>1, <3>2, <3>3, <3>4 DEF KernelCall
  <2>3. CASE SysTick
    BY <2>3, ManagedTickStep, ManagedTickScheduleStep, ManagedHandlerStep DEF SysTick
  <2>4. CASE \E o \in Objects : IsrRelease(o)
    BY <2>4, ManagedHandlerStep
  <2>5. CASE UNCHANGED vars
    <3>1. /\ TypeOK' /\ SwitchInv' /\ IdleReady' /\ TimeoutFindsSuspended' /\ CurrentSound'
          /\ Plain' /\ Unlocked' /\ Unarmed' /\ FreedDefunct'
      BY <2>5 DEF vars, ManagedInv, TypeOK, SwitchInv, SwitchWords, SwitchSound, IdleReady,
                  TimeoutFindsSuspended, CurrentSound, Plain, Unlocked, Unarmed, FreedDefunct
    <3>2. Aside /\ Whole(q', Hand, Stale)
      BY <2>5 DEF vars, Aside, ManagedInv, WholeNow
    <3> QED BY <3>1, <3>2, AsideStep
  <2> QED BY <2>1, <2>2, <2>3, <2>4, <2>5, ManagedReapStep, ManagedPendSVStep DEF Next
<1> QED BY <1>1, <1>2, PTL DEF Spec

\* Nothing but a thread in hand is out of step: see ListsAgreeButHeld.
THEOREM ManagedLists == ASSUME ManagedUse PROVE Spec => []ListsAgreeButHeld
<1>1. ManagedUse /\ ManagedInv => ListsAgreeButHeld
  <2> SUFFICES ASSUME ManagedUse, ManagedInv PROVE ListsAgreeButHeld
    OBVIOUS
  <2>1. Whole(q, Hand, Stale)
    BY DEF ManagedInv, WholeNow
  <2>2. /\ ListsSound(q)
        /\ \A t \in Threads \ {Hand} : q.stat[t] = "ready" => t \in Range(q.ready[q.prio[t]])
        /\ \A p \in Prios : /\ q.ready[p] # <<>> => p \in q.group
                            /\ p \in q.group => q.ready[p] # <<>> \/ p \in Stale
    BY <2>1, WholeSound
  <2>3. Main \in Threads
    BY SchedulerAssumption
  <2>4. Hand \in Threads => Hand \in Held
    BY <2>3, HandTarget DEF Hand, Held
  <2>5. \A p \in Stale : Hand \in Held /\ q.prio[Hand] = p
    BY <2>3 DEF Stale, Hand, Held
  <2> QED BY <2>2, <2>4, <2>5 DEF ListsAgreeButHeld, ManagedInv
<1> QED BY <1>1, ManagedInvariant, PTL

\* Even then rt_schedule finds a thread: see SomeoneRuns.
THEOREM ManagedRuns == ASSUME ManagedUse PROVE Spec => []SomeoneRuns
<1>1. ManagedUse /\ ManagedInv => SomeoneRuns
  <2> SUFFICES ASSUME ManagedUse, ManagedInv PROVE SomeoneRuns
    OBVIOUS
  <2>1. /\ Whole(q, Hand, Stale) /\ q.stat[Idle] = "ready"
        /\ Busy => q.stat[Main] = "ready"
    BY DEF ManagedInv, WholeNow, IdleReady, InHand
  <2>2. NextThread(q) \in Threads
    BY <2>1, ManagedNext
  <2> QED BY <2>2, QueueAssumption DEF SomeoneRuns
<1> QED BY <1>1, ManagedInvariant, PTL
=============================================================================
