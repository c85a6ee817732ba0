----------------------------- MODULE SensorApp -----------------------------
(***************************************************************************)
(* The application on the kernel: the light and temperature threads of     *)
(* Task.c, the ADC timer's function, the key, the line handler of USART2   *)
(* and the wake-up command, with the mutex buffer_lock, the message queue  *)
(* sensor_mq and the semaphore usart2_recv_sem between them.               *)
(*                                                                         *)
(* The kernel is a value k: the thread lists of ThreadQueues and the       *)
(* fields of the mutex.  A thread's step is an interrupt-free section or   *)
(* the code between two; a thread in `late` has enabled interrupts and not *)
(* yet called rt_schedule.  Handlers run to their end: the timer functions *)
(* with interrupts off, the key's above all other handlers, the line's     *)
(* above the tick.  The timer functions take one step each: in the tick    *)
(* that finds several timers expired, no thread runs between them.         *)
(* What follows once a list is broken or no thread is left to run is       *)
(* undefined, and not modelled; nor is what follows once a thread owns the *)
(* lock for good.                                                          *)
(***************************************************************************)
EXTENDS ThreadQueues

CONSTANTS Usart2, Bright, Temper, Shell, Idle,
          Scenarios, \* sets of the events that happen to a system
          MaxUnits   \* BOUND: line ends that are not taken

Base == [t \in Threads |-> CASE t = Usart2 -> 0 [] t = Bright -> 1 [] t = Temper -> 2
                           [] t = Shell -> 3 [] OTHER -> MaxPrio]

\* Conversions, line ends, the key, shell commands; conversions that may find
\* the lock taken without ending the run, and that take their time.
EventNames == {"convert", "line", "key", "command", "contend", "last"}

ASSUME SensorAssumption ==
    /\ Threads = {Usart2, Bright, Temper, Shell, Idle} /\ MaxPrio = 4
    /\ IsInjective(<<Usart2, Bright, Temper, Shell, Idle>>)
    /\ Objects = {"lock", "mq", "sem"}
    /\ Scenarios \subseteq SUBSET EventNames
    /\ MaxUnits \in Nat \ {0}

VARIABLES
    k,       \* the kernel: thread lists, rt_current_thread, buffer_lock,
             \* thread->error and the active thread timers
    pc,      \* where a thread is in its code
    late,    \* the threads that will call rt_schedule next
    mail,    \* how many messages sensor_mq holds
    units,   \* usart2_recv_sem->value
    timer,   \* sensor_timer is active
    sensing, \* bright_thread->user_data = 0
    dma,     \* a conversion was started and is not stored in ADCBuffer yet
    temper,  \* the local variable of the light thread: 0, the temperature of
             \* a message received in this round, or one of an earlier round
    events,  \* the scenario
    cut,     \* history: the waits of the sensor threads in this round, for the
             \* lock or for a message, that their timers ended
    contended \* history: the ADC timer's function found the lock taken by
             \* another thread than the one it runs as

switch == <<timer, sensing>>
data == <<mail, units, switch, dma, temper>>
history == <<events, cut, contended>>
vars == <<k, pc, late, data, history>>

Queue == 2     \* max_msgs of sensor_mq

Kernel == [q : Queues, current : Threads \union {NoThread},
           owner : Threads \union {NoThread}, value : {0, 1}, hold : Nat,
           orig : Prios \union {MaxPrio + 1},
           err : [Threads -> {"ok", "timeout", "error"}], armed : SUBSET Threads]

Labels == {"take", "taking", "read",
           "recv", "receiving", "send", "report", "print", "delay", "asleep",
           "wait", "waiting", "prompt", "waking", "idle"}

TypeOK ==
    /\ k \in Kernel
    /\ pc \in [Threads -> Labels]
    /\ late \subseteq Threads
    /\ mail \in 0..Queue /\ units \in 0..MaxUnits
    /\ timer \in BOOLEAN /\ sensing \in BOOLEAN
    /\ dma \in BOOLEAN
    /\ temper \in {"none", "received", "old"}
    /\ events \in Scenarios
    /\ cut \subseteq {Bright, Temper} \X {"lock", "mq"} /\ contended \in BOOLEAN

-----------------------------------------------------------------------------
(* The kernel's routines, as functions of k                                 *)

\* rt_kprintf keeps the scheduler locked while it prints.
Printing(t) == pc[t] \in {"report", "print"}

\* rt_schedule; nothing while the scheduler is locked
Scheduled(s) ==
    IF Printing(s.current) THEN s ELSE [s EXCEPT !.current = NextThread(s.q)]

\* rt_thread_resume: it stops the thread's timer.
Woken(s, t) == [s EXCEPT !.q = Resumed(s.q, t), !.armed = s.armed \ {t}]
WokenFirst(s, o) == IF s.q.wait[o] = <<>> THEN s ELSE Woken(s, Head(s.q.wait[o]))

\* rt_thread_suspend stops the timer of the ready thread it takes off its list.
Disarmed(s, t) == IF s.q.stat[t] = "ready" THEN s.armed \ {t} ELSE s.armed

\* rt_mutex_take without a time limit, as rt_current_thread t, up to the
\* rt_schedule of a thread that has to wait.
MustWait(s, t) == s.owner # t /\ s.value = 0
Boosted(r, t, u) == IF r.prio[t] < r.prio[u] THEN Reprioritised(r, u, r.prio[t]) ELSE r
\* Mutation of Taken: the owner's second take is not counted.
TakenOnce(s, t) ==
    IF s.owner = t THEN s
    ELSE IF s.value > 0
    THEN [s EXCEPT !.value = @ - 1, !.owner = t, !.orig = s.q.prio[t], !.hold = 1]
    ELSE [s EXCEPT !.q = WaitPrio(s.q, "lock", t), !.armed = Disarmed(s, t)]

Taken(s, t) ==
    LET e == [s EXCEPT !.err[t] = "ok"] IN
    IF s.owner = t THEN [e EXCEPT !.hold = @ + 1]
    ELSE IF s.value > 0
    THEN [e EXCEPT !.value = @ - 1, !.owner = t, !.orig = s.q.prio[t], !.hold = @ + 1]
    ELSE [e EXCEPT !.q = WaitPrio(Boosted(s.q, t, s.owner), "lock", t),
                   !.armed = Disarmed(s, t)]

\* rt_mutex_release, likewise; only when it wakes a waiter it calls rt_schedule.
WillWake(s, t) == s.owner = t /\ s.hold = 1 /\ s.q.wait["lock"] # <<>>

\* Mutation of Released: a thread that is not the owner is not turned away.
ReleasedByAny(s, t) ==
    [WokenFirst(s, "lock") EXCEPT !.hold = 0, !.owner = NoThread, !.value = @ + 1]

Released(s, t) ==
    LET r == IF s.orig # s.q.prio[t] THEN Reprioritised(s.q, t, s.orig) ELSE s.q
        u == Head(r.wait["lock"])
    IN  IF s.owner # t THEN [s EXCEPT !.err[t] = "error"]
        ELSE IF s.hold > 1 THEN [s EXCEPT !.hold = @ - 1]
        ELSE IF r.wait["lock"] = <<>>
        THEN [s EXCEPT !.q = r, !.hold = 0, !.value = @ + 1,
                       !.owner = NoThread, !.orig = MaxPrio + 1]
        ELSE Woken([s EXCEPT !.q = r, !.owner = u, !.orig = r.prio[u]], u)

\* What leaves the kernel in an undefined state: a corrupt list, or no thread to
\* run.
Broken == k.current = NoThread \/ ~ListsSound(k.q)

\* The owner of the lock is not about to release it.
InSection(t) == pc[t] = "read"
Kept == /\ k.owner # NoThread
        /\ ~InSection(k.owner) /\ pc[k.owner] # "taking"

\* BOUND: a run ends here, in most scenarios also when the ADC timer's function
\* has found the lock taken.
Over == Broken \/ Kept \/ (contended /\ "contend" \notin events)
-----------------------------------------------------------------------------
(* Threads                                                                  *)

Runs(t) == ~Over /\ k.current = t /\ t \notin late
Step(t, l, n) == Runs(t) /\ pc[t] = l /\ pc' = [pc EXCEPT ![t] = n]
CallSchedule(t, needed) == late' = IF needed THEN late \union {t} ELSE late

\* rt_schedule, called with interrupts enabled by a thread that waits or has
\* woken another one.
Schedule(t) ==
    /\ ~Over /\ k.current = t /\ t \in late
    /\ k' = Scheduled(k)
    /\ late' = late \ {t}
    /\ UNCHANGED <<pc, data, history>>

Take(t) ==
    /\ Step(t, "take", IF MustWait(k, t) THEN "taking" ELSE "read")
    /\ k' = Taken(k, t)
    /\ CallSchedule(t, MustWait(k, t))
    /\ cut' = cut \ {<<t, "lock">>, <<t, "mq">>}
    /\ UNCHANGED <<data, events, contended>>

\* The result of rt_mutex_take is not looked at.
TakeReturn(t) == Step(t, "taking", "read") /\ UNCHANGED <<k, late, data, history>>

\* A thread at "read" reads its word of ADCBuffer, up to the release.
Release(t) ==
    /\ Step(t, "read", IF t = Bright THEN "recv" ELSE "send")
    /\ k' = Released(k, t)
    /\ CallSchedule(t, WillWake(k, t))
    /\ UNCHANGED <<data, history>>

\* rt_mq_send; a full queue refuses, and nobody looks, and only when it wakes a
\* receiver it calls rt_schedule.  MessageQueue shows that its two sections are
\* as good as one.
Send(t) ==
    /\ Step(t, "send", "delay")
    /\ IF mail = Queue THEN UNCHANGED <<k, mail>>
       ELSE /\ mail' = mail + 1
            /\ k' = IF k.q.wait["mq"] = <<>> THEN k ELSE Scheduled(WokenFirst(k, "mq"))
    /\ UNCHANGED <<late, units, switch, dma, temper, history>>

\* Mutation of RecvWait: the error of an earlier wait is kept.
RecvWaitStale(t) ==
    /\ Step(t, "recv", "receiving") \/ Step(t, "receiving", "receiving")
    /\ mail = 0
    /\ k' = [k EXCEPT !.q = WaitFifo(k.q, "mq", t), !.armed = Disarmed(k, t)]
    /\ late' = late \union {t}
    /\ UNCHANGED <<data, history>>

\* rt_mq_recv finds a message, at the call or after a wake-up, ...
Recv(t) ==
    /\ \/ Step(t, "recv", "report")
       \/ Step(t, "receiving", "report") /\ k.err[t] = "ok"
    /\ mail > 0
    /\ mail' = mail - 1 /\ temper' = "received"
    /\ UNCHANGED <<k, late, units, switch, dma, history>>

\* ... waits, ...
RecvWait(t) ==
    /\ \/ Step(t, "recv", "receiving")
       \/ Step(t, "receiving", "receiving") /\ k.err[t] = "ok"
    /\ mail = 0
    /\ k' = [k EXCEPT !.q = WaitFifo(k.q, "mq", t), !.armed = Disarmed(k, t),
                      !.err[t] = "ok"]
    /\ late' = late \union {t}
    /\ UNCHANGED <<data, history>>

\* ... or fails; what temper holds is printed all the same.
RecvFails(t) ==
    /\ Step(t, "receiving", "report") /\ k.err[t] # "ok"
    /\ UNCHANGED <<k, late, data, history>>

\* rt_exit_critical at the end of a line that was printed
Printed(t) ==
    /\ \/ Step(t, "report", "delay")
       \/ Step(t, "print", IF t = Usart2 THEN "wait" ELSE "delay")
    /\ k' = [k EXCEPT !.current = NextThread(k.q)]
    /\ temper' = IF pc[t] = "report" /\ temper = "received" THEN "old" ELSE temper
    /\ UNCHANGED <<late, mail, units, switch, dma, history>>

\* rt_thread_mdelay
Delay(t) ==
    /\ Step(t, "delay", "asleep") \/ Step(t, "prompt", "asleep")
    /\ k' = [k EXCEPT !.q = IF @.stat[t] = "ready" THEN Suspended(@, t) ELSE @,
                      !.armed = @ \union {t}]
    /\ late' = late \union {t}
    /\ UNCHANGED <<data, history>>

\* Back in rt_thread_sleep; the sensor threads then look at the switch.
Awake(t) ==
    /\ Step(t, "asleep", IF t = Shell THEN "prompt" ELSE IF sensing THEN "take" ELSE "print")
    /\ k' = [k EXCEPT !.err[t] = IF @ = "timeout" THEN "ok" ELSE @]
    /\ UNCHANGED <<late, data, history>>

\* usart2_recv: rt_sem_take
TakeUnit(t) ==
    /\ units > 0 /\ Step(t, "wait", "print")
    /\ units' = units - 1
    /\ UNCHANGED <<k, late, mail, switch, dma, temper, history>>

WaitUnit(t) ==
    /\ units = 0 /\ Step(t, "wait", "waiting")
    /\ k' = [k EXCEPT !.q = WaitFifo(k.q, "sem", t), !.armed = Disarmed(k, t),
                      !.err[t] = "ok"]
    /\ late' = late \union {t}
    /\ UNCHANGED <<data, history>>

GotUnit(t) ==
    /\ Step(t, "waiting", IF k.err[t] = "ok" THEN "print" ELSE "wait")
    /\ UNCHANGED <<k, late, data, history>>

\* rt_timer_control and rt_timer_start of a thread's own timer, whatever that
\* thread does.  Half of the time is what lies beside a 16-bit variable, so
\* that the timer may expire at any tick.
TimerStarted(s, t) == [s EXCEPT !.armed = @ \union {t}]

\* weakup_thread_to_get_sensor as a command, which the shell runs instead of
\* waiting for a character.  Its calls of rt_schedule find nothing new.
WakeUp(t, u, l, n) ==
    /\ Step(t, l, n)
    /\ k' = TimerStarted(k, u)
    /\ UNCHANGED <<late, data, history>>

-----------------------------------------------------------------------------
(* Interrupt handlers                                                       *)

\* EXTI15_10_IRQHandler.  What it prints ends in an rt_schedule.
Key ==
    /\ ~Over /\ UNCHANGED <<pc, late, mail, units, dma, temper, history>>
    /\ timer' = ~timer /\ sensing' = ~timer
    /\ k' = Scheduled(IF timer THEN k ELSE TimerStarted(TimerStarted(k, Bright), Temper))

\* Mutation of Line: the unit is only counted.
LineQuiet ==
    /\ ~Over /\ units < MaxUnits
    /\ units' = units + 1
    /\ UNCHANGED <<k, pc, late, mail, switch, dma, temper, history>>

\* USART2_IRQHandler at the end of a line.  Its buffer, and the position in
\* it, are read by nobody.
Line ==
    /\ ~Over /\ units < MaxUnits
    /\ IF k.q.wait["sem"] = <<>> THEN units' = units + 1 /\ UNCHANGED k
       ELSE k' = Scheduled(WokenFirst(k, "sem")) /\ UNCHANGED units
    /\ UNCHANGED <<pc, late, mail, switch, dma, temper, history>>

\* Mutation of ThreadTimer: the thread is left on the list it waits on.
ThreadTimerLinked(u) ==
    /\ ~Over /\ u \in k.armed
    /\ k' = Scheduled([k EXCEPT !.q = InsertThread(@, u), !.armed = @ \ {u}])
    /\ UNCHANGED <<pc, late, data, history>>

\* rt_thread_timeout.  The thread may be ready, or run.
ThreadTimer(u) ==
    /\ ~Over /\ u \in k.armed
    /\ k' = Scheduled([k EXCEPT !.q = InsertThread(Unlinked(@, u), u),
                                !.armed = @ \ {u}, !.err[u] = "timeout"])
    /\ cut' = cut \union CASE pc[u] = "taking" -> {<<u, "lock">>}
                         [] pc[u] = "receiving" -> {<<u, "mq">>}
                         [] OTHER -> {}
    /\ UNCHANGED <<pc, late, data, events, contended>>

\* sensor_start_convert_entry.  The thread it takes the lock as is the one that
\* was interrupted, or that an earlier timer made rt_current_thread; the one
\* it releases it as is rt_current_thread, too, by then perhaps another.  The
\* loop over DMA1_FLAG_TC1 ends at once: the flag was set by the conversion
\* at start-up and nothing clears it.  The last conversion is long over.
SensorTimer ==
    LET t == k.current
        s == IF MustWait(k, t) THEN Scheduled(Taken(k, t)) ELSE Taken(k, t)
        u == s.current
    IN  /\ ~Over /\ timer /\ ~dma
        /\ k' = IF u = NoThread THEN s
                ELSE IF WillWake(s, u) THEN Scheduled(Released(s, u)) ELSE Released(s, u)
        /\ dma' = ("last" \in events)
        /\ contended' = (contended \/ MustWait(k, t))
        /\ UNCHANGED <<pc, late, mail, units, switch, temper, events, cut>>

\* The DMA controller has stored the last word.
Dma ==
    /\ ~Over /\ dma
    /\ dma' = FALSE
    /\ UNCHANGED <<k, pc, late, mail, units, switch, temper, history>>

\* The slice ends: rt_thread_yield, with another thread of the same priority.
SliceEnds ==
    LET t == k.current
        p == k.q.prio[t]
    IN  /\ ~Over /\ t \in Range(k.q.ready[p]) /\ Len(k.q.ready[p]) > 1
        /\ k' = Scheduled([k EXCEPT !.q.ready[p] = Append(Unlink(@, t), t)])
        /\ UNCHANGED <<pc, late, data, history>>

-----------------------------------------------------------------------------
\* All threads were started, and the first conversion is over.  The shell is
\* left out of a scenario without commands.
Started == Threads \ IF "command" \in events THEN {} ELSE {Shell}

Init ==
    /\ events \in Scenarios
    /\ k = [q |-> [stat    |-> [t \in Threads |-> IF t \in Started THEN "ready" ELSE "init"],
                   prio    |-> Base,
                   ready   |-> [p \in Prios |-> SetToSeq({t \in Started : Base[t] = p})],
                   group   |-> {Base[t] : t \in Started},
                   wait    |-> [o \in Objects |-> <<>>],
                   defunct |-> <<>>],
            current |-> Usart2,
            owner |-> NoThread, value |-> 1, hold |-> 0, orig |-> MaxPrio + 1,
            err |-> [t \in Threads |-> "ok"], armed |-> {}]
    /\ pc = [t \in Threads |-> CASE t = Idle -> "idle" [] t = Usart2 -> "wait"
                               [] t = Shell -> "prompt" [] OTHER -> "take"]
    /\ late = {}
    /\ mail = 0 /\ units = 0
    /\ timer = TRUE /\ sensing = TRUE /\ dma = FALSE /\ temper = "none"
    /\ cut = {} /\ contended = FALSE

Sensor(t) ==
    \/ Take(t) \/ TakeReturn(t) \/ Release(t)
    \/ Send(t) \/ Recv(t) \/ RecvWait(t) \/ RecvFails(t)

Command ==
    \/ WakeUp(Shell, Bright, "prompt", "waking")
    \/ WakeUp(Shell, Temper, "waking", "prompt")

ThreadStep(t) ==
    \/ Schedule(t) \/ Printed(t) \/ Delay(t) \/ Awake(t)
    \/ Sensor(t)
    \/ TakeUnit(t) \/ WaitUnit(t) \/ GotUnit(t)

Next ==
    \/ \E t \in Threads : ThreadStep(t) \/ ThreadTimer(t)
    \/ "command" \in events /\ Command
    \/ "key" \in events /\ Key
    \/ "line" \in events /\ Line
    \/ "convert" \in events /\ SensorTimer
    \/ Dma \/ SliceEnds

Spec == Init /\ [][Next]_vars

\* The processor goes on with the thread it is switched to; no event must come.
FairSpec == Spec /\ WF_vars(ThreadStep(k.current))

-----------------------------------------------------------------------------
(* Properties.  What the ADC timer's function does to a system in which it *)
(* has met a taken lock is the subject of DmaExcluded and of the README;   *)
(* the first four properties say what the other handlers and the threads   *)
(* cannot do to each other, however the timers of the threads are          *)
(* restarted.                                                              *)

LockFields ==
    IF k.owner = NoThread
    THEN k.value = 1 /\ k.hold = 0 /\ k.q.wait["lock"] = <<>>
    ELSE k.value = 0 /\ k.hold > 0 /\ (k.orig = Base[k.owner])

\* A thread that cannot run will be able to: it is on a wait list, or its timer
\* runs.  (ThreadTimer of the code: a timer restarted by the wake-up command may
\* expire whatever its thread does.)
Wakeable(t) == \/ t \in k.armed
               \/ \E o \in Objects : t \in Range(k.q.wait[o])

\* Until the ADC timer's function has waited, the thread lists are sound, the
\* urgent thread runs unless one prints or is about to call rt_schedule, the
\* lock's fields agree and its owner will release it, and no thread is asleep
\* for good: although a restarted timer takes threads out of any wait, and
\* though the timer's function runs as whichever thread it finds.  When the
\* timer has taken the waiter away from an owner that inherited its priority,
\* rt_mutex_release lowers the owner and calls no rt_schedule (ipc.c:828): it
\* goes on before a more urgent thread.
SoundUnlessContended ==
    contended \/
    /\ TypeOK /\ QueuesSound(k.q)
    /\ \/ k.current \in late \/ Printing(k.current) \/ cut # {}
       \/ k.q.prio[k.current] = Highest(k.q)
    /\ LockFields /\ ~Kept
    /\ \A t \in Threads : k.q.stat[t] = "suspend" => Wakeable(t)

\* A sensor thread reads ADCBuffer only as the owner of the lock (Task.c:141),
\* but for one whose wait for the lock was ended by its timer in this round.
Exclusive ==
    contended \/
    \A t \in {Bright, Temper} : InSection(t) => k.owner = t \/ <<t, "lock">> \in cut

\* The temperature printed beside a brightness was received in the same round,
\* but when the timer of the light thread ended its wait for the message.
PairReceived ==
    contended \/ <<Bright, "mq">> \in cut \/ ~(pc[Bright] = "report" /\ temper # "received")

\* The threads take turns at the lock: nobody but its owner passes it on.
OwnerReleases ==
    [][contended' \/ k.owner = NoThread \/ k'.owner = k.owner
       \/ (k.current = k.owner /\ InSection(k.owner))]_vars

\* A line end the handler counted is taken by the receiving thread, however
\* many events come, unless the ADC timer's function has broken the system.
LineHandled == (units > 0) ~> (units = 0 \/ Over)

\* ADCTimer.c:43 says that the lock keeps conversions and reads of the buffer
\* apart.
DmaExcluded == dma => \A t \in {Bright, Temper} : ~InSection(t)
=============================================================================
